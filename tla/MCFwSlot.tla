------------------------------ MODULE MCFwSlot ------------------------------
(* Instances of FwSlot for TLC: a package ia of one block, ib of two.      *)
EXTENDS FwSlot

CONSTANTS p1, p2, ia, ib, none

MCBodyLen == [i \in Images |-> IF i = ia THEN 1 ELSE 2]
MCInitBad == {{}, {2}}
MCNoBad == {{}}
=============================================================================
