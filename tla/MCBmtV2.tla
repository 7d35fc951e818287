------------------------------ MODULE MCBmtV2 ------------------------------
(* Instances of BmtV2 for TLC. *)
EXTENDS BmtV2

CONSTANTS t1, t2, va

MCOne == {{}}
MCFactory == {{}, {1}}
MCAll == 0..3
=============================================================================
