------------------------------ MODULE MCTrelay ------------------------------
(***************************************************************************)
(* Trelay with four devices: two disjoint pairs, so that two relays are up *)
(* at once, a pair that overlaps both under a name that is in use then,    *)
(* and a device joined to itself.                                          *)
(***************************************************************************)
EXTENDS Trelay

CONSTANTS d1, d2, d3, d4, n1, n2

MCDevs  == {d1, d2, d3, d4}
MCLines == {<<n1, d1, d2>>, <<n2, d3, d4>>, <<n1, d3, d2>>, <<n2, d1, d1>>}
=============================================================================
