------------------------------ MODULE MCNvram ------------------------------
(* Two special variables with numbers for values ("0x0", "0x9" and "0011", *)
(* octal for 9; erased flash reads as 0), and two plain ones with values   *)
(* of one, two or seven characters; vj is what a value cut short runs      *)
(* into.  A variable takes three bytes more than its value: v7 and v1 just *)
(* fit beside the special ones, unless one of those is "0011".             *)
EXTENDS Nvram

CONSTANTS s1, s2, a, b, x0, x9, o9, v1, v2, v7, vj, p1, p2

MCNames    == {s1, s2, a, b}
MCSpecials == <<s1, s2>>
MCValues   == {x0, x9, o9, v1, v2, v7, vj}
MCLen      == [x \in MCNames \cup MCValues |->
                 CASE x \in MCNames \cup {v1} -> 1 [] x = v2 -> 2 [] x \in {x0, x9} -> 3
                   [] x = o9 -> 4 [] x = v7 -> 7 [] x = vj -> 22]
MCWord     == [v \in MCValues |-> IF v \in {x9, o9} THEN 9 ELSE 0]
MCPrint    == [w \in {0, 9} |-> IF w = 9 THEN x9 ELSE x0]
MCDefault  == [n \in {s1, s2} |-> IF n = s1 THEN 9 ELSE 0]
MCHash     == [n \in MCNames |-> IF n \in {s1, s2} THEN 1 ELSE 2]
MCFirst    == <<<<s1, x9>>, <<s2, x0>>, <<a, v2>>>>
MCSets     == {<<s2, o9>>, <<a, v7>>, <<b, v1>>}
=============================================================================
