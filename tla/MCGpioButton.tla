---------------------------- MODULE MCGpioButton ----------------------------
(* A key and a switch on lines, then a button with an interrupt only.      *)
EXTENDS GpioButton

Key    == [avail |-> TRUE, irq |-> FALSE, gpio |-> TRUE, toirq |-> TRUE, type |-> "key"]
Switch == [Key EXCEPT !.type = "switch"]
IrqKey == [Key EXCEPT !.irq = TRUE, !.gpio = FALSE]

MCNodes == <<[Key EXCEPT !.toirq = FALSE], Switch, IrqKey>>
=============================================================================
