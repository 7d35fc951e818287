---------------------------- MODULE SlotContract ----------------------------
(***************************************************************************)
(* What zte-fwslot promises its callers (sysupgrade's platform.sh and the  *)
(* LuCI page): two slots, each holding a complete firmware image or none.  *)
(* An image comes into being as a whole, in the slot that is not running,  *)
(* and with it that slot becomes the next one; the slot that is running    *)
(* keeps its image, and there is always one to boot.                       *)
(***************************************************************************)
EXTENDS Integers

CONSTANTS Images, NoImage

VARIABLES fw,       \* fw[s]: the image slot s holds, or NoImage
          next,     \* the slot the next boot starts
          running   \* the slot the system runs from

cvars == <<fw, next, running>>

other == 1 - running

Init ==
    /\ running \in {0, 1}
    /\ fw \in [{0, 1} -> Images \cup {NoImage}]
    /\ fw[running] # NoImage
    /\ next = running

\* flash erases the other slot, or switch takes its header away.
Withdraw ==
    /\ fw' = [fw EXCEPT ![other] = NoImage]
    /\ next' = running
    /\ UNCHANGED running

\* The header is written: the image is there and is the next one.
Publish ==
    /\ fw[other] = NoImage
    /\ \E i \in Images : fw' = [fw EXCEPT ![other] = i]
    /\ next' = other
    /\ UNCHANGED running

Reboot ==
    /\ running' = next
    /\ UNCHANGED <<fw, next>>

Next == Withdraw \/ Publish \/ Reboot

Spec == Init /\ [][Next]_cvars
=============================================================================
