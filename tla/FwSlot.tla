------------------------------- MODULE FwSlot -------------------------------
(***************************************************************************)
(* zte-fwslot (package/fxfall/zte-fwslot): the tool that writes and        *)
(* selects the two firmware slots of the ZXSLC SR1010.                     *)
(*                                                                         *)
(* A slot is an MTD partition of NBlocks NAND erase blocks.  The payload   *)
(* sits in the good blocks, in order, and a version header in a block of   *)
(* its own behind it.  The boot loader starts the slot whose header holds  *)
(* the higher serial and does not fall back.  Nothing locks the flash, the *)
(* tool works on it one block at a time, and the power may go at any       *)
(* moment, so every block operation is an action of its own.               *)
(*                                                                         *)
(* Env says which unpleasant things the environment does:                  *)
(*   "writeFails"  programming a block may fail                            *)
(*   "eraseFails"  erasing a block may fail                                *)
(*   "markFails"   MEMSETBADBLOCK may fail                                 *)
(*   "reflash"     flash may be run although the slot it overwrites is the *)
(*                 one the next boot selects (flash or switch ran before,  *)
(*                 without a reboot)                                       *)
(*   "concurrent"  two invocations of the tool may overlap                 *)
(***************************************************************************)
EXTENDS Integers

CONSTANTS Procs,      \* invocations of the tool that may exist
          Images,     \* firmware packages that package_load accepts
          NoImage,    \* image field of a block that belongs to no image
          NBlocks,    \* erase blocks of a slot
          BodyLen,    \* erase blocks the payload of an image fills
          InitBad,    \* sets of blocks that may be bad from the factory
          MaxSerial,  \* bound: no invocation starts at a serial above it
          Env         \* what may go wrong, see above

ASSUME ImagesAssumption  == NoImage \notin Images
ASSUME NBlocksAssumption == NBlocks \in Nat \ {0}
ASSUME BodyLenAssumption == BodyLen \in [Images -> Nat \ {0}]
ASSUME InitBadAssumption == InitBad \subseteq SUBSET (1..NBlocks)
ASSUME MaxSerialAssumption == MaxSerial \in Nat
ASSUME EnvAssumption ==
    Env \subseteq {"writeFails", "eraseFails", "markFails", "reflash", "concurrent"}

Slots  == {0, 1}
NoSlot == -1
Blocks == 1..NBlocks
NoBlock == 0

(* What reading a block yields.  One that was torn by a power cut, or      *)
(* programmed twice, holds no valid header and fails every payload CRC.    *)
Erased         == [kind |-> "erased",  img |-> NoImage, n |-> 0]
Garbage        == [kind |-> "garbage", img |-> NoImage, n |-> 0]
Body(i, j)     == [kind |-> "body",    img |-> i,       n |-> j]
Header(i, s)   == [kind |-> "header",  img |-> i,       n |-> s]

Content == [kind : {"erased", "garbage", "body", "header"},
            img : Images \cup {NoImage}, n : Nat]

VARIABLES
    flash,    \* flash[s][b]: content of block b of slot s
    bad,      \* bad[s]: the blocks of s the bad block table lists
    running,  \* slot the system booted from; NoSlot: it does not boot
    pc,       \* per invocation: the step it is at
    tgt,      \* the slot it works on
    img,      \* the image it writes (flash) or found (switch)
    ser,      \* the serial it puts in the header
    ofs,      \* the block it is at
    k,        \* the next piece of the payload to write
    told      \* what the last invocation that ended reported

vars == <<flash, bad, running, pc, tgt, img, ser, ofs, k, told>>
local == <<tgt, img, ser, ofs, k>>

NothingTold == [ok |-> FALSE, slot |-> NoSlot, img |-> NoImage]

Labels == {"idle", "erase", "write", "verify", "swserial", "swerase", "swwrite"}

(***************************************************************************)
(* Reading a slot.  fl is the content of its blocks, bd its bad blocks.    *)
(***************************************************************************)

\* Blocks in which slot_scan would accept a header.
HeaderBlocks(fl, bd) == {b \in Blocks \ bd : fl[b].kind = "header"}

\* The first good block with a header, or NoBlock.
\* A block that cannot be read, at which mtd_read ends the tool before it has
\* written anything, counts as one without a header.
slot_scan(fl, bd) ==
    LET H == HeaderBlocks(fl, bd)
    IN  IF H = {} THEN NoBlock ELSE CHOOSE b \in H : \A c \in H : b <= c

\* f lists the first n good blocks of a slot, in order.
Layout(bd, f, n) ==
    /\ f \in [1..n -> Blocks \ bd]
    /\ \A i, j \in 1..n : i < j => f[i] < f[j]
    /\ \A b \in Blocks \ bd, j \in 1..n : b <= f[j] => \E i \in 1..n : f[i] = b

\* The first n good blocks hold the first n pieces of image i.
Prefix(fl, bd, i, n) ==
    \E f \in [1..n -> Blocks \ bd] :
        /\ Layout(bd, f, n)
        /\ \A j \in 1..n : fl[f[j]] = Body(i, j)

\* The payload of image i can be read back from the good blocks.
slot_verify(fl, bd, i) == Prefix(fl, bd, i, BodyLen[i])

HasHeader(s)  == slot_scan(flash[s], bad[s]) # NoBlock
HeaderOf(s)   == flash[s][slot_scan(flash[s], bad[s])]
SerialOf(s)   == HeaderOf(s).n

\* Mutant: only the slot that is about to be written is looked at.
max_serial_target ==
    IF HasHeader(1 - running) THEN SerialOf(1 - running) ELSE 0

\* The highest serial of both slots, 0 when neither has a header.
max_serial ==
    LET best == IF HasHeader(0) THEN SerialOf(0) ELSE 0
    IN  IF HasHeader(1) /\ SerialOf(1) > best THEN SerialOf(1) ELSE best

\* The slot the boot loader starts: the higher serial, slot 0 on a tie.
next_slot ==
    IF HasHeader(0) /\ (HasHeader(1) => SerialOf(1) <= SerialOf(0)) THEN 0
    ELSE IF HasHeader(1) THEN 1
    ELSE NoSlot

\* Slot s has a header and the payload that header promises.
Intact(s) == HasHeader(s) /\ slot_verify(flash[s], bad[s], HeaderOf(s).img)

Other(s) == 1 - s

(***************************************************************************)
(* Initial states: the system runs from an intact slot with serial 1; the  *)
(* other slot is empty, holds an older firmware, or a damaged one.         *)
(***************************************************************************)

\* A slot with image i in the first good blocks, listed by f, header last.
Laid(bd, f, i, s) ==
    [b \in Blocks |->
        IF \E j \in 1..BodyLen[i] : f[j] = b
          THEN Body(i, CHOOSE j \in 1..BodyLen[i] : f[j] = b)
          ELSE IF f[BodyLen[i] + 1] = b THEN Header(i, s)
          ELSE IF b \in bd THEN Garbage ELSE Erased]

Installed(bd, s) ==
    UNION {{Laid(bd, f, i, s) :
              f \in {g \in [1..(BodyLen[i] + 1) -> Blocks \ bd] : Layout(bd, g, BodyLen[i] + 1)}} :
            i \in Images}

Empty == [b \in Blocks |-> Erased]

Damaged(bd, s) ==
    {[fl EXCEPT ![b] = Garbage] : fl \in Installed(bd, s), b \in Blocks}

Init ==
    /\ running \in Slots
    /\ bad \in [Slots -> InitBad]
    /\ \E r \in Installed(bad[running], 1),
          o \in Installed(bad[Other(running)], 0) \cup
                Damaged(bad[Other(running)], 0) \cup {Empty} :
         flash = [s \in Slots |-> IF s = running THEN r ELSE o]
    /\ pc   = [p \in Procs |-> "idle"]
    /\ tgt  = [p \in Procs |-> 0]
    /\ img  = [p \in Procs |-> NoImage]
    /\ ser  = [p \in Procs |-> 0]
    /\ ofs  = [p \in Procs |-> 1]
    /\ k    = [p \in Procs |-> 1]
    /\ told = NothingTold

(***************************************************************************)
(* The flash device.                                                       *)
(***************************************************************************)

SetBlock(s, b, c) == flash' = [flash EXCEPT ![s][b] = c]

\* Programming a block that is not erased leaves a mixture of old and new.
Programmed(s, b, c) == IF flash[s][b] = Erased THEN c ELSE Garbage

\* What a failed erase leaves behind.
AfterFailedErase(s, b) == {flash[s][b], Garbage}

\* What a failed write leaves behind: a header fits the first page, so it may
\* be there although writing the rest of the block failed.
AfterFailedWrite(s, b, c) ==
    {Garbage} \cup {Programmed(s, b, c) : x \in {y \in {c} : y.kind = "header"}}

(***************************************************************************)
(* Ending an invocation.                                                   *)
(***************************************************************************)

\* The process is gone, its variables with it.
Exit(p, report) ==
    /\ pc'   = [pc  EXCEPT ![p] = "idle"]
    /\ tgt'  = [tgt EXCEPT ![p] = 0]
    /\ img'  = [img EXCEPT ![p] = NoImage]
    /\ ser'  = [ser EXCEPT ![p] = 0]
    /\ ofs'  = [ofs EXCEPT ![p] = 1]
    /\ k'    = [k   EXCEPT ![p] = 1]
    /\ told' = report

die(p) == Exit(p, NothingTold)

Goto(p, label) ==
    /\ pc' = [pc EXCEPT ![p] = label]
    /\ UNCHANGED told

MayStart(p) ==
    /\ running \in Slots
    /\ pc[p] = "idle"
    /\ "concurrent" \in Env \/ \A q \in Procs : pc[q] = "idle"
    /\ max_serial < MaxSerial

(***************************************************************************)
(* zte-fwslot flash                                                        *)
(***************************************************************************)

\* Mutant: the running slot is overwritten.
target_slot_running == running

target_slot == Other(running)

\* package_load, the checks, the choice of slot and serial.
cmd_flash(p, i) ==
    /\ MayStart(p)
    /\ "reflash" \in Env \/ next_slot = running
    /\ BodyLen[i] <= NBlocks - 1
    /\ pc'   = [pc  EXCEPT ![p] = "erase"]
    /\ tgt'  = [tgt EXCEPT ![p] = target_slot]
    /\ img'  = [img EXCEPT ![p] = i]
    /\ ser'  = [ser EXCEPT ![p] = max_serial + 1]
    /\ ofs'  = [ofs EXCEPT ![p] = 1]
    /\ k'    = [k   EXCEPT ![p] = 1]
    /\ told' = NothingTold
    /\ UNCHANGED <<flash, bad, running>>

\* One round of the loop of erase_slot: bad blocks are left alone, a failed
\* erase is only logged.
erase_slot(p) ==
    /\ pc[p] = "erase"
    /\ \/ /\ ofs[p] \in bad[tgt[p]]
          /\ UNCHANGED flash
       \/ /\ ofs[p] \notin bad[tgt[p]]
          /\ SetBlock(tgt[p], ofs[p], Erased)
       \/ /\ ofs[p] \notin bad[tgt[p]]
          /\ "eraseFails" \in Env
          /\ \E c \in AfterFailedErase(tgt[p], ofs[p]) : SetBlock(tgt[p], ofs[p], c)
    /\ IF ofs[p] = NBlocks
         THEN Goto(p, "write") /\ ofs' = [ofs EXCEPT ![p] = 1]
         ELSE UNCHANGED <<pc, told>> /\ ofs' = [ofs EXCEPT ![p] = @ + 1]
    /\ UNCHANGED <<bad, running, tgt, img, ser, k>>

\* Mutant: the header goes first, the payload behind it.
ToWrite_header_first(p) ==
    IF k[p] = 1 THEN Header(img[p], ser[p]) ELSE Body(img[p], k[p] - 1)

\* The next block to write: the pieces of the payload, then the header.
ToWrite(p) ==
    IF k[p] <= BodyLen[img[p]] THEN Body(img[p], k[p]) ELSE Header(img[p], ser[p])

write_skip(p) ==
    /\ pc[p] = "write"
    /\ ofs[p] \in Blocks
    /\ ofs[p] \in bad[tgt[p]]
    /\ ofs' = [ofs EXCEPT ![p] = @ + 1]
    /\ UNCHANGED <<flash, bad, running, pc, tgt, img, ser, k, told>>

write_ok(p) ==
    /\ pc[p] = "write"
    /\ ofs[p] \in Blocks
    /\ ofs[p] \notin bad[tgt[p]]
    /\ SetBlock(tgt[p], ofs[p], Programmed(tgt[p], ofs[p], ToWrite(p)))
    /\ ofs' = [ofs EXCEPT ![p] = @ + 1]
    /\ k'   = [k EXCEPT ![p] = @ + 1]
    /\ Goto(p, IF k[p] <= BodyLen[img[p]] THEN "write" ELSE "verify")
    /\ UNCHANGED <<bad, running, tgt, img, ser>>

\* Mutant: the block that failed is not marked bad.
mtd_mark_bad_not(s, b) == UNCHANGED bad

\* A failed MEMSETBADBLOCK is only logged.
mtd_mark_bad(s, b) ==
    \/ bad' = [bad EXCEPT ![s] = @ \cup {b}]
    \/ "markFails" \in Env /\ UNCHANGED bad

\* Mutant: after a failure the writing starts over.
write_fail_restart(p) ==
    /\ pc[p] = "write"
    /\ ofs[p] \in Blocks
    /\ ofs[p] \notin bad[tgt[p]]
    /\ "writeFails" \in Env
    /\ SetBlock(tgt[p], ofs[p], Garbage)
    /\ ofs' = [ofs EXCEPT ![p] = 1]
    /\ k'   = [k EXCEPT ![p] = 1]
    /\ UNCHANGED <<bad, running, pc, tgt, img, ser, told>>

\* write_block, when programming fails: mark the block, try the next one.
write_fail(p) ==
    /\ pc[p] = "write"
    /\ ofs[p] \in Blocks
    /\ ofs[p] \notin bad[tgt[p]]
    /\ "writeFails" \in Env
    /\ \E c \in AfterFailedWrite(tgt[p], ofs[p], ToWrite(p)) :
         SetBlock(tgt[p], ofs[p], c)
    /\ mtd_mark_bad(tgt[p], ofs[p])
    /\ ofs' = [ofs EXCEPT ![p] = @ + 1]
    /\ UNCHANGED <<running, pc, tgt, img, ser, k, told>>

\* Mutant: the end of the partition is not noticed.
write_out_on(p) ==
    /\ pc[p] = "write"
    /\ ofs[p] \notin Blocks
    /\ ofs' = [ofs EXCEPT ![p] = @ + 1]
    /\ UNCHANGED <<flash, bad, running, pc, tgt, img, ser, k, told>>

\* "ran out of good blocks"
write_out(p) ==
    /\ pc[p] = "write"
    /\ ofs[p] \notin Blocks
    /\ die(p)
    /\ UNCHANGED <<flash, bad, running>>

\* The header is read back; the payload is not.
flash_verify(p) ==
    /\ pc[p] = "verify"
    /\ IF HasHeader(tgt[p])
         THEN Exit(p, [ok |-> TRUE, slot |-> tgt[p], img |-> img[p]])
         ELSE die(p)
    /\ UNCHANGED <<flash, bad, running>>

(***************************************************************************)
(* zte-fwslot switch                                                       *)
(***************************************************************************)

\* Find the header of the other slot and check the payload behind it.
cmd_switch(p) ==
    /\ MayStart(p)
    /\ LET o == Other(running) IN
         IF HasHeader(o) /\ slot_verify(flash[o], bad[o], HeaderOf(o).img)
           THEN /\ pc'   = [pc  EXCEPT ![p] = "swserial"]
                /\ tgt'  = [tgt EXCEPT ![p] = o]
                /\ img'  = [img EXCEPT ![p] = HeaderOf(o).img]
                /\ ofs'  = [ofs EXCEPT ![p] = slot_scan(flash[o], bad[o])]
                /\ told' = NothingTold
                /\ UNCHANGED <<ser, k>>
           ELSE /\ told' = NothingTold
                /\ UNCHANGED <<pc, local>>
    /\ UNCHANGED <<flash, bad, running>>

switch_serial(p) ==
    /\ pc[p] = "swserial"
    /\ ser' = [ser EXCEPT ![p] = max_serial + 1]
    /\ Goto(p, "swerase")
    /\ UNCHANGED <<flash, bad, running, tgt, img, ofs, k>>

switch_erase(p) ==
    /\ pc[p] = "swerase"
    /\ \/ /\ SetBlock(tgt[p], ofs[p], Erased)
          /\ Goto(p, "swwrite")
          /\ UNCHANGED local
       \/ /\ "eraseFails" \in Env
          /\ \E c \in AfterFailedErase(tgt[p], ofs[p]) : SetBlock(tgt[p], ofs[p], c)
          /\ die(p)
    /\ UNCHANGED <<bad, running>>

switch_write(p) ==
    /\ pc[p] = "swwrite"
    /\ LET h == Header(img[p], ser[p]) IN
         \/ /\ SetBlock(tgt[p], ofs[p], Programmed(tgt[p], ofs[p], h))
            /\ Exit(p, [ok |-> TRUE, slot |-> tgt[p], img |-> img[p]])
         \/ /\ "writeFails" \in Env
            /\ \E c \in AfterFailedWrite(tgt[p], ofs[p], h) : SetBlock(tgt[p], ofs[p], c)
            /\ die(p)
    /\ UNCHANGED <<bad, running>>

(***************************************************************************)
(* Power cut or reboot.  A block that was being erased or programmed may   *)
(* be left torn.  The boot loader (external) then starts next_slot; when   *)
(* that slot is not intact nothing runs any more.                          *)
(***************************************************************************)

Working == {p \in Procs :
    pc[p] \in {"erase", "write", "swerase", "swwrite"} /\ ofs[p] \in Blocks \ bad[tgt[p]]}

power_cut ==
    /\ running \in Slots
    /\ \E T \in SUBSET Working :
         flash' = [s \in Slots |-> [b \in Blocks |->
                     IF \E p \in T : tgt[p] = s /\ ofs[p] = b THEN Garbage ELSE flash[s][b]]]
    /\ bad' = bad
    /\ running' = IF next_slot' \in Slots /\ Intact(next_slot)' THEN next_slot' ELSE NoSlot
    /\ pc'   = [p \in Procs |-> "idle"]
    /\ tgt'  = [p \in Procs |-> 0]
    /\ img'  = [p \in Procs |-> NoImage]
    /\ ser'  = [p \in Procs |-> 0]
    /\ ofs'  = [p \in Procs |-> 1]
    /\ k'    = [p \in Procs |-> 1]
    /\ told' = NothingTold

ToolStep(p) ==
    \/ erase_slot(p)
    \/ write_skip(p) \/ write_ok(p) \/ write_fail(p) \/ write_out(p)
    \/ flash_verify(p)
    \/ switch_serial(p) \/ switch_erase(p) \/ switch_write(p)

Next ==
    \/ \E p \in Procs :
         \/ \E i \in Images : cmd_flash(p, i)
         \/ cmd_switch(p)
         \/ ToolStep(p)
    \/ power_cut

Spec == Init /\ [][Next]_vars

\* An invocation that was started is scheduled until it ends.
FairSpec == Spec /\ \A p \in Procs : WF_vars(ToolStep(p))

-----------------------------------------------------------------------------
(***************************************************************************)
(* Properties                                                              *)
(***************************************************************************)

\* The state stays in the ranges of struct mtd and of cmd_flash's locals:
\* blocks stay inside the partition, the slot is one of slot_start[].
TypeOK ==
    /\ flash \in [Slots -> [Blocks -> Content]]
    /\ bad \in [Slots -> SUBSET Blocks]
    /\ running \in Slots \cup {NoSlot}
    /\ pc  \in [Procs -> Labels]
    /\ tgt \in [Procs -> Slots]
    /\ img \in [Procs -> Images \cup {NoImage}]
    /\ ser \in [Procs -> Nat]
    /\ ofs \in [Procs -> 1..(NBlocks + 1)]
    /\ k   \in [Procs -> Nat \ {0}]
    /\ told \in [ok : BOOLEAN, slot : Slots \cup {NoSlot}, img : Images \cup {NoImage}]

\* "The bootloader does not fall back: never point it at a broken slot."  At
\* every instant, the middle of a flash or a switch included, the slot the
\* boot loader would start after a power cut has the payload its header
\* promises.
BootSafe == running \in Slots /\ next_slot \in Slots /\ Intact(next_slot)

\* When flash reported "slot %d now holds serial %u; reboot to run it", or
\* switch "next boot selects slot %d", a reboot does start that slot and
\* finds there the whole image that was written.
Promise ==
    told.ok => /\ next_slot = told.slot
               /\ Intact(told.slot)
               /\ HeaderOf(told.slot).img = told.img

\* platform_do_upgrade: "the running slot is unchanged".  No step of the tool
\* changes a block of the slot the system runs from, or its bad blocks.
RunningUntouched ==
    [][running' = running =>
         \A s \in Slots : s = running => flash'[s] = flash[s] /\ bad'[s] = bad[s]]_vars

\* Every invocation comes to its end: neither the bad block loop of
\* write_block nor the payload loop of cmd_flash goes on for ever.
Terminates == \A p \in Procs : pc[p] # "idle" ~> pc[p] = "idle"

\* The contract the callers rely on, seen through the blocks: a slot holds an
\* image when its header is found and the payload reads back.  Every step of
\* the tool is a step of SlotContract or invisible to it: an image never
\* appears in part, and never changes without being withdrawn first.
Contract == INSTANCE SlotContract WITH
    fw   <- [s \in Slots |-> IF Intact(s) THEN HeaderOf(s).img ELSE NoImage],
    next <- next_slot

Implements == Contract!Spec
=============================================================================
