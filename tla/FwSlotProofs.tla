---------------------------- MODULE FwSlotProofs ----------------------------
(***************************************************************************)
(* Theorems about FwSlot, for slots of any size, any set of images and any *)
(* number of invocations.                                                  *)
(***************************************************************************)
EXTENDS FwSlot, TLAPS, WellFoundedInduction

(***************************************************************************)
(* The inductive invariant behind BootSafe and Promise.                    *)
(***************************************************************************)

Target    == Other(running)
RunSerial == SerialOf(running)

\* The only header of a slot is in block b.
OneHeader(s, b) ==
    /\ HeaderBlocks(flash[s], bad[s]) = {b}
    /\ flash[s][b].img \in Images

NoHeader(s) == HeaderBlocks(flash[s], bad[s]) = {}

\* The slot the system runs from is complete.
RunningSolid ==
    /\ running \in Slots
    /\ \E b \in Blocks :
         /\ OneHeader(running, b)
         /\ slot_verify(flash[running], bad[running], flash[running][b].img)

\* The other slot has no header, or an older one, or a newer one and the
\* payload it promises.
OtherSafe ==
    \/ NoHeader(Target)
    \/ \E b \in Blocks :
         /\ OneHeader(Target, b)
         /\ flash[Target][b].n # RunSerial
         /\ flash[Target][b].n > RunSerial =>
              slot_verify(flash[Target], bad[Target], flash[Target][b].img)

Exclusive == \A p, q \in Procs : pc[p] # "idle" /\ pc[q] # "idle" => p = q

\* An invocation works on the slot that is not running, inside the partition.
OnTarget ==
    \A p \in Procs : pc[p] # "idle" =>
        /\ running \in Slots
        /\ tgt[p] = Target
        /\ pc[p] \notin {"write", "verify"} => ofs[p] \in Blocks

\* While erasing: a header that is still there loses against the running one.
Erasing(p) ==
    /\ img[p] \in Images /\ ser[p] > RunSerial /\ k[p] = 1 /\ ofs[p] \in Blocks
    /\ \A b \in Blocks \ bad[Target] : b < ofs[p] => flash[Target][b] = Erased
    /\ \A b \in HeaderBlocks(flash[Target], bad[Target]) : flash[Target][b].n < RunSerial

\* While writing: the good blocks below ofs hold the first k - 1 pieces, those
\* from ofs on are erased.
Filled(fl, bd, i, n, o) ==
    \E f \in [1..n -> Blocks \ bd] :
        /\ Layout(bd, f, n)
        /\ \A j \in 1..n : fl[f[j]] = Body(i, j) /\ f[j] < o
        /\ \A b \in Blocks \ bd : b < o => \E j \in 1..n : f[j] = b

Writing(p) ==
    /\ img[p] \in Images /\ ser[p] > RunSerial
    /\ k[p] <= BodyLen[img[p]] + 1
    /\ NoHeader(Target)
    /\ \A b \in Blocks \ bad[Target] : ofs[p] <= b => flash[Target][b] = Erased
    /\ Filled(flash[Target], bad[Target], img[p], k[p] - 1, ofs[p])

\* The new header is there, and so is the payload.
Written(i, b) ==
    /\ OneHeader(Target, b)
    /\ flash[Target][b].img = i
    /\ flash[Target][b].n > RunSerial
    /\ slot_verify(flash[Target], bad[Target], i)

\* switch found the header in block ofs and a payload that matches it.
Checked(p) ==
    /\ img[p] \in Images
    /\ OneHeader(Target, ofs[p])
    /\ flash[Target][ofs[p]].img = img[p]
    /\ slot_verify(flash[Target], bad[Target], img[p])

\* The header block is erased, the payload is still there.
Headless(p) ==
    /\ img[p] \in Images /\ ser[p] > RunSerial
    /\ ofs[p] \in Blocks \ bad[Target]
    /\ NoHeader(Target)
    /\ flash[Target][ofs[p]] = Erased
    /\ slot_verify(flash[Target], bad[Target], img[p])

ProcInv(p) ==
    /\ pc[p] = "erase"    => Erasing(p)
    /\ pc[p] = "write"    => Writing(p)
    /\ pc[p] = "verify"   => \E b \in Blocks : Written(img[p], b)
    /\ pc[p] = "swserial" => Checked(p)
    /\ pc[p] = "swerase"  => Checked(p) /\ ser[p] > RunSerial
    /\ pc[p] = "swwrite"  => Headless(p)

ToldInv ==
    told.ok => /\ \A p \in Procs : pc[p] = "idle"
               /\ told.slot = Target
               /\ \E b \in Blocks : Written(told.img, b)

IInv ==
    /\ TypeOK
    /\ RunningSolid
    /\ OtherSafe
    /\ Exclusive
    /\ OnTarget
    /\ \A p \in Procs : ProcInv(p)
    /\ ToldInv

-----------------------------------------------------------------------------
(***************************************************************************)
(* Reading a slot.                                                         *)
(***************************************************************************)

\* A nonempty set of natural numbers has a least element.
LEMMA LeastElement ==
    ASSUME NEW S, S \subseteq Nat, S # {}
    PROVE  \E m \in S : \A n \in S : m <= n
<1> DEFINE R == OpToRel(<, Nat)
<1>1. IsWellFoundedOn(R, Nat)
  BY NatLessThanWellFounded, Zenon
<1> HIDE DEF R
<1>2. PICK x \in S : \A y \in S : ~ (<<y, x>> \in R)
  BY <1>1, WFMin
<1>3. ASSUME NEW y \in S PROVE x <= y
  <2>1. ~ (y < x)
    BY <1>2 DEF R, OpToRel
  <2> QED BY <2>1
<1> QED BY <1>3

\* slot_scan returns the first block with a header, or NoBlock when there is
\* none: the loop of slot_scan ends at the lowest match.
LEMMA ScanCorrect ==
    ASSUME NEW fl, NEW bd
    PROVE  LET H == HeaderBlocks(fl, bd) IN
             /\ H = {} => slot_scan(fl, bd) = NoBlock
             /\ H # {} => slot_scan(fl, bd) \in H /\ \A c \in H : slot_scan(fl, bd) <= c
<1> DEFINE H == HeaderBlocks(fl, bd)
<1>1. H \subseteq Nat
  BY NBlocksAssumption DEF HeaderBlocks, Blocks
<1>2. CASE H = {}
  BY <1>2 DEF slot_scan
<1>3. CASE H # {}
  <2> HIDE DEF H
  <2>1. \E m \in H : \A n \in H : m <= n
    BY <1>1, <1>3, LeastElement
  <2>2. slot_scan(fl, bd) = CHOOSE b \in H : \A c \in H : b <= c
    BY <1>3 DEF slot_scan, H
  <2> QED BY <2>1, <2>2, <1>3 DEF H
<1> QED BY <1>2, <1>3

LEMMA ScanType ==
    ASSUME NEW fl, NEW bd
    PROVE  slot_scan(fl, bd) \in Blocks \cup {NoBlock}
BY ScanCorrect DEF HeaderBlocks

\* With a single header, slot_scan finds that one.
LEMMA ScanOne ==
    ASSUME NEW fl, NEW bd, NEW b \in Blocks, HeaderBlocks(fl, bd) = {b}
    PROVE  slot_scan(fl, bd) = b
BY ScanCorrect

LEMMA SerialType ==
    ASSUME TypeOK
    PROVE  /\ \A s \in Slots : HasHeader(s) => HeaderOf(s) \in Content /\ SerialOf(s) \in Nat
           /\ max_serial \in Nat
<1>1. ASSUME NEW s \in Slots, HasHeader(s)
      PROVE  HeaderOf(s) \in Content
  <2>1. slot_scan(flash[s], bad[s]) \in Blocks
    BY <1>1, ScanType DEF HasHeader
  <2> QED BY <2>1 DEF HeaderOf, TypeOK
<1>2. \A s \in Slots : HasHeader(s) => SerialOf(s) \in Nat
  BY <1>1 DEF SerialOf, Content
<1> QED BY <1>1, <1>2 DEF max_serial, Slots

-----------------------------------------------------------------------------
(***************************************************************************)
(* Type correctness, and the slot that is running is never written.        *)
(***************************************************************************)

LEMMA ContentTypes ==
    /\ Erased \in Content /\ Garbage \in Content
    /\ \A i \in Images \cup {NoImage}, j \in Nat : Body(i, j) \in Content /\ Header(i, j) \in Content
BY DEF Erased, Garbage, Body, Header, Content

LEMMA LaidType ==
    ASSUME NEW bd, NEW f, NEW i \in Images, NEW s \in Nat
    PROVE  Laid(bd, f, i, s) \in [Blocks -> Content]
<1>1. ASSUME NEW b \in Blocks, \E j \in 1..BodyLen[i] : f[j] = b
      PROVE  (CHOOSE j \in 1..BodyLen[i] : f[j] = b) \in Nat
  BY <1>1, BodyLenAssumption
<1> QED BY <1>1, ContentTypes DEF Laid

LEMMA InstalledType ==
    ASSUME NEW bd, NEW s \in Nat
    PROVE  /\ Installed(bd, s) \subseteq [Blocks -> Content]
           /\ Damaged(bd, s) \subseteq [Blocks -> Content]
<1>1. Installed(bd, s) \subseteq [Blocks -> Content]
  BY LaidType DEF Installed
<1> QED BY <1>1, ContentTypes DEF Damaged

LEMMA InitTypeOK == Init => TypeOK
<1> SUFFICES ASSUME Init PROVE TypeOK
  OBVIOUS
<1>1. PICK r \in Installed(bad[running], 1),
           o \in Installed(bad[Other(running)], 0) \cup
                 Damaged(bad[Other(running)], 0) \cup {Empty} :
        flash = [s \in Slots |-> IF s = running THEN r ELSE o]
  BY DEF Init
<1>2. Empty \in [Blocks -> Content]
  BY ContentTypes DEF Empty
<1>3. r \in [Blocks -> Content] /\ o \in [Blocks -> Content]
  BY <1>2, InstalledType
<1>4. flash \in [Slots -> [Blocks -> Content]]
  BY <1>1, <1>3
<1>5. bad \in [Slots -> SUBSET Blocks]
  BY InitBadAssumption DEF Init, Blocks
<1> QED BY <1>4, <1>5, NBlocksAssumption DEF Init, TypeOK, Labels, Slots, NothingTold, NoSlot

\* The outcomes of a block operation are block contents.
LEMMA OutcomeTypes ==
    ASSUME TypeOK, NEW s \in Slots, NEW b \in Blocks, NEW c \in Content
    PROVE  /\ Programmed(s, b, c) \in Content
           /\ AfterFailedErase(s, b) \subseteq Content
           /\ AfterFailedWrite(s, b, c) \subseteq Content
BY ContentTypes DEF TypeOK, Programmed, AfterFailedErase, AfterFailedWrite

LEMMA SetBlockType ==
    ASSUME TypeOK, NEW s \in Slots, NEW b \in Blocks, NEW c \in Content, SetBlock(s, b, c)
    PROVE  flash' \in [Slots -> [Blocks -> Content]]
BY DEF TypeOK, SetBlock

LEMMA ToWriteType ==
    ASSUME TypeOK, NEW p \in Procs
    PROVE  ToWrite(p) \in Content
<1>1. img[p] \in Images \cup {NoImage} /\ k[p] \in Nat /\ ser[p] \in Nat
  BY DEF TypeOK
<1> QED BY <1>1, ContentTypes DEF ToWrite

LEMMA ExitType ==
    ASSUME TypeOK, NEW p \in Procs,
           NEW r \in [ok : BOOLEAN, slot : Slots \cup {NoSlot}, img : Images \cup {NoImage}],
           Exit(p, r)
    PROVE  /\ pc' \in [Procs -> Labels]
           /\ tgt' \in [Procs -> Slots]
           /\ img' \in [Procs -> Images \cup {NoImage}]
           /\ ser' \in [Procs -> Nat]
           /\ ofs' \in [Procs -> 1..(NBlocks + 1)]
           /\ k' \in [Procs -> Nat \ {0}]
           /\ told' \in [ok : BOOLEAN, slot : Slots \cup {NoSlot}, img : Images \cup {NoImage}]
BY NBlocksAssumption DEF TypeOK, Exit, Labels, Slots

LEMMA NothingToldType ==
    NothingTold \in [ok : BOOLEAN, slot : Slots \cup {NoSlot}, img : Images \cup {NoImage}]
BY DEF NothingTold

LEMMA NextTypeOK == TypeOK /\ OnTarget /\ [Next]_vars => TypeOK'
<1> SUFFICES ASSUME TypeOK, OnTarget, [Next]_vars PROVE TypeOK'
  OBVIOUS
<1> USE NBlocksAssumption
<1>1. ASSUME NEW p \in Procs, NEW i \in Images, cmd_flash(p, i)
      PROVE  TypeOK'
  <2>1. target_slot \in Slots
    BY <1>1 DEF cmd_flash, MayStart, target_slot, Other, Slots
  <2>2. max_serial + 1 \in Nat
    BY SerialType
  <2>3. /\ flash' = flash /\ bad' = bad /\ running' = running
        /\ pc' \in [Procs -> Labels] /\ tgt' \in [Procs -> Slots]
        /\ img' \in [Procs -> Images \cup {NoImage}]
    BY <1>1, <2>1 DEF TypeOK, cmd_flash, Labels
  <2>4. /\ ser' \in [Procs -> Nat] /\ ofs' \in [Procs -> 1..(NBlocks + 1)]
        /\ k' \in [Procs -> Nat \ {0}]
    BY <1>1, <2>2 DEF TypeOK, cmd_flash
  <2> QED BY <1>1, <2>3, <2>4, NothingToldType DEF TypeOK, cmd_flash
<1>2. ASSUME NEW p \in Procs, cmd_switch(p)
      PROVE  TypeOK'
  <2> DEFINE o == Other(running)
  <2>1. running \in Slots /\ o \in Slots
    BY <1>2 DEF cmd_switch, MayStart, Other, Slots
  <2>2. CASE HasHeader(o) /\ slot_verify(flash[o], bad[o], HeaderOf(o).img)
    <3>1. HeaderOf(o).img \in Images \cup {NoImage}
      BY <2>1, <2>2, SerialType DEF Content
    <3>2. slot_scan(flash[o], bad[o]) \in 1..(NBlocks + 1)
      BY <2>2, ScanType DEF HasHeader, Blocks
    <3>3. /\ pc'  = [pc  EXCEPT ![p] = "swserial"]
          /\ tgt' = [tgt EXCEPT ![p] = o]
          /\ img' = [img EXCEPT ![p] = HeaderOf(o).img]
          /\ ofs' = [ofs EXCEPT ![p] = slot_scan(flash[o], bad[o])]
          /\ told' = NothingTold
          /\ UNCHANGED <<flash, bad, running, ser, k>>
      BY <1>2, <2>2 DEF cmd_switch
    <3> HIDE DEF o
    <3> QED BY <2>1, <3>1, <3>2, <3>3, NothingToldType DEF TypeOK, Labels
  <2>3. CASE ~ (HasHeader(o) /\ slot_verify(flash[o], bad[o], HeaderOf(o).img))
    BY <1>2, <2>3, NothingToldType DEF TypeOK, cmd_switch, local
  <2> QED BY <2>2, <2>3
<1>3. ASSUME NEW p \in Procs, erase_slot(p)
      PROVE  TypeOK'
  <2>1. tgt[p] \in Slots /\ ofs[p] \in Blocks
    BY <1>3 DEF TypeOK, OnTarget, erase_slot
  <2>2. flash' \in [Slots -> [Blocks -> Content]]
    <3>1. CASE UNCHANGED flash
      BY <3>1 DEF TypeOK
    <3>2. CASE SetBlock(tgt[p], ofs[p], Erased)
      BY <3>2, <2>1, ContentTypes, SetBlockType
    <3>3. CASE \E c \in AfterFailedErase(tgt[p], ofs[p]) : SetBlock(tgt[p], ofs[p], c)
      BY <3>3, <2>1, ContentTypes, OutcomeTypes, SetBlockType
    <3> QED BY <1>3, <3>1, <3>2, <3>3 DEF erase_slot
  <2>3. pc' \in [Procs -> Labels] /\ told' = told
    BY <1>3 DEF erase_slot, TypeOK, Goto, Labels
  <2>4. ofs' \in [Procs -> 1..(NBlocks + 1)]
    <3>1. 1 \in 1..(NBlocks + 1) /\ ofs[p] + 1 \in 1..(NBlocks + 1)
      BY <2>1 DEF Blocks
    <3> QED BY <1>3, <3>1 DEF erase_slot, TypeOK
  <2> QED BY <1>3, <2>2, <2>3, <2>4 DEF erase_slot, TypeOK
<1>4. ASSUME NEW p \in Procs, write_skip(p)
      PROVE  TypeOK'
  BY <1>4 DEF TypeOK, write_skip, Blocks
<1>5. ASSUME NEW p \in Procs, write_ok(p)
      PROVE  TypeOK'
  <2>1. tgt[p] \in Slots /\ ofs[p] \in Blocks /\ ToWrite(p) \in Content
    BY <1>5, ToWriteType DEF TypeOK, write_ok
  <2>2. flash' \in [Slots -> [Blocks -> Content]]
    BY <1>5, <2>1, OutcomeTypes, SetBlockType DEF write_ok
  <2>3. ofs' \in [Procs -> 1..(NBlocks + 1)] /\ k' \in [Procs -> Nat \ {0}] /\ pc' \in [Procs -> Labels]
    BY <1>5, <2>1 DEF write_ok, TypeOK, Goto, Labels, Blocks
  <2> QED BY <1>5, <2>2, <2>3 DEF write_ok, TypeOK, Goto
<1>6. ASSUME NEW p \in Procs, write_fail(p)
      PROVE  TypeOK'
  <2>1. tgt[p] \in Slots /\ ofs[p] \in Blocks /\ ToWrite(p) \in Content
    BY <1>6, ToWriteType DEF TypeOK, write_fail
  <2>2. flash' \in [Slots -> [Blocks -> Content]]
    BY <1>6, <2>1, OutcomeTypes, SetBlockType DEF write_fail
  <2>3. ofs' \in [Procs -> 1..(NBlocks + 1)]
    BY <1>6, <2>1 DEF write_fail, TypeOK, Blocks
  <2>4. bad' \in [Slots -> SUBSET Blocks]
    BY <1>6, <2>1 DEF write_fail, mtd_mark_bad, TypeOK
  <2> QED BY <1>6, <2>2, <2>3, <2>4 DEF write_fail, TypeOK
<1>7. ASSUME NEW p \in Procs, write_out(p)
      PROVE  TypeOK'
  BY <1>7, ExitType, NothingToldType DEF write_out, die, TypeOK
<1>8. ASSUME NEW p \in Procs, flash_verify(p)
      PROVE  TypeOK'
  <2>1. [ok |-> TRUE, slot |-> tgt[p], img |-> img[p]] \in
          [ok : BOOLEAN, slot : Slots \cup {NoSlot}, img : Images \cup {NoImage}]
    BY DEF TypeOK
  <2> QED BY <1>8, <2>1, ExitType, NothingToldType DEF flash_verify, die, TypeOK
<1>9. ASSUME NEW p \in Procs, switch_serial(p)
      PROVE  TypeOK'
  BY <1>9, SerialType DEF TypeOK, switch_serial, Goto, Labels
<1>10. ASSUME NEW p \in Procs, switch_erase(p)
       PROVE  TypeOK'
  <2>1. tgt[p] \in Slots /\ ofs[p] \in Blocks
    BY <1>10 DEF TypeOK, OnTarget, switch_erase
  <2>2. flash' \in [Slots -> [Blocks -> Content]]
    BY <1>10, <2>1, ContentTypes, OutcomeTypes, SetBlockType DEF switch_erase
  <2>3. CASE die(p)
    BY <1>10, <2>2, <2>3, ExitType, NothingToldType DEF switch_erase, die, TypeOK
  <2>4. CASE Goto(p, "swwrite") /\ UNCHANGED local
    BY <1>10, <2>2, <2>4 DEF switch_erase, Goto, local, TypeOK, Labels
  <2> QED BY <1>10, <2>3, <2>4 DEF switch_erase
<1>11. ASSUME NEW p \in Procs, switch_write(p)
       PROVE  TypeOK'
  <2> DEFINE h == Header(img[p], ser[p])
  <2>1. tgt[p] \in Slots /\ ofs[p] \in Blocks
    BY <1>11 DEF TypeOK, OnTarget, switch_write
  <2>2. h \in Content
    BY ContentTypes DEF TypeOK
  <2>3. [ok |-> TRUE, slot |-> tgt[p], img |-> img[p]] \in
          [ok : BOOLEAN, slot : Slots \cup {NoSlot}, img : Images \cup {NoImage}]
    BY DEF TypeOK
  <2>4. flash' \in [Slots -> [Blocks -> Content]]
    BY <1>11, <2>1, <2>2, OutcomeTypes, SetBlockType DEF switch_write
  <2>5. PICK r \in {NothingTold, [ok |-> TRUE, slot |-> tgt[p], img |-> img[p]]} : Exit(p, r)
    BY <1>11 DEF switch_write, die
  <2> QED BY <1>11, <2>3, <2>4, <2>5, ExitType, NothingToldType DEF switch_write, TypeOK
<1>12. CASE power_cut
  <2>1. flash' \in [Slots -> [Blocks -> Content]]
    BY <1>12, ContentTypes DEF power_cut, TypeOK
  <2>2. running' \in Slots \cup {NoSlot}
    BY <1>12 DEF power_cut
  <2> QED BY <1>12, <2>1, <2>2, NothingToldType DEF power_cut, TypeOK, Labels, Slots
<1>13. CASE UNCHANGED vars
  BY <1>13 DEF vars, TypeOK
<1> QED BY <1>1, <1>2, <1>3, <1>4, <1>5, <1>6, <1>7, <1>8, <1>9, <1>10, <1>11, <1>12, <1>13
        DEF Next, ToolStep

LEMMA NextOnTarget == TypeOK /\ OnTarget /\ [Next]_vars => OnTarget'
<1> SUFFICES ASSUME TypeOK, OnTarget, [Next]_vars PROVE OnTarget'
  OBVIOUS
<1> USE NBlocksAssumption
<1>1. ASSUME NEW p \in Procs, NEW i \in Images, cmd_flash(p, i)
      PROVE  OnTarget'
  BY <1>1 DEF TypeOK, OnTarget, cmd_flash, MayStart, target_slot, Target, Blocks
<1>2. ASSUME NEW p \in Procs, cmd_switch(p)
      PROVE  OnTarget'
  <2> DEFINE o == Other(running)
  <2>1. running \in Slots /\ running' = running
    BY <1>2 DEF cmd_switch, MayStart
  <2>2. CASE HasHeader(o) /\ slot_verify(flash[o], bad[o], HeaderOf(o).img)
    <3>1. slot_scan(flash[o], bad[o]) \in Blocks
      BY <2>2, ScanType DEF HasHeader
    <3>2. /\ pc'  = [pc  EXCEPT ![p] = "swserial"]
          /\ tgt' = [tgt EXCEPT ![p] = o]
          /\ ofs' = [ofs EXCEPT ![p] = slot_scan(flash[o], bad[o])]
      BY <1>2, <2>2 DEF cmd_switch
    <3> QED BY <2>1, <3>1, <3>2 DEF TypeOK, OnTarget, Target
  <2>3. CASE ~ (HasHeader(o) /\ slot_verify(flash[o], bad[o], HeaderOf(o).img))
    BY <1>2, <2>1, <2>3 DEF OnTarget, cmd_switch, local, Target
  <2> QED BY <2>2, <2>3
<1>3. ASSUME NEW p \in Procs, erase_slot(p)
      PROVE  OnTarget'
  <2>1. ofs[p] \in Blocks /\ pc[p] = "erase"
    BY <1>3 DEF OnTarget, erase_slot
  <2>2. ofs[p] # NBlocks => ofs[p] + 1 \in Blocks
    BY <2>1 DEF Blocks
  <2> QED BY <1>3, <2>1, <2>2 DEF OnTarget, erase_slot, Goto, TypeOK, Target
<1>4. ASSUME NEW p \in Procs, write_skip(p) \/ write_ok(p) \/ write_fail(p)
      PROVE  OnTarget'
  BY <1>4 DEF OnTarget, write_skip, write_ok, write_fail, Goto, TypeOK, Target
<1>5. ASSUME NEW p \in Procs, NEW r, Exit(p, r), UNCHANGED running
      PROVE  OnTarget'
  BY <1>5 DEF OnTarget, Exit, TypeOK, Target
<1>6. ASSUME NEW p \in Procs, write_out(p) \/ flash_verify(p) \/ switch_write(p)
      PROVE  OnTarget'
  BY <1>5, <1>6 DEF write_out, flash_verify, switch_write, die
<1>7. ASSUME NEW p \in Procs, switch_serial(p)
      PROVE  OnTarget'
  BY <1>7 DEF OnTarget, switch_serial, Goto, TypeOK, Target
<1>8. ASSUME NEW p \in Procs, switch_erase(p)
      PROVE  OnTarget'
  <2>1. CASE Goto(p, "swwrite") /\ UNCHANGED local
    BY <1>8, <2>1 DEF OnTarget, switch_erase, Goto, local, TypeOK, Target
  <2>2. CASE die(p)
    BY <1>5, <1>8, <2>2 DEF switch_erase, die
  <2> QED BY <1>8, <2>1, <2>2 DEF switch_erase
<1>9. CASE power_cut
  BY <1>9 DEF OnTarget, power_cut
<1>10. CASE UNCHANGED vars
  BY <1>10 DEF vars, OnTarget, Target
<1> QED BY <1>1, <1>2, <1>3, <1>4, <1>6, <1>7, <1>8, <1>9, <1>10 DEF Next, ToolStep

LEMMA InitOnTarget == Init => OnTarget
BY DEF Init, OnTarget

\* cmd_flash's loops and write_block never leave the partition, and the slot
\* written is one of the two: Spec keeps the type invariant, whatever fails
\* and however invocations overlap.
THEOREM TypeCorrect == Spec => []TypeOK
<1>1. Init => TypeOK /\ OnTarget
  BY InitTypeOK, InitOnTarget
<1>2. TypeOK /\ OnTarget /\ [Next]_vars => (TypeOK /\ OnTarget)'
  BY NextTypeOK, NextOnTarget
<1> QED BY <1>1, <1>2, PTL DEF Spec

\* No step short of a reboot changes the running slot.
LEMMA KeepRunning ==
    ASSUME TypeOK, OnTarget, Next, running' = running, running \in Slots
    PROVE  flash'[running] = flash[running] /\ bad'[running] = bad[running]
<1>1. ASSUME NEW p \in Procs, pc[p] # "idle"
      PROVE  tgt[p] \in Slots /\ tgt[p] # running
  BY <1>1 DEF OnTarget, Target, Other, Slots
<1>2. ASSUME NEW p \in Procs, NEW b, NEW c, pc[p] # "idle", SetBlock(tgt[p], b, c)
      PROVE  flash'[running] = flash[running]
  BY <1>1, <1>2 DEF SetBlock, TypeOK
<1>3. ASSUME NEW p \in Procs, NEW i \in Images, cmd_flash(p, i)
      PROVE  flash' = flash /\ bad' = bad
  BY <1>3 DEF cmd_flash
<1>4. ASSUME NEW p \in Procs, cmd_switch(p)
      PROVE  flash' = flash /\ bad' = bad
  BY <1>4 DEF cmd_switch
<1>5. ASSUME NEW p \in Procs, erase_slot(p)
      PROVE  flash'[running] = flash[running] /\ bad' = bad
  BY <1>2, <1>5 DEF erase_slot
<1>6. ASSUME NEW p \in Procs, write_ok(p)
      PROVE  flash'[running] = flash[running] /\ bad' = bad
  BY <1>2, <1>6 DEF write_ok
<1>7. ASSUME NEW p \in Procs, write_fail(p)
      PROVE  flash'[running] = flash[running] /\ bad'[running] = bad[running]
  <2>1. pc[p] # "idle"
    BY <1>7 DEF write_fail
  <2>2. flash'[running] = flash[running]
    BY <1>2, <1>7, <2>1 DEF write_fail
  <2>3. bad'[running] = bad[running]
    BY <1>1, <1>7, <2>1 DEF write_fail, mtd_mark_bad, TypeOK
  <2> QED BY <2>2, <2>3
<1>8. ASSUME NEW p \in Procs,
             write_skip(p) \/ write_out(p) \/ flash_verify(p) \/ switch_serial(p)
      PROVE  flash' = flash /\ bad' = bad
  BY <1>8 DEF write_skip, write_out, flash_verify, switch_serial
<1>9. ASSUME NEW p \in Procs, switch_erase(p)
      PROVE  flash'[running] = flash[running] /\ bad' = bad
  BY <1>2, <1>9 DEF switch_erase
<1>10. ASSUME NEW p \in Procs, switch_write(p)
       PROVE  flash'[running] = flash[running] /\ bad' = bad
  BY <1>2, <1>10 DEF switch_write
<1>11. CASE power_cut
  <2>1. PICK T \in SUBSET Working :
          flash' = [s \in Slots |-> [b \in Blocks |->
                     IF \E p \in T : tgt[p] = s /\ ofs[p] = b THEN Garbage ELSE flash[s][b]]]
    BY <1>11 DEF power_cut
  <2>2. \A p \in T : tgt[p] # running
    BY <1>1 DEF Working
  <2>3. flash'[running] = [b \in Blocks |-> flash[running][b]]
    BY <2>1, <2>2
  <2>4. flash[running] = [b \in Blocks |-> flash[running][b]]
    BY DEF TypeOK
  <2> QED BY <1>11, <2>3, <2>4 DEF power_cut
<1> QED BY <1>3, <1>4, <1>5, <1>6, <1>7, <1>8, <1>9, <1>10, <1>11 DEF Next, ToolStep

\* No operation of the tool changes the slot the system runs from, in any
\* environment: not even failing block operations, a second flash or
\* overlapping invocations lead it there.
THEOREM RunningSlotUnchanged == Spec => RunningUntouched
<1> DEFINE Keep == running' = running =>
             \A s \in Slots : s = running => flash'[s] = flash[s] /\ bad'[s] = bad[s]
<1>1. Init => TypeOK /\ OnTarget
  BY InitTypeOK, InitOnTarget
<1>2. TypeOK /\ OnTarget /\ [Next]_vars => (TypeOK /\ OnTarget)'
  BY NextTypeOK, NextOnTarget
<1>3. TypeOK /\ OnTarget /\ [Next]_vars => [Keep]_vars
  BY KeepRunning
<1> QED BY <1>1, <1>2, <1>3, PTL DEF Spec, RunningUntouched

-----------------------------------------------------------------------------
(***************************************************************************)
(* How one block operation changes what a slot holds.                      *)
(***************************************************************************)

LEMMA Kinds ==
    /\ Erased.kind = "erased" /\ Garbage.kind = "garbage" /\ Erased # Garbage
    /\ \A i, j : Body(i, j).kind = "body" /\ Header(i, j).kind = "header"
    /\ \A i, j : Header(i, j).img = i /\ Header(i, j).n = j
BY DEF Erased, Garbage, Body, Header

LEMMA HeadersWithout ==
    ASSUME NEW fl \in [Blocks -> Content], NEW bd, NEW b \in Blocks, NEW c, c.kind # "header"
    PROVE  HeaderBlocks([fl EXCEPT ![b] = c], bd) = HeaderBlocks(fl, bd) \ {b}
BY DEF HeaderBlocks

LEMMA HeadersWith ==
    ASSUME NEW fl \in [Blocks -> Content], NEW bd, NEW b \in Blocks \ bd, NEW c, c.kind = "header"
    PROVE  HeaderBlocks([fl EXCEPT ![b] = c], bd) = HeaderBlocks(fl, bd) \cup {b}
BY DEF HeaderBlocks

LEMMA HeadersBad ==
    ASSUME NEW fl \in [Blocks -> Content], NEW bd, NEW b \in Blocks, NEW c
    PROVE  HeaderBlocks([fl EXCEPT ![b] = c], bd \cup {b}) = HeaderBlocks(fl, bd) \ {b}
BY DEF HeaderBlocks

\* Changing a block that holds no payload leaves the payload readable.
LEMMA PrefixKept ==
    ASSUME NEW fl \in [Blocks -> Content], NEW bd, NEW i, NEW n,
           NEW b \in Blocks, NEW c, fl[b].kind # "body", Prefix(fl, bd, i, n)
    PROVE  Prefix([fl EXCEPT ![b] = c], bd, i, n)
<1>1. PICK f \in [1..n -> Blocks \ bd] :
        Layout(bd, f, n) /\ \A j \in 1..n : fl[f[j]] = Body(i, j)
  BY DEF Prefix
<1>2. ASSUME NEW j \in 1..n
      PROVE  [fl EXCEPT ![b] = c][f[j]] = Body(i, j)
  <2>0. fl[f[j]] = Body(i, j)
    BY <1>1
  <2>1. fl[f[j]].kind = "body"
    BY <2>0 DEF Body
  <2>2. f[j] # b /\ f[j] \in Blocks
    BY <1>1, <2>1
  <2> QED BY <1>1, <2>2
<1> QED BY <1>1, <1>2 DEF Prefix

LEMMA FilledStart ==
    ASSUME NEW fl, NEW bd, NEW i
    PROVE  Filled(fl, bd, i, 0, 1)
<1> DEFINE f == [j \in 1..0 |-> 1]
<1>1. f \in [1..0 -> Blocks \ bd]
  OBVIOUS
<1>2. Layout(bd, f, 0)
  BY <1>1 DEF Layout
<1>3. \A b \in Blocks \ bd : ~ (b < 1)
  BY NBlocksAssumption DEF Blocks
<1>4. \A j \in 1..0 : FALSE
  OBVIOUS
<1> HIDE DEF f
<1> QED BY <1>1, <1>2, <1>3, <1>4 DEF Filled

LEMMA FilledSkip ==
    ASSUME NEW fl, NEW bd, NEW i, NEW n, NEW o \in Blocks, o \in bd, Filled(fl, bd, i, n, o)
    PROVE  Filled(fl, bd, i, n, o + 1)
<1>1. PICK f \in [1..n -> Blocks \ bd] :
        /\ Layout(bd, f, n)
        /\ \A j \in 1..n : fl[f[j]] = Body(i, j) /\ f[j] < o
        /\ \A b \in Blocks \ bd : b < o => \E j \in 1..n : f[j] = b
  BY DEF Filled
<1>2. \A b \in Blocks \ bd : b < o + 1 => b < o
  BY NBlocksAssumption DEF Blocks
<1>3. \A j \in 1..n : f[j] < o + 1
  BY <1>1, NBlocksAssumption DEF Blocks
<1> QED BY <1>1, <1>2, <1>3 DEF Filled

\* A block that could not be written and is listed as bad.
LEMMA FilledFail ==
    ASSUME NEW fl \in [Blocks -> Content], NEW bd, NEW i, NEW n, NEW o \in Blocks, NEW c,
           Filled(fl, bd, i, n, o)
    PROVE  Filled([fl EXCEPT ![o] = c], bd \cup {o}, i, n, o + 1)
<1>1. PICK f \in [1..n -> Blocks \ bd] :
        /\ Layout(bd, f, n)
        /\ \A j \in 1..n : fl[f[j]] = Body(i, j) /\ f[j] < o
        /\ \A b \in Blocks \ bd : b < o => \E j \in 1..n : f[j] = b
  BY DEF Filled
<1>2. \A j \in 1..n : f[j] # o /\ f[j] < o + 1 /\ f[j] \in Blocks
  BY <1>1, NBlocksAssumption DEF Blocks
<1>3. f \in [1..n -> Blocks \ (bd \cup {o})]
  BY <1>1, <1>2
<1>4. Layout(bd \cup {o}, f, n)
  BY <1>1, <1>3 DEF Layout
<1>5. \A j \in 1..n : [fl EXCEPT ![o] = c][f[j]] = Body(i, j)
  BY <1>1, <1>2
<1>6. \A b \in Blocks \ (bd \cup {o}) : b < o + 1 => b < o
  BY NBlocksAssumption DEF Blocks
<1> QED BY <1>1, <1>2, <1>3, <1>4, <1>5, <1>6 DEF Filled

\* A block that was written: the payload is one piece longer.
LEMMA FilledWrite ==
    ASSUME NEW fl \in [Blocks -> Content], NEW bd, NEW i, NEW n \in Nat,
           NEW o \in Blocks, o \notin bd, Filled(fl, bd, i, n, o)
    PROVE  Filled([fl EXCEPT ![o] = Body(i, n + 1)], bd, i, n + 1, o + 1)
<1>1. PICK f \in [1..n -> Blocks \ bd] :
        /\ Layout(bd, f, n)
        /\ \A j \in 1..n : fl[f[j]] = Body(i, j) /\ f[j] < o
        /\ \A b \in Blocks \ bd : b < o => \E j \in 1..n : f[j] = b
  BY DEF Filled
<1> DEFINE g == [j \in 1..(n + 1) |-> IF j = n + 1 THEN o ELSE f[j]]
<1>2. g \in [1..(n + 1) -> Blocks \ bd]
  OBVIOUS
<1>3. \A j \in 1..n : g[j] = f[j] /\ f[j] \in Blocks \ bd /\ f[j] < o
  BY <1>1
<1>4. g[n + 1] = o
  OBVIOUS
<1>5. \A j \in 1..(n + 1) : j = n + 1 \/ j \in 1..n
  OBVIOUS
<1> HIDE DEF g
<1>6. \A j, l \in 1..(n + 1) : j < l => g[j] < g[l]
  <2> SUFFICES ASSUME NEW j \in 1..(n + 1), NEW l \in 1..(n + 1), j < l PROVE g[j] < g[l]
    OBVIOUS
  <2>1. j \in 1..n
    OBVIOUS
  <2>2. CASE l = n + 1
    BY <1>3, <1>4, <2>1, <2>2
  <2>3. CASE l \in 1..n
    BY <1>1, <1>3, <2>1, <2>3 DEF Layout
  <2> QED BY <1>5, <2>2, <2>3
<1>7. \A b \in Blocks \ bd : b < o + 1 => \E j \in 1..(n + 1) : g[j] = b
  <2> SUFFICES ASSUME NEW b \in Blocks \ bd, b < o + 1 PROVE \E j \in 1..(n + 1) : g[j] = b
    OBVIOUS
  <2>1. CASE b = o
    BY <1>4, <2>1
  <2>2. CASE b < o
    <3>1. PICK j \in 1..n : f[j] = b
      BY <1>1, <2>2
    <3> QED BY <1>3, <3>1
  <2>3. b = o \/ b < o
    BY NBlocksAssumption DEF Blocks
  <2> QED BY <2>1, <2>2, <2>3
<1>8. \A j \in 1..(n + 1) : g[j] < o + 1 /\ g[j] <= o
  <2> SUFFICES ASSUME NEW j \in 1..(n + 1) PROVE g[j] < o + 1 /\ g[j] <= o
    OBVIOUS
  <2>1. o \in Nat /\ g[j] \in Nat
    BY <1>2, NBlocksAssumption DEF Blocks
  <2>2. g[j] = o \/ g[j] < o
    BY <1>3, <1>4, <1>5
  <2> QED BY <2>1, <2>2
<1>9. Layout(bd, g, n + 1)
  <2>1. \A b \in Blocks \ bd, j \in 1..(n + 1) : b <= g[j] => b < o + 1
    BY <1>2, <1>8, NBlocksAssumption DEF Blocks
  <2> QED BY <1>2, <1>6, <1>7, <2>1 DEF Layout
<1>10. \A j \in 1..(n + 1) : [fl EXCEPT ![o] = Body(i, n + 1)][g[j]] = Body(i, j)
  <2>1. \A j \in 1..n : g[j] # o /\ g[j] \in Blocks /\ fl[g[j]] = Body(i, j)
    BY <1>1, <1>3, NBlocksAssumption DEF Blocks
  <2> QED BY <1>4, <1>5, <2>1
<1> QED BY <1>2, <1>7, <1>8, <1>9, <1>10 DEF Filled

LEMMA FilledPrefix ==
    ASSUME NEW fl, NEW bd, NEW i, NEW n, NEW o, Filled(fl, bd, i, n, o)
    PROVE  Prefix(fl, bd, i, n)
BY DEF Filled, Prefix

-----------------------------------------------------------------------------
(***************************************************************************)
(* The slot the boot loader selects is intact.  This needs an environment  *)
(* in which a block that cannot be written is the only thing to go wrong.  *)
(***************************************************************************)

Benign == Env \subseteq {"writeFails"}

LEMMA OneHeaderFacts ==
    ASSUME NEW s \in Slots, NEW b \in Blocks, OneHeader(s, b)
    PROVE  HasHeader(s) /\ HeaderOf(s) = flash[s][b] /\ SerialOf(s) = flash[s][b].n
<1>1. slot_scan(flash[s], bad[s]) = b
  BY ScanOne DEF OneHeader
<1> QED BY <1>1, NBlocksAssumption DEF HasHeader, HeaderOf, SerialOf, NoBlock, Blocks

LEMMA NoHeaderFacts ==
    ASSUME NEW s \in Slots, NoHeader(s)
    PROVE  ~ HasHeader(s)
BY ScanCorrect DEF NoHeader, HasHeader

LEMMA MaxSerialBound ==
    ASSUME TypeOK, NEW s \in Slots, HasHeader(s)
    PROVE  SerialOf(s) <= max_serial
BY SerialType DEF max_serial, Slots

LEMMA TargetFacts ==
    ASSUME running \in Slots
    PROVE  Target \in Slots /\ Target # running
BY DEF Target, Other, Slots

LEMMA RunSerialType ==
    ASSUME TypeOK, RunningSolid
    PROVE  RunSerial \in Nat /\ HasHeader(running)
BY OneHeaderFacts, SerialType DEF RunningSolid, RunSerial

LEMMA SlotTypes ==
    ASSUME TypeOK, running \in Slots
    PROVE  flash[Target] \in [Blocks -> Content] /\ bad[Target] \in SUBSET Blocks
BY TargetFacts DEF TypeOK

\* RunningSolid and OtherSafe, for any slot r in the place of the running one.
SolidAt(r) ==
    \E b \in Blocks : OneHeader(r, b) /\ slot_verify(flash[r], bad[r], flash[r][b].img)

SafeAt(r) ==
    \/ NoHeader(Other(r))
    \/ \E b \in Blocks :
         /\ OneHeader(Other(r), b)
         /\ flash[Other(r)][b].n # SerialOf(r)
         /\ flash[Other(r)][b].n > SerialOf(r) =>
              slot_verify(flash[Other(r)], bad[Other(r)], flash[Other(r)][b].img)

\* The boot loader's choice is intact, and the invariant holds again with the
\* chosen slot in the place of the running one.
LEMMA BootChoice ==
    \A r \in Slots : TypeOK /\ SolidAt(r) /\ SafeAt(r) =>
        next_slot \in Slots /\ Intact(next_slot) /\ SolidAt(next_slot) /\ SafeAt(next_slot)
<1> SUFFICES ASSUME NEW r \in Slots, TypeOK, SolidAt(r), SafeAt(r)
             PROVE  /\ next_slot \in Slots /\ Intact(next_slot)
                    /\ SolidAt(next_slot) /\ SafeAt(next_slot)
  OBVIOUS
<1> DEFINE o == Other(r)
<1>1. PICK b \in Blocks : OneHeader(r, b) /\ slot_verify(flash[r], bad[r], flash[r][b].img)
  BY DEF SolidAt
<1>2. o \in Slots /\ o # r /\ Other(o) = r
  BY DEF Other, Slots
<1>3. HasHeader(r) /\ HeaderOf(r) = flash[r][b] /\ SerialOf(r) = flash[r][b].n /\ SerialOf(r) \in Nat
  BY <1>1, OneHeaderFacts, SerialType
<1>4. Intact(r)
  BY <1>1, <1>3 DEF Intact
<1>5. CASE NoHeader(o)
  <2>1. next_slot = r
    BY <1>2, <1>3, <1>5, NoHeaderFacts DEF next_slot, Slots
  <2> QED BY <1>4, <2>1
<1>6. ASSUME NEW c \in Blocks, OneHeader(o, c),
             flash[o][c].n # SerialOf(r),
             flash[o][c].n > SerialOf(r) => slot_verify(flash[o], bad[o], flash[o][c].img)
      PROVE  /\ next_slot \in Slots /\ Intact(next_slot)
             /\ SolidAt(next_slot) /\ SafeAt(next_slot)
  <2> HIDE DEF o
  <2>1. /\ HasHeader(o) /\ HeaderOf(o) = flash[o][c]
        /\ SerialOf(o) = flash[o][c].n /\ SerialOf(o) \in Nat
    BY <1>2, <1>6, OneHeaderFacts, SerialType
  <2>2. CASE SerialOf(o) < SerialOf(r)
    <3>1. next_slot = r
      BY <1>2, <1>3, <2>1, <2>2 DEF next_slot, Slots
    <3> QED BY <1>4, <3>1
  <2>3. CASE SerialOf(o) > SerialOf(r)
    <3>1. next_slot = o
      BY <1>2, <1>3, <2>1, <2>3 DEF next_slot, Slots
    <3>2. slot_verify(flash[o], bad[o], flash[o][c].img)
      BY <1>6, <2>1, <2>3
    <3>3. Intact(o)
      BY <2>1, <3>2 DEF Intact
    <3>4. SolidAt(o)
      BY <1>6, <3>2 DEF SolidAt
    <3>5. flash[r][b].n # SerialOf(o) /\ ~ (flash[r][b].n > SerialOf(o))
      BY <1>3, <2>1, <2>3
    <3>6. SafeAt(o)
      BY <1>1, <1>2, <3>5 DEF SafeAt
    <3> QED BY <1>2, <3>1, <3>3, <3>4, <3>6
  <2> QED BY <1>3, <1>6, <2>1, <2>2, <2>3
<1> QED BY <1>5, <1>6 DEF SafeAt

\* The same in the state a power cut leaves behind.
LEMMA BootChoicePrime ==
    (\A r \in Slots : TypeOK /\ SolidAt(r) /\ SafeAt(r) =>
        next_slot \in Slots /\ Intact(next_slot) /\ SolidAt(next_slot) /\ SafeAt(next_slot))'
BY BootChoice, PTL

\* What the invariant says of the moment when the power goes.
LEMMA IInvBootSafe ==
    ASSUME TypeOK, RunningSolid, OtherSafe
    PROVE  BootSafe
<1>1. running \in Slots /\ SolidAt(running) /\ SafeAt(running)
  BY DEF RunningSolid, OtherSafe, SolidAt, SafeAt, RunSerial, Target
<1> QED BY <1>1, BootChoice DEF BootSafe

\* A written slot is the next one.
LEMMA WrittenNext ==
    ASSUME TypeOK, RunningSolid, NEW i, NEW b \in Blocks, Written(i, b)
    PROVE  next_slot = Target /\ Intact(Target) /\ HeaderOf(Target).img = i
<1>1. running \in Slots /\ Target \in Slots /\ Target # running
  BY TargetFacts DEF RunningSolid
<1>2. /\ HasHeader(Target) /\ HeaderOf(Target) = flash[Target][b]
      /\ SerialOf(Target) = flash[Target][b].n /\ SerialOf(Target) \in Nat
  BY <1>1, OneHeaderFacts, SerialType DEF Written
<1>3. HasHeader(running) /\ RunSerial \in Nat /\ SerialOf(Target) > RunSerial
  BY <1>2, RunSerialType DEF Written
<1>4. next_slot = Target
  BY <1>1, <1>2, <1>3 DEF next_slot, Slots, RunSerial
<1> QED BY <1>2, <1>4 DEF Written, Intact

\* A step short of a reboot keeps what is known of the running slot.
LEMMA RunningKept ==
    ASSUME TypeOK, OnTarget, RunningSolid, Next, running' = running
    PROVE  RunningSolid' /\ RunSerial' = RunSerial /\ Target' = Target
<1>1. running \in Slots
  BY DEF RunningSolid
<1>2. flash'[running] = flash[running] /\ bad'[running] = bad[running]
  BY <1>1, KeepRunning
<1> QED BY <1>2 DEF RunningSolid, OneHeader, RunSerial, SerialOf, HeaderOf, Target

\* Exclusive use: while p is active nobody else is, and nothing is promised.
LEMMA Alone ==
    ASSUME IInv, NEW p \in Procs, pc[p] # "idle"
    PROVE  /\ \A q \in Procs : q # p => pc[q] = "idle"
           /\ tgt[p] = Target /\ running \in Slots
           /\ ~ told.ok
BY DEF IInv, Exclusive, OnTarget, ToldInv, RunningSolid

\* What is left to show for a step of p once the common part is done.
LEMMA StepOf ==
    ASSUME IInv, Next, running' = running, NEW p \in Procs, NEW x,
           pc' = [pc EXCEPT ![p] = x],
           \A q \in Procs : q # p => pc[q] = "idle",
           OtherSafe', ProcInv(p)', ToldInv'
    PROVE  IInv'
<1>1. TypeOK' /\ OnTarget'
  BY NextTypeOK, NextOnTarget DEF IInv
<1>2. RunningSolid'
  BY RunningKept DEF IInv
<1>3. \A q \in Procs : q # p => pc'[q] = "idle"
  BY DEF IInv, TypeOK
<1>4. Exclusive'
  BY <1>3 DEF Exclusive
<1>5. \A q \in Procs : ProcInv(q)'
  BY <1>3 DEF ProcInv
<1> QED BY <1>1, <1>2, <1>4, <1>5 DEF IInv

\* If the flash does not change, neither does what is known of the other slot.
LEMMA OtherKept ==
    ASSUME IInv, Next, running' = running, UNCHANGED <<flash, bad>>
    PROVE  OtherSafe'
<1>1. RunSerial' = RunSerial /\ Target' = Target
  BY RunningKept DEF IInv
<1> QED BY <1>1 DEF IInv, OtherSafe, OneHeader, NoHeader

LEMMA NothingPromised ==
    ASSUME told' = NothingTold \/ (~ told.ok /\ UNCHANGED told)
    PROVE  ToldInv'
BY DEF ToldInv, NothingTold

LEMMA StepCmdFlash ==
    ASSUME Benign, IInv, Next, NEW p \in Procs, NEW i \in Images, cmd_flash(p, i)
    PROVE  IInv'
<1>1. running \in Slots /\ running' = running /\ next_slot = running
  BY DEF cmd_flash, MayStart, Benign
<1>2. \A q \in Procs : pc[q] = "idle"
  BY DEF cmd_flash, MayStart, Benign
<1>3. OtherSafe' /\ ToldInv'
  BY <1>1, OtherKept, NothingPromised DEF cmd_flash
<1>4. RunSerial' = RunSerial /\ Target' = Target /\ Target \in Slots /\ RunSerial \in Nat
      /\ Target # running /\ HasHeader(running)
  BY <1>1, RunningKept, TargetFacts, RunSerialType DEF IInv
<1>5. max_serial + 1 > RunSerial
  BY <1>1, <1>4, MaxSerialBound, SerialType DEF IInv, RunSerial
<1>6. ASSUME NEW b \in HeaderBlocks(flash[Target], bad[Target])
      PROVE  flash[Target][b].n < RunSerial
  <2>1. PICK c \in Blocks : OneHeader(Target, c) /\ flash[Target][c].n # RunSerial
    BY <1>6 DEF IInv, OtherSafe, NoHeader
  <2>2. b = c
    BY <1>6, <2>1 DEF OneHeader
  <2>3. /\ HasHeader(Target) /\ SerialOf(Target) = flash[Target][b].n
        /\ SerialOf(Target) \in Nat
    BY <1>4, <2>1, <2>2, OneHeaderFacts, SerialType DEF IInv
  <2>4. ~ (SerialOf(Target) > RunSerial)
    BY <1>1, <1>4, <2>3 DEF next_slot, Slots, RunSerial
  <2> QED BY <1>4, <2>1, <2>2, <2>3, <2>4
<1>7. /\ pc'[p] = "erase" /\ img'[p] = i /\ ser'[p] = max_serial + 1
      /\ k'[p] = 1 /\ ofs'[p] = 1
      /\ flash' = flash /\ bad' = bad
  BY DEF cmd_flash, IInv, TypeOK
<1>8. Erasing(p)'
  <2>1. \A b \in Blocks : ~ (b < 1)
    BY NBlocksAssumption DEF Blocks
  <2>2. 1 \in Blocks
    BY NBlocksAssumption DEF Blocks
  <2> QED BY <1>4, <1>5, <1>6, <1>7, <2>1, <2>2 DEF Erasing
<1>9. ProcInv(p)'
  BY <1>7, <1>8 DEF ProcInv
<1> QED BY <1>1, <1>2, <1>3, <1>9, StepOf DEF cmd_flash

LEMMA StepCmdSwitch ==
    ASSUME Benign, IInv, Next, NEW p \in Procs, cmd_switch(p)
    PROVE  IInv'
<1>1. running \in Slots /\ running' = running /\ flash' = flash /\ bad' = bad
  BY DEF cmd_switch, MayStart
<1>2. \A q \in Procs : pc[q] = "idle"
  BY DEF cmd_switch, MayStart, Benign
<1>3. RunSerial' = RunSerial /\ Target' = Target /\ Target \in Slots
  BY <1>1, RunningKept, TargetFacts DEF IInv
<1>4. OtherSafe' /\ ToldInv'
  <2>1. told' = NothingTold
    BY DEF cmd_switch
  <2> QED BY <1>1, <2>1, OtherKept, NothingPromised
<1>5. CASE HasHeader(Target) /\ slot_verify(flash[Target], bad[Target], HeaderOf(Target).img)
  <2>1. PICK b \in Blocks : OneHeader(Target, b)
    BY <1>3, <1>5, NoHeaderFacts DEF IInv, OtherSafe
  <2>2. slot_scan(flash[Target], bad[Target]) = b /\ HeaderOf(Target) = flash[Target][b]
    BY <1>3, <2>1, ScanOne, OneHeaderFacts DEF OneHeader
  <2>3. /\ pc' = [pc EXCEPT ![p] = "swserial"]
        /\ pc'[p] = "swserial" /\ img'[p] = flash[Target][b].img /\ ofs'[p] = b
    BY <1>5, <2>2 DEF cmd_switch, Target, IInv, TypeOK
  <2>4. Checked(p)'
    BY <1>1, <1>3, <1>5, <2>1, <2>2, <2>3 DEF Checked, OneHeader
  <2>5. ProcInv(p)'
    BY <2>3, <2>4 DEF ProcInv
  <2> QED BY <1>1, <1>2, <1>4, <2>3, <2>5, StepOf
<1>6. CASE ~ (HasHeader(Target) /\ slot_verify(flash[Target], bad[Target], HeaderOf(Target).img))
  <2>1. pc' = pc
    BY <1>6 DEF cmd_switch, Target
  <2>2. pc' = [pc EXCEPT ![p] = "idle"] /\ pc'[p] = "idle"
    BY <1>2, <2>1 DEF IInv, TypeOK
  <2>3. ProcInv(p)'
    BY <2>2 DEF ProcInv
  <2> QED BY <1>1, <1>2, <1>4, <2>2, <2>3, StepOf
<1> QED BY <1>5, <1>6

LEMMA StepErase ==
    ASSUME Benign, IInv, Next, NEW p \in Procs, erase_slot(p)
    PROVE  IInv'
<1>1. running' = running /\ bad' = bad /\ told' = told /\ img' = img /\ ser' = ser /\ k' = k
  BY DEF erase_slot, Goto
<1>2. /\ \A q \in Procs : q # p => pc[q] = "idle"
      /\ tgt[p] = Target /\ running \in Slots /\ ~ told.ok
  BY Alone DEF erase_slot
<1>3. /\ RunSerial' = RunSerial /\ Target' = Target /\ Target \in Slots
      /\ flash[Target] \in [Blocks -> Content] /\ RunSerial \in Nat
  BY <1>1, <1>2, RunningKept, TargetFacts, SlotTypes, RunSerialType DEF IInv
<1>4. ToldInv'
  BY <1>1, <1>2, NothingPromised
<1>5. Erasing(p)
  BY DEF IInv, ProcInv, erase_slot
<1> DEFINE fl == flash[Target]
           bd == bad[Target]
<1>0. PICK o \in Blocks : o = ofs[p]
  BY <1>5 DEF Erasing
<1>6. o \in Nat
  BY NBlocksAssumption DEF Blocks
<1>7. \/ o \in bd /\ flash'[Target] = fl
      \/ o \notin bd /\ flash'[Target] = [fl EXCEPT ![o] = Erased]
  BY <1>0, <1>2, <1>3 DEF erase_slot, SetBlock, Benign, IInv, TypeOK
<1>8. HeaderBlocks(flash'[Target], bd) \subseteq HeaderBlocks(fl, bd)
      /\ \A b \in HeaderBlocks(flash'[Target], bd) : flash'[Target][b] = fl[b]
  <2>1. CASE flash'[Target] = fl
    BY <2>1
  <2>2. CASE flash'[Target] = [fl EXCEPT ![o] = Erased]
    <3>0. HeaderBlocks([fl EXCEPT ![o] = Erased], bd) = HeaderBlocks(fl, bd) \ {o}
      BY <1>0, <1>3, <1>6, Kinds, HeadersWithout
    <3>1. HeaderBlocks(flash'[Target], bd) = HeaderBlocks(fl, bd) \ {o}
      BY <2>2, <3>0
    <3> QED BY <1>0, <1>3, <1>6, <2>2, <3>1 DEF HeaderBlocks
  <2> QED BY <1>0, <1>7, <2>1, <2>2
<1>9. OtherSafe'
  <2>1. CASE HeaderBlocks(flash'[Target], bd) = {}
    BY <1>0, <1>1, <1>3, <2>1 DEF OtherSafe, NoHeader
  <2>2. CASE HeaderBlocks(flash'[Target], bd) # {}
    <3>1. PICK b \in Blocks : OneHeader(Target, b)
      BY <1>0, <1>8, <2>2 DEF IInv, OtherSafe, NoHeader
    <3>2. /\ HeaderBlocks(flash'[Target], bd) = {b} /\ flash'[Target][b] = fl[b]
          /\ fl[b].img \in Images
      BY <1>0, <1>8, <2>2, <3>1 DEF OneHeader
    <3>3. fl[b].n < RunSerial /\ fl[b].n \in Nat
      BY <1>0, <1>3, <1>5, <3>1 DEF Erasing, OneHeader, Content
    <3>4. OneHeader(Target, b)'
      BY <1>0, <1>1, <1>3, <3>2 DEF OneHeader
    <3> QED BY <1>0, <1>1, <1>3, <3>2, <3>3, <3>4 DEF OtherSafe
  <2> QED BY <2>1, <2>2
<1>10. \A b \in Blocks \ bd : b < o + 1 => flash'[Target][b] = Erased
  <2> SUFFICES ASSUME NEW b \in Blocks \ bd, b < o + 1 PROVE flash'[Target][b] = Erased
    OBVIOUS
  <2>1. CASE b < o
    <3>1. fl[b] = Erased
      BY <1>0, <1>5, <2>1 DEF Erasing
    <3> QED BY <1>0, <1>3, <1>6, <1>7, <3>1
  <2>2. CASE b = o
    BY <1>0, <1>3, <1>6, <1>7, <2>2
  <2>3. b < o \/ b = o
    BY <1>0, <1>6, NBlocksAssumption DEF Blocks
  <2> QED BY <2>1, <2>2, <2>3
<1>11. CASE o = NBlocks
  <2>1. pc' = [pc EXCEPT ![p] = "write"] /\ pc'[p] = "write" /\ ofs'[p] = 1
    BY <1>0, <1>11 DEF erase_slot, Goto, IInv, TypeOK
  <2>2. \A b \in Blocks \ bd : flash'[Target][b] = Erased
    BY <1>0, <1>10, <1>11, NBlocksAssumption DEF Blocks
  <2>3. HeaderBlocks(flash'[Target], bd) = {}
    BY <2>2 DEF HeaderBlocks, Erased
  <2>4. Filled(flash'[Target], bd, img[p], 0, 1)
    BY FilledStart
  <2>5. k[p] = 1 /\ img[p] \in Images /\ ser[p] > RunSerial
    BY <1>0, <1>5 DEF Erasing
  <2>6. 1 <= BodyLen[img[p]] + 1
    BY <2>5, BodyLenAssumption
  <2>7. Writing(p)'
    BY <1>0, <1>1, <1>3, <2>1, <2>2, <2>3, <2>4, <2>5, <2>6 DEF Writing, NoHeader
  <2>8. ProcInv(p)'
    BY <2>1, <2>7 DEF ProcInv
  <2> QED BY <1>0, <1>1, <1>2, <1>4, <1>9, <2>1, <2>8, StepOf
<1>12. CASE o # NBlocks
  <2>1. pc' = pc /\ pc[p] = "erase" /\ ofs'[p] = o + 1
    BY <1>0, <1>12 DEF erase_slot, IInv, TypeOK
  <2>2. o + 1 \in Blocks
    BY <1>0, <1>6, <1>12, NBlocksAssumption DEF Blocks
  <2>3. Erasing(p)'
    BY <1>0, <1>1, <1>3, <1>5, <1>8, <1>10, <2>1, <2>2 DEF Erasing
  <2>4. ProcInv(p)' /\ pc' = [pc EXCEPT ![p] = "erase"]
    BY <2>1, <2>3 DEF ProcInv, IInv, TypeOK
  <2> QED BY <1>0, <1>1, <1>2, <1>4, <1>9, <2>4, StepOf
<1> QED BY <1>0, <1>11, <1>12

\* The facts shared by the steps of an active invocation that keep the
\* process variables tgt, img and ser.
LEMMA ActiveFacts ==
    ASSUME IInv, Next, NEW p \in Procs, pc[p] # "idle", running' = running
    PROVE  /\ \A q \in Procs : q # p => pc[q] = "idle"
           /\ tgt[p] = Target /\ running \in Slots /\ ~ told.ok
           /\ RunSerial' = RunSerial /\ Target' = Target /\ Target \in Slots
           /\ flash[Target] \in [Blocks -> Content] /\ RunSerial \in Nat
BY Alone, RunningKept, TargetFacts, SlotTypes, RunSerialType DEF IInv

LEMMA StepWriteSkip ==
    ASSUME IInv, Next, NEW p \in Procs, write_skip(p)
    PROVE  IInv'
<1>1. /\ running' = running /\ flash' = flash /\ bad' = bad /\ told' = told /\ pc' = pc
      /\ img' = img /\ ser' = ser /\ k' = k
      /\ pc[p] = "write" /\ ofs[p] \in Blocks /\ ofs[p] \in bad[tgt[p]]
      /\ ofs'[p] = ofs[p] + 1
  BY DEF write_skip, IInv, TypeOK
<1>2. /\ \A q \in Procs : q # p => pc[q] = "idle"
      /\ tgt[p] = Target /\ ~ told.ok
      /\ RunSerial' = RunSerial /\ Target' = Target
  BY <1>1, ActiveFacts
<1>3. OtherSafe' /\ ToldInv'
  BY <1>1, <1>2, OtherKept, NothingPromised
<1>4. Writing(p)
  BY <1>1 DEF IInv, ProcInv
<1>5. Filled(flash[Target], bad[Target], img[p], k[p] - 1, ofs[p] + 1)
  BY <1>1, <1>2, <1>4, FilledSkip DEF Writing
<1>6. \A b \in Blocks \ bad[Target] : ofs[p] + 1 <= b => flash[Target][b] = Erased
  <2>1. \A b \in Blocks : ofs[p] + 1 <= b => ofs[p] <= b
    BY <1>1, NBlocksAssumption DEF Blocks
  <2> QED BY <1>4, <2>1 DEF Writing
<1>7. Writing(p)'
  BY <1>1, <1>2, <1>4, <1>5, <1>6 DEF Writing, NoHeader
<1>8. ProcInv(p)' /\ pc' = [pc EXCEPT ![p] = "write"]
  BY <1>1, <1>7 DEF ProcInv, IInv, TypeOK
<1> QED BY <1>1, <1>2, <1>3, <1>8, StepOf

LEMMA StepWriteFail ==
    ASSUME Benign, IInv, Next, NEW p \in Procs, write_fail(p)
    PROVE  IInv'
<1>1. /\ running' = running /\ told' = told /\ pc' = pc
      /\ img' = img /\ ser' = ser /\ k' = k
      /\ pc[p] = "write" /\ ofs[p] \in Blocks /\ ofs[p] \notin bad[tgt[p]]
      /\ ofs'[p] = ofs[p] + 1
  BY DEF write_fail, IInv, TypeOK
<1>2. /\ \A q \in Procs : q # p => pc[q] = "idle"
      /\ tgt[p] = Target /\ ~ told.ok
      /\ RunSerial' = RunSerial /\ Target' = Target /\ Target \in Slots
      /\ flash[Target] \in [Blocks -> Content]
  BY <1>1, ActiveFacts
<1>3. Writing(p)
  BY <1>1 DEF IInv, ProcInv
<1> DEFINE fl == flash[Target]
           bd == bad[Target]
<1>0. PICK o \in Blocks : o = ofs[p]
  BY <1>1
<1>4. PICK c \in Content : flash'[Target] = [fl EXCEPT ![o] = c]
  <2>1. PICK c \in AfterFailedWrite(tgt[p], ofs[p], ToWrite(p)) : SetBlock(tgt[p], ofs[p], c)
    BY DEF write_fail
  <2>2. c \in Content
    BY <1>0, <1>1, <1>2, <2>1, OutcomeTypes, ToWriteType DEF IInv
  <2>3. flash'[Target] = [fl EXCEPT ![o] = c]
    BY <1>0, <1>2, <2>1 DEF SetBlock, IInv, TypeOK
  <2> QED BY <2>2, <2>3
<1>5. bad'[Target] = bd \cup {o}
  BY <1>0, <1>2 DEF write_fail, mtd_mark_bad, Benign, IInv, TypeOK
<1>6. HeaderBlocks(flash'[Target], bad'[Target]) = {}
  <2>1. HeaderBlocks([fl EXCEPT ![o] = c], bd \cup {o}) = HeaderBlocks(fl, bd) \ {o}
    BY <1>0, <1>1, <1>2, HeadersBad
  <2> QED BY <1>0, <1>3, <1>4, <1>5, <2>1 DEF Writing, NoHeader
<1>7. OtherSafe' /\ ToldInv'
  BY <1>0, <1>1, <1>2, <1>6, NothingPromised DEF OtherSafe, NoHeader
<1>8. Filled(flash'[Target], bad'[Target], img[p], k[p] - 1, o + 1)
  <2>1. Filled(fl, bd, img[p], k[p] - 1, o)
    BY <1>0, <1>3 DEF Writing
  <2>2. Filled([fl EXCEPT ![o] = c], bd \cup {o}, img[p], k[p] - 1, o + 1)
    BY <1>0, <1>1, <1>2, <2>1, FilledFail
  <2> QED BY <1>0, <1>4, <1>5, <2>2
<1>9. \A b \in Blocks \ bad'[Target] : o + 1 <= b => flash'[Target][b] = Erased
  <2>1. \A b \in Blocks : o + 1 <= b => o <= b /\ b # o
    BY <1>0, <1>1, NBlocksAssumption DEF Blocks
  <2> QED BY <1>0, <1>1, <1>2, <1>3, <1>4, <1>5, <2>1 DEF Writing
<1>10. Writing(p)'
  BY <1>0, <1>1, <1>2, <1>3, <1>6, <1>8, <1>9 DEF Writing, NoHeader
<1>11. ProcInv(p)' /\ pc' = [pc EXCEPT ![p] = "write"]
  BY <1>0, <1>1, <1>10 DEF ProcInv, IInv, TypeOK
<1> QED BY <1>0, <1>1, <1>2, <1>7, <1>11, StepOf

LEMMA StepWriteOk ==
    ASSUME IInv, Next, NEW p \in Procs, write_ok(p)
    PROVE  IInv'
<1>1. /\ running' = running /\ told' = told /\ bad' = bad
      /\ img' = img /\ ser' = ser
      /\ pc[p] = "write" /\ ofs[p] \in Blocks /\ ofs[p] \notin bad[tgt[p]]
      /\ ofs'[p] = ofs[p] + 1 /\ k'[p] = k[p] + 1
      /\ k[p] \in Nat \ {0} /\ ser[p] \in Nat
  BY DEF write_ok, Goto, IInv, TypeOK
<1>2. /\ \A q \in Procs : q # p => pc[q] = "idle"
      /\ tgt[p] = Target /\ ~ told.ok
      /\ RunSerial' = RunSerial /\ Target' = Target /\ Target \in Slots
      /\ flash[Target] \in [Blocks -> Content]
  BY <1>1, ActiveFacts
<1>3. Writing(p)
  BY <1>1 DEF IInv, ProcInv
<1> DEFINE fl == flash[Target]
           bd == bad[Target]
<1>0. PICK o \in Blocks : o = ofs[p]
  BY <1>1
<1>4. fl[o] = Erased
  BY <1>0, <1>1, <1>2, <1>3, NBlocksAssumption DEF Writing, Blocks
<1>5. flash'[Target] = [fl EXCEPT ![o] = ToWrite(p)]
  BY <1>0, <1>2, <1>4 DEF write_ok, SetBlock, Programmed, IInv, TypeOK
<1>6. img[p] \in Images /\ BodyLen[img[p]] \in Nat
  BY <1>3, BodyLenAssumption DEF Writing
<1>7. ToldInv'
  BY <1>0, <1>1, <1>2, NothingPromised
<1>8. CASE k[p] <= BodyLen[img[p]]
  <2>1. ToWrite(p) = Body(img[p], k[p]) /\ ToWrite(p) \in Content
    BY <1>0, <1>1, <1>6, <1>8, ContentTypes DEF ToWrite
  <2>2. pc' = [pc EXCEPT ![p] = "write"] /\ pc'[p] = "write"
    BY <1>8 DEF write_ok, Goto, IInv, TypeOK
  <2>3. HeaderBlocks(flash'[Target], bd) = {}
    <3>1. HeaderBlocks([fl EXCEPT ![o] = ToWrite(p)], bd) = HeaderBlocks(fl, bd) \ {o}
      BY <1>0, <1>1, <1>2, <2>1, Kinds, HeadersWithout
    <3> QED BY <1>3, <1>5, <3>1 DEF Writing, NoHeader
  <2>4. OtherSafe'
    BY <1>0, <1>1, <1>2, <2>3 DEF OtherSafe, NoHeader
  <2>5. Filled(flash'[Target], bd, img[p], k[p], o + 1)
    <3>1. k[p] - 1 \in Nat /\ (k[p] - 1) + 1 = k[p]
      BY <1>1
    <3>2. Filled(fl, bd, img[p], k[p] - 1, o)
      BY <1>0, <1>3 DEF Writing
    <3>3. Filled([fl EXCEPT ![o] = Body(img[p], (k[p] - 1) + 1)], bd, img[p], (k[p] - 1) + 1, o + 1)
      BY <1>0, <1>1, <1>2, <3>1, <3>2, FilledWrite
    <3> QED BY <1>5, <2>1, <3>1, <3>3
  <2>6. \A b \in Blocks \ bd : o + 1 <= b => flash'[Target][b] = Erased
    <3>1. \A b \in Blocks : o + 1 <= b => o <= b /\ b # o
      BY <1>0, <1>1, NBlocksAssumption DEF Blocks
    <3> QED BY <1>0, <1>1, <1>2, <1>3, <1>5, <3>1 DEF Writing
  <2>7. (k[p] + 1) - 1 = k[p] /\ k[p] + 1 <= BodyLen[img[p]] + 1
    BY <1>0, <1>1, <1>6, <1>8
  <2>8. Writing(p)'
    BY <1>0, <1>1, <1>2, <1>3, <2>3, <2>5, <2>6, <2>7 DEF Writing, NoHeader
  <2>9. ProcInv(p)'
    BY <2>2, <2>8 DEF ProcInv
  <2> QED BY <1>0, <1>1, <1>2, <1>7, <2>2, <2>4, <2>9, StepOf
<1>9. CASE ~ (k[p] <= BodyLen[img[p]])
  <2>1. ToWrite(p) = Header(img[p], ser[p]) /\ ToWrite(p) \in Content
    BY <1>0, <1>1, <1>6, <1>9, ContentTypes DEF ToWrite
  <2>2. pc' = [pc EXCEPT ![p] = "verify"] /\ pc'[p] = "verify"
    BY <1>9 DEF write_ok, Goto, IInv, TypeOK
  <2>3. HeaderBlocks(flash'[Target], bd) = {o}
    <3>1. HeaderBlocks([fl EXCEPT ![o] = ToWrite(p)], bd) = HeaderBlocks(fl, bd) \cup {o}
      BY <1>0, <1>1, <1>2, <2>1, Kinds, HeadersWith
    <3> QED BY <1>3, <1>5, <3>1 DEF Writing, NoHeader
  <2>4. k[p] - 1 = BodyLen[img[p]]
    BY <1>0, <1>1, <1>3, <1>6, <1>9 DEF Writing
  <2>5. Prefix(fl, bd, img[p], BodyLen[img[p]])
    BY <1>3, <2>4, FilledPrefix DEF Writing
  <2>6. slot_verify(flash'[Target], bd, img[p])
    <3>1. Prefix([fl EXCEPT ![o] = ToWrite(p)], bd, img[p], BodyLen[img[p]])
      BY <1>0, <1>1, <1>2, <1>4, <2>5, Kinds, PrefixKept
    <3> QED BY <1>5, <3>1 DEF slot_verify
  <2>7. flash'[Target][o] = Header(img[p], ser[p])
    BY <1>0, <1>1, <1>2, <1>5, <2>1
  <2>8. flash'[Target][o].img = img[p] /\ flash'[Target][o].n > RunSerial
        /\ flash'[Target][o].n # RunSerial
    <3>1. RunSerial \in Nat
      BY <1>0, <1>1, ActiveFacts
    <3> QED BY <1>0, <1>1, <1>3, <2>7, <3>1, Kinds DEF Writing
  <2>9. Written(img[p], o)'
    BY <1>0, <1>1, <1>2, <1>6, <2>3, <2>6, <2>8 DEF Written, OneHeader
  <2>10. OtherSafe'
    BY <1>0, <1>1, <1>2, <2>8, <2>9 DEF Written, OtherSafe
  <2>11. ProcInv(p)'
    BY <2>2, <2>9 DEF ProcInv
  <2> QED BY <1>0, <1>1, <1>2, <1>7, <2>2, <2>10, <2>11, StepOf
<1> QED BY <1>8, <1>9

LEMMA StepWriteOut ==
    ASSUME IInv, Next, NEW p \in Procs, write_out(p)
    PROVE  IInv'
<1>1. /\ running' = running /\ flash' = flash /\ bad' = bad /\ told' = NothingTold
      /\ pc[p] = "write" /\ pc' = [pc EXCEPT ![p] = "idle"] /\ pc'[p] = "idle"
  BY DEF write_out, die, Exit, IInv, TypeOK
<1>2. OtherSafe' /\ ToldInv' /\ ProcInv(p)'
  BY <1>1, OtherKept, NothingPromised DEF ProcInv
<1>3. \A q \in Procs : q # p => pc[q] = "idle"
  BY <1>1, ActiveFacts
<1> QED BY <1>1, <1>2, <1>3, StepOf

LEMMA StepVerify ==
    ASSUME IInv, Next, NEW p \in Procs, flash_verify(p)
    PROVE  IInv'
<1>1. /\ running' = running /\ flash' = flash /\ bad' = bad
      /\ pc[p] = "verify" /\ pc' = [pc EXCEPT ![p] = "idle"] /\ pc'[p] = "idle"
  BY DEF flash_verify, die, Exit, IInv, TypeOK
<1>2. /\ \A q \in Procs : q # p => pc[q] = "idle"
      /\ tgt[p] = Target /\ RunSerial' = RunSerial /\ Target' = Target
  BY <1>1, ActiveFacts
<1>3. OtherSafe' /\ ProcInv(p)'
  BY <1>1, OtherKept DEF ProcInv
<1>4. ToldInv'
  <2>1. CASE told' = NothingTold
    BY <2>1, NothingPromised
  <2>2. CASE told' = [ok |-> TRUE, slot |-> tgt[p], img |-> img[p]]
    <3>1. PICK b \in Blocks : Written(img[p], b)
      BY <1>1 DEF IInv, ProcInv
    <3>2. told'.img = img[p] /\ told'.slot = Target'
      BY <1>2, <2>2
    <3>3. Written(told.img, b)'
      BY <1>1, <1>2, <3>1, <3>2 DEF Written, OneHeader
    <3>4. \A q \in Procs : pc'[q] = "idle"
      BY <1>1, <1>2 DEF IInv, TypeOK
    <3> QED BY <3>2, <3>3, <3>4 DEF ToldInv
  <2> QED BY <2>1, <2>2 DEF flash_verify, die, Exit
<1> QED BY <1>1, <1>2, <1>3, <1>4, StepOf

LEMMA StepSwitchSerial ==
    ASSUME IInv, Next, NEW p \in Procs, switch_serial(p)
    PROVE  IInv'
<1>1. /\ running' = running /\ flash' = flash /\ bad' = bad /\ told' = told
      /\ img' = img /\ ofs' = ofs /\ ser'[p] = max_serial + 1
      /\ pc[p] = "swserial" /\ pc' = [pc EXCEPT ![p] = "swerase"] /\ pc'[p] = "swerase"
  BY DEF switch_serial, Goto, IInv, TypeOK
<1>2. /\ \A q \in Procs : q # p => pc[q] = "idle"
      /\ running \in Slots /\ ~ told.ok /\ RunSerial \in Nat
      /\ RunSerial' = RunSerial /\ Target' = Target
  BY <1>1, ActiveFacts
<1>3. OtherSafe' /\ ToldInv'
  BY <1>1, <1>2, OtherKept, NothingPromised
<1>4. max_serial + 1 > RunSerial
  BY <1>2, MaxSerialBound, SerialType, RunSerialType DEF IInv, RunSerial
<1>5. Checked(p)
  BY <1>1 DEF IInv, ProcInv
<1>6. Checked(p)'
  BY <1>1, <1>2, <1>5 DEF Checked, OneHeader
<1>7. ProcInv(p)'
  BY <1>1, <1>2, <1>4, <1>6 DEF ProcInv
<1> QED BY <1>1, <1>2, <1>3, <1>7, StepOf

LEMMA StepSwitchErase ==
    ASSUME Benign, IInv, Next, NEW p \in Procs, switch_erase(p)
    PROVE  IInv'
<1>1. /\ running' = running /\ bad' = bad /\ told' = told
      /\ img' = img /\ ofs' = ofs /\ ser' = ser
      /\ pc[p] = "swerase" /\ pc' = [pc EXCEPT ![p] = "swwrite"] /\ pc'[p] = "swwrite"
      /\ SetBlock(tgt[p], ofs[p], Erased)
  BY DEF switch_erase, Goto, local, Benign, IInv, TypeOK
<1>2. /\ \A q \in Procs : q # p => pc[q] = "idle"
      /\ running \in Slots /\ ~ told.ok /\ tgt[p] = Target /\ Target \in Slots
      /\ RunSerial' = RunSerial /\ Target' = Target
      /\ flash[Target] \in [Blocks -> Content]
  BY <1>1, ActiveFacts
<1>3. Checked(p) /\ ser[p] > RunSerial
  BY <1>1 DEF IInv, ProcInv
<1> DEFINE fl == flash[Target]
           bd == bad[Target]
<1>4. PICK o \in Blocks \ bd : o = ofs[p] /\ fl[o].kind = "header"
  <2>1. ofs[p] \in HeaderBlocks(fl, bd)
    BY <1>3 DEF Checked, OneHeader
  <2> QED BY <2>1 DEF HeaderBlocks
<1>5. flash'[Target] = [fl EXCEPT ![o] = Erased]
  BY <1>1, <1>2, <1>4 DEF SetBlock, IInv, TypeOK
<1>6. HeaderBlocks(flash'[Target], bd) = {}
  <2>1. HeaderBlocks([fl EXCEPT ![o] = Erased], bd) = HeaderBlocks(fl, bd) \ {o}
    BY <1>2, Kinds, HeadersWithout
  <2> QED BY <1>3, <1>4, <1>5, <2>1 DEF Checked, OneHeader
<1>7. slot_verify(flash'[Target], bd, img[p])
  <2>1. Prefix([fl EXCEPT ![o] = Erased], bd, img[p], BodyLen[img[p]])
    BY <1>2, <1>3, <1>4, PrefixKept DEF Checked, slot_verify
  <2> QED BY <1>5, <2>1 DEF slot_verify
<1>8. OtherSafe' /\ ToldInv'
  BY <1>1, <1>2, <1>6, NothingPromised DEF OtherSafe, NoHeader
<1>9. Headless(p)'
  BY <1>1, <1>2, <1>3, <1>4, <1>5, <1>6, <1>7 DEF Headless, NoHeader, Checked
<1>10. ProcInv(p)'
  BY <1>1, <1>9 DEF ProcInv
<1> QED BY <1>1, <1>2, <1>8, <1>10, StepOf

LEMMA StepSwitchWrite ==
    ASSUME IInv, Next, NEW p \in Procs, switch_write(p)
    PROVE  IInv'
<1>1. /\ running' = running /\ bad' = bad
      /\ pc[p] = "swwrite" /\ pc' = [pc EXCEPT ![p] = "idle"] /\ pc'[p] = "idle"
      /\ ser[p] \in Nat
  BY DEF switch_write, die, Exit, IInv, TypeOK
<1>2. /\ \A q \in Procs : q # p => pc[q] = "idle"
      /\ running \in Slots /\ tgt[p] = Target /\ Target \in Slots
      /\ RunSerial' = RunSerial /\ Target' = Target /\ RunSerial \in Nat
      /\ flash[Target] \in [Blocks -> Content]
  BY <1>1, ActiveFacts
<1>3. Headless(p)
  BY <1>1 DEF IInv, ProcInv
<1> DEFINE fl == flash[Target]
           bd == bad[Target]
           hd == Header(img[p], ser[p])
<1>4. PICK o \in Blocks \ bd : o = ofs[p] /\ fl[o] = Erased
  BY <1>3 DEF Headless
<1>5. ProcInv(p)' /\ \A q \in Procs : pc'[q] = "idle"
  BY <1>1, <1>2 DEF ProcInv, IInv, TypeOK
<1>6. CASE flash'[Target] = [fl EXCEPT ![o] = Garbage] /\ told' = NothingTold
  <2>1. HeaderBlocks([fl EXCEPT ![o] = Garbage], bd) = HeaderBlocks(fl, bd) \ {o}
    BY <1>2, Kinds, HeadersWithout
  <2>2. HeaderBlocks(flash'[Target], bd) = {}
    BY <1>3, <1>6, <2>1 DEF Headless, NoHeader
  <2>3. OtherSafe' /\ ToldInv'
    BY <1>1, <1>2, <1>6, <2>2, NothingPromised DEF OtherSafe, NoHeader
  <2> QED BY <1>1, <1>2, <1>5, <2>3, StepOf
<1>7. ASSUME flash'[Target] = [fl EXCEPT ![o] = hd],
             told' \in {NothingTold, [ok |-> TRUE, slot |-> tgt[p], img |-> img[p]]}
      PROVE  IInv'
  <2>1. HeaderBlocks([fl EXCEPT ![o] = hd], bd) = HeaderBlocks(fl, bd) \cup {o}
    BY <1>2, Kinds, HeadersWith
  <2>2. HeaderBlocks(flash'[Target], bd) = {o}
    BY <1>3, <1>7, <2>1 DEF Headless, NoHeader
  <2>3. Prefix([fl EXCEPT ![o] = hd], bd, img[p], BodyLen[img[p]])
    BY <1>2, <1>3, <1>4, Kinds, PrefixKept DEF Headless, slot_verify
  <2>4. flash'[Target][o] = hd
    BY <1>2, <1>4, <1>7
  <2>5. hd.img = img[p] /\ hd.n = ser[p]
    BY Kinds
  <2>6. /\ flash'[Target][o].img = img[p] /\ img[p] \in Images
        /\ flash'[Target][o].n > RunSerial /\ flash'[Target][o].n # RunSerial
    BY <1>1, <1>2, <1>3, <2>4, <2>5 DEF Headless
  <2>7. slot_verify(flash'[Target], bd, img[p])
    BY <1>7, <2>3 DEF slot_verify
  <2>8. OneHeader(Target, o)'
    BY <1>1, <1>2, <2>2, <2>6 DEF OneHeader
  <2>9. OtherSafe'
    BY <1>1, <1>2, <2>6, <2>7, <2>8 DEF OtherSafe
  <2>10. ToldInv'
    <3>1. CASE told' = NothingTold
      BY <3>1, NothingPromised
    <3>2. CASE told' = [ok |-> TRUE, slot |-> tgt[p], img |-> img[p]]
      <4>1. told'.img = img[p] /\ told'.slot = Target'
        BY <1>2, <3>2
      <4>2. Written(told.img, o)'
        BY <1>1, <1>2, <2>6, <2>7, <2>8, <4>1 DEF Written
      <4> QED BY <1>5, <4>1, <4>2 DEF ToldInv
    <3> QED BY <1>7, <3>1, <3>2
  <2> QED BY <1>1, <1>2, <1>5, <2>9, <2>10, StepOf
<1>8. \/ flash'[Target] = [fl EXCEPT ![o] = Garbage] /\ told' = NothingTold
      \/ /\ flash'[Target] = [fl EXCEPT ![o] = hd]
         /\ told' \in {NothingTold, [ok |-> TRUE, slot |-> tgt[p], img |-> img[p]]}
  <2>1. Programmed(tgt[p], ofs[p], hd) = hd
    BY <1>2, <1>4 DEF Programmed
  <2>2. AfterFailedWrite(tgt[p], ofs[p], hd) = {Garbage, hd}
    BY <2>1, Kinds DEF AfterFailedWrite
  <2>3. \A c : SetBlock(tgt[p], ofs[p], c) => flash'[Target] = [fl EXCEPT ![o] = c]
    BY <1>2, <1>4 DEF SetBlock, IInv, TypeOK
  <2> QED BY <2>1, <2>2, <2>3 DEF switch_write, die, Exit
<1> QED BY <1>6, <1>7, <1>8

\* A block torn by the power cut does not make the other slot unsafe.
LEMMA TornSafe ==
    ASSUME IInv, NEW p \in Working, NEW fl,
           fl = [flash[Target] EXCEPT ![ofs[p]] = Garbage]
    PROVE  \/ HeaderBlocks(fl, bad[Target]) = {}
           \/ \E b \in Blocks :
                /\ HeaderBlocks(fl, bad[Target]) = {b}
                /\ fl[b] = flash[Target][b]
                /\ fl[b].img \in Images /\ fl[b].n < RunSerial
<1>1. p \in Procs /\ pc[p] \in {"erase", "write", "swerase", "swwrite"} /\ pc[p] # "idle"
  BY DEF Working
<1>2. tgt[p] = Target /\ running \in Slots
  BY <1>1, Alone
<1>3. flash[Target] \in [Blocks -> Content]
  BY <1>2, SlotTypes DEF IInv
<1> DEFINE old == HeaderBlocks(flash[Target], bad[Target])
<1>4. PICK o \in Blocks \ bad[Target] : o = ofs[p]
  BY <1>2 DEF Working
<1>5. HeaderBlocks(fl, bad[Target]) = old \ {o}
  <2>1. HeaderBlocks([flash[Target] EXCEPT ![o] = Garbage], bad[Target]) = old \ {o}
    BY <1>3, Kinds, HeadersWithout
  <2> QED BY <1>4, <2>1
<1>6. CASE pc[p] = "erase"
  <2>1. \A b \in old : flash[Target][b].n < RunSerial
    BY <1>1, <1>6 DEF IInv, ProcInv, Erasing
  <2>2. CASE old \ {o} = {}
    BY <1>5, <2>2
  <2>3. CASE old \ {o} # {}
    <3>1. PICK b \in Blocks : OneHeader(Target, b)
      BY <2>3 DEF IInv, OtherSafe, NoHeader
    <3>2. old \ {o} = {b} /\ b # o
      BY <2>3, <3>1 DEF OneHeader
    <3>3. fl[b] = flash[Target][b]
      BY <1>3, <1>4, <3>2
    <3> QED BY <1>5, <2>1, <3>1, <3>2, <3>3 DEF OneHeader
  <2> QED BY <2>2, <2>3
<1>7. CASE pc[p] = "write" \/ pc[p] = "swwrite"
  <2>1. old = {}
    BY <1>1, <1>7 DEF IInv, ProcInv, Writing, Headless, NoHeader
  <2> QED BY <1>5, <2>1
<1>8. CASE pc[p] = "swerase"
  <2>1. old = {o}
    BY <1>1, <1>4, <1>8 DEF IInv, ProcInv, Checked, OneHeader
  <2> QED BY <1>5, <2>1
<1> QED BY <1>1, <1>6, <1>7, <1>8

LEMMA StepPowerCut ==
    ASSUME IInv, Next, power_cut
    PROVE  IInv'
<1>1. PICK T \in SUBSET Working :
        flash' = [s \in Slots |-> [b \in Blocks |->
                   IF \E p \in T : tgt[p] = s /\ ofs[p] = b THEN Garbage ELSE flash[s][b]]]
  BY DEF power_cut
<1>2. PICK r \in Slots : r = running
  BY DEF power_cut
<1>3. PICK o \in Slots : o = Target /\ o = Other(r) /\ o # r
  BY <1>2, TargetFacts DEF Target
<1>4. \A p \in Working : p \in Procs /\ pc[p] # "idle" /\ tgt[p] = o
  BY <1>3, Alone DEF Working
<1>5. bad' = bad /\ TypeOK' /\ OnTarget'
  BY NextTypeOK, NextOnTarget DEF power_cut, IInv
<1>6. flash'[r] = flash[r]
  <2>1. flash[r] = [b \in Blocks |-> flash[r][b]]
    BY DEF IInv, TypeOK
  <2>2. flash'[r] = [b \in Blocks |-> flash[r][b]]
    BY <1>1, <1>3, <1>4
  <2> QED BY <2>1, <2>2
<1>7. SolidAt(r)' /\ SerialOf(r)' = SerialOf(r)
  BY <1>2, <1>5, <1>6 DEF IInv, RunningSolid, SolidAt, OneHeader, SerialOf, HeaderOf
<1>8. SerialOf(r) = RunSerial /\ RunSerial \in Nat
  BY <1>2, RunSerialType DEF IInv, RunSerial
<1>9. SafeAt(r)'
  <2>1. CASE T = {}
    <3>1. flash[o] = [b \in Blocks |-> flash[o][b]]
      BY DEF IInv, TypeOK
    <3>2. flash'[o] = [b \in Blocks |-> flash[o][b]]
      BY <1>1, <2>1
    <3>3. flash'[o] = flash[o]
      BY <3>1, <3>2
    <3> QED BY <1>3, <1>5, <1>7, <1>8, <3>3 DEF IInv, OtherSafe, SafeAt, NoHeader, OneHeader
  <2>2. CASE T # {}
    <3>1. PICK p \in Working : T = {p}
      BY <1>4, <2>2 DEF IInv, Exclusive
    <3>2. ofs[p] \in Blocks
      BY DEF Working
    <3>3. flash'[o] = [flash[o] EXCEPT ![ofs[p]] = Garbage]
      <4>1. flash[o] \in [Blocks -> Content]
        BY DEF IInv, TypeOK
      <4>2. flash'[o] = [b \in Blocks |-> IF ofs[p] = b THEN Garbage ELSE flash[o][b]]
        BY <1>1, <1>4, <3>1
      <4> QED BY <3>2, <4>1, <4>2
    <3>4. \/ HeaderBlocks(flash'[o], bad[o]) = {}
          \/ \E b \in Blocks :
               /\ HeaderBlocks(flash'[o], bad[o]) = {b}
               /\ flash'[o][b] = flash[o][b]
               /\ flash'[o][b].img \in Images /\ flash'[o][b].n < RunSerial
      BY <1>3, <3>3, TornSafe
    <3>5. CASE HeaderBlocks(flash'[o], bad[o]) = {}
      BY <1>3, <1>5, <3>5 DEF SafeAt, NoHeader
    <3>6. ASSUME NEW b \in Blocks,
                 HeaderBlocks(flash'[o], bad[o]) = {b},
                 flash'[o][b].img \in Images, flash'[o][b].n < RunSerial
          PROVE  SafeAt(r)'
      <4>1. flash'[o][b].n \in Nat
        BY <1>5 DEF TypeOK, Content
      <4>2. flash'[o][b].n # SerialOf(r)' /\ ~ (flash'[o][b].n > SerialOf(r)')
        BY <1>7, <1>8, <3>6, <4>1
      <4> QED BY <1>3, <1>5, <3>6, <4>2 DEF SafeAt, OneHeader
    <3> QED BY <3>4, <3>5, <3>6
  <2> QED BY <2>1, <2>2
<1>10. next_slot' \in Slots /\ Intact(next_slot)' /\ SolidAt(next_slot)' /\ SafeAt(next_slot)'
  BY <1>5, <1>7, <1>9, BootChoicePrime
<1>11. running' = next_slot'
  BY <1>10 DEF power_cut
<1>12. RunningSolid' /\ OtherSafe'
  BY <1>10, <1>11 DEF RunningSolid, OtherSafe, SolidAt, SafeAt, RunSerial, Target
<1>13. \A p \in Procs : pc'[p] = "idle"
  BY DEF power_cut
<1>14. Exclusive' /\ (\A p \in Procs : ProcInv(p)') /\ ToldInv'
  BY <1>13, NothingPromised DEF Exclusive, ProcInv, power_cut
<1> QED BY <1>5, <1>12, <1>14 DEF IInv

\* A slot laid out along f holds one header and the whole payload.
LEMMA LaidFacts ==
    ASSUME NEW bd, NEW s \in Nat, NEW i \in Images, NEW n \in Nat, n = BodyLen[i],
           NEW f \in [1..(n + 1) -> Blocks \ bd], Layout(bd, f, n + 1),
           NEW fl, fl = Laid(bd, f, i, s)
    PROVE  \E h \in Blocks \ bd :
             /\ HeaderBlocks(fl, bd) = {h}
             /\ fl[h] = Header(i, s)
             /\ slot_verify(fl, bd, i)
<1>3. /\ \A j, l \in 1..(n + 1) : j < l => f[j] < f[l]
      /\ \A b \in Blocks \ bd, j \in 1..(n + 1) : b <= f[j] => \E l \in 1..(n + 1) : f[l] = b
  BY DEF Layout
<1>2. \A j \in 1..(n + 1) : f[j] \in Blocks /\ f[j] \notin bd
  OBVIOUS
<1>4. \A j, l \in 1..(n + 1) : f[j] = f[l] => j = l
  <2> SUFFICES ASSUME NEW j \in 1..(n + 1), NEW l \in 1..(n + 1), f[j] = f[l] PROVE j = l
    OBVIOUS
  <2>1. f[j] \in Nat
    BY <1>2, NBlocksAssumption DEF Blocks
  <2>2. ~ (j < l) /\ ~ (l < j)
    BY <1>3, <2>1
  <2> QED BY <2>2
<1>5. \A j \in 1..n : fl[f[j]] = Body(i, j)
  <2> SUFFICES ASSUME NEW j \in 1..n PROVE fl[f[j]] = Body(i, j)
    OBVIOUS
  <2>1. f[j] \in Blocks /\ j \in 1..(n + 1)
    BY <1>2
  <2>2. \E l \in 1..n : f[l] = f[j]
    OBVIOUS
  <2>3. (CHOOSE l \in 1..n : f[l] = f[j]) = j
    BY <1>4, <2>1
  <2> QED BY <2>1, <2>2, <2>3 DEF Laid
<1>6. PICK h \in Blocks \ bd : h = f[n + 1]
  BY <1>2
<1>7. \A j \in 1..n : f[j] # h
  BY <1>4, <1>6
<1>8. fl[h] = Header(i, s)
  BY <1>6, <1>7 DEF Laid
<1>9. \A b \in Blocks : b # h => fl[b].kind # "header"
  <2> SUFFICES ASSUME NEW b \in Blocks, b # h PROVE fl[b].kind # "header"
    OBVIOUS
  <2>1. CASE \E j \in 1..n : f[j] = b
    BY <1>5, <2>1, Kinds
  <2>2. CASE ~ \E j \in 1..n : f[j] = b
    <3>1. fl[b] = Garbage \/ fl[b] = Erased
      BY <1>6, <2>2 DEF Laid
    <3> QED BY <3>1, Kinds
  <2> QED BY <2>1, <2>2
<1>10. HeaderBlocks(fl, bd) = {h}
  BY <1>8, <1>9, Kinds DEF HeaderBlocks
<1>11. Prefix(fl, bd, i, n)
  <2> DEFINE g == [j \in 1..n |-> f[j]]
  <2>1. g \in [1..n -> Blocks \ bd] /\ \A j \in 1..n : g[j] = f[j] /\ j \in 1..(n + 1)
    BY <1>2
  <2>2. \A j, l \in 1..n : j < l => g[j] < g[l]
    BY <1>3, <2>1
  <2>3. ASSUME NEW b \in Blocks \ bd, NEW j \in 1..n, b <= g[j]
        PROVE  \E l \in 1..n : g[l] = b
    <3>1. PICK l \in 1..(n + 1) : f[l] = b
      BY <1>3, <2>1, <2>3
    <3>2. l # n + 1
      <4>1. f[j] < f[n + 1]
        BY <1>3, <2>1
      <4>2. f[j] \in Nat /\ f[n + 1] \in Nat
        BY <1>2, <2>1, NBlocksAssumption DEF Blocks
      <4> QED BY <2>1, <2>3, <3>1, <4>1, <4>2
    <3>3. l \in 1..n
      BY <3>1, <3>2
    <3> QED BY <2>1, <3>1, <3>3
  <2> HIDE DEF g
  <2>4. Layout(bd, g, n)
    BY <2>1, <2>2, <2>3 DEF Layout
  <2>5. \A j \in 1..n : fl[g[j]] = Body(i, j)
    BY <1>5, <2>1
  <2> QED BY <2>1, <2>4, <2>5 DEF Prefix
<1> QED BY <1>6, <1>8, <1>10, <1>11 DEF slot_verify

LEMMA InstalledFacts ==
    ASSUME NEW bd, NEW s \in Nat, NEW fl \in Installed(bd, s)
    PROVE  \E i \in Images, h \in Blocks \ bd :
             /\ HeaderBlocks(fl, bd) = {h}
             /\ fl[h] = Header(i, s)
             /\ slot_verify(fl, bd, i)
<1>1. PICK i \in Images :
        \E f \in [1..(BodyLen[i] + 1) -> Blocks \ bd] :
          Layout(bd, f, BodyLen[i] + 1) /\ fl = Laid(bd, f, i, s)
  BY DEF Installed
<1>2. BodyLen[i] \in Nat
  BY BodyLenAssumption
<1> QED BY <1>1, <1>2, LaidFacts

\* At the start the running slot has serial 1 and the other one, if it has a
\* header at all, serial 0.
InitSerials ==
    /\ RunningSolid
    /\ RunSerial = 1
    /\ \/ NoHeader(Target)
       \/ \E b \in Blocks : OneHeader(Target, b) /\ flash[Target][b].n = 0

LEMMA InitSerialsHold == Init => InitSerials
<1> SUFFICES ASSUME Init PROVE InitSerials
  OBVIOUS
<1>2. PICK fr \in Installed(bad[running], 1),
           fo \in Installed(bad[Other(running)], 0) \cup
                  Damaged(bad[Other(running)], 0) \cup {Empty} :
        flash = [s \in Slots |-> IF s = running THEN fr ELSE fo]
  BY DEF Init
<1>3. running \in Slots /\ Target \in Slots /\ Target # running /\ Target = Other(running)
  BY TargetFacts DEF Init, Target
<1>4. flash[running] = fr /\ flash[Target] = fo
  BY <1>2, <1>3
<1>5. PICK i \in Images, h \in Blocks :
        /\ HeaderBlocks(fr, bad[running]) = {h}
        /\ fr[h] = Header(i, 1)
        /\ slot_verify(fr, bad[running], i)
  BY InstalledFacts
<1>6. fr[h].img = i /\ fr[h].n = 1
  BY <1>5, Kinds
<1>7. RunningSolid /\ OneHeader(running, h)
  BY <1>3, <1>4, <1>5, <1>6 DEF RunningSolid, OneHeader
<1>8. RunSerial = 1
  BY <1>3, <1>4, <1>6, <1>7, OneHeaderFacts DEF RunSerial
<1> DEFINE bo == bad[Target]
<1>9. \/ HeaderBlocks(fo, bo) = {}
      \/ \E b \in Blocks : HeaderBlocks(fo, bo) = {b} /\ fo[b].img \in Images /\ fo[b].n = 0
  <2>1. ASSUME NEW g \in Installed(bo, 0)
        PROVE  \E b \in Blocks : HeaderBlocks(g, bo) = {b} /\ g[b].img \in Images /\ g[b].n = 0
    <3>1. PICK m \in Images, b \in Blocks : HeaderBlocks(g, bo) = {b} /\ g[b] = Header(m, 0)
      BY <2>1, InstalledFacts
    <3> QED BY <3>1, Kinds
  <2>2. CASE fo \in Installed(bo, 0)
    BY <2>1, <2>2
  <2>3. CASE fo = Empty
    BY <2>3, Kinds DEF Empty, HeaderBlocks
  <2>4. CASE fo \in Damaged(bo, 0)
    <3>1. PICK g \in Installed(bo, 0), d \in Blocks : fo = [g EXCEPT ![d] = Garbage]
      BY <2>4 DEF Damaged
    <3>2. PICK b \in Blocks : HeaderBlocks(g, bo) = {b} /\ g[b].img \in Images /\ g[b].n = 0
      BY <2>1
    <3>3. g \in [Blocks -> Content]
      BY InstalledType
    <3>4. HeaderBlocks(fo, bo) = {b} \ {d}
      <4>1. HeaderBlocks([g EXCEPT ![d] = Garbage], bo) = HeaderBlocks(g, bo) \ {d}
        <5>1. Garbage.kind # "header"
          BY Kinds
        <5> QED BY <3>3, <5>1 DEF HeaderBlocks
      <4> QED BY <3>1, <3>2, <4>1
    <3>5. CASE b = d
      BY <3>4, <3>5
    <3>6. CASE b # d
      <4>1. fo[b] = g[b]
        BY <3>1, <3>3, <3>6
      <4> QED BY <3>2, <3>4, <3>6, <4>1
    <3> QED BY <3>5, <3>6
  <2> QED BY <1>2, <1>3, <2>2, <2>3, <2>4
<1> QED BY <1>4, <1>7, <1>8, <1>9 DEF InitSerials, NoHeader, OneHeader

LEMMA InitIInv == Init => IInv
<1> SUFFICES ASSUME Init PROVE IInv
  OBVIOUS
<1>1. TypeOK /\ OnTarget
  BY InitTypeOK, InitOnTarget
<1>2. InitSerials
  BY InitSerialsHold
<1>3. OtherSafe
  BY <1>2 DEF InitSerials, OtherSafe
<1>4. Exclusive /\ (\A p \in Procs : ProcInv(p)) /\ ToldInv
  BY DEF Init, Exclusive, ProcInv, ToldInv, NothingTold
<1> QED BY <1>1, <1>2, <1>3, <1>4 DEF IInv, InitSerials

LEMMA NextIInv == Benign /\ IInv /\ [Next]_vars => IInv'
<1> SUFFICES ASSUME Benign, IInv, [Next]_vars PROVE IInv'
  OBVIOUS
<1>1. CASE UNCHANGED vars
  BY <1>1 DEF vars, IInv, TypeOK, RunningSolid, OtherSafe, Exclusive, OnTarget, ProcInv, ToldInv,
              OneHeader, NoHeader, RunSerial, SerialOf, HeaderOf, Target, Erasing, Writing,
              Checked, Headless, Written
<1>2. CASE Next
  <2>1. CASE power_cut
    BY <1>2, <2>1, StepPowerCut
  <2>2. CASE ~ power_cut
    BY <1>2, <2>2, StepCmdFlash, StepCmdSwitch, StepErase, StepWriteSkip, StepWriteOk,
       StepWriteFail, StepWriteOut, StepVerify, StepSwitchSerial, StepSwitchErase, StepSwitchWrite
       DEF Next, ToolStep
  <2> QED BY <2>1, <2>2
<1> QED BY <1>1, <1>2

\* The boot loader is never pointed at a broken slot: as long as a write that
\* fails is all that goes wrong, the slot a reboot would start is intact at
\* every instant, for every size of slot and image and however often the
\* power goes.
THEOREM BootAlwaysSafe == Benign => (Spec => []BootSafe)
<1> SUFFICES ASSUME Benign PROVE Spec => []BootSafe
  OBVIOUS
<1>1. Init => IInv
  BY InitIInv
<1>2. IInv /\ [Next]_vars => IInv'
  BY NextIInv
<1>3. IInv => BootSafe
  BY IInvBootSafe DEF IInv
<1> QED BY <1>1, <1>2, <1>3, PTL DEF Spec

\* What flash and switch report is what the next boot does: the slot they name
\* is the one it starts, with the whole image in it.
THEOREM PromiseKept == Benign => (Spec => []Promise)
<1> SUFFICES ASSUME Benign PROVE Spec => []Promise
  OBVIOUS
<1>1. Init => IInv
  BY InitIInv
<1>2. IInv /\ [Next]_vars => IInv'
  BY NextIInv
<1>3. IInv => Promise
  <2> SUFFICES ASSUME IInv, told.ok
               PROVE  next_slot = told.slot /\ Intact(told.slot) /\ HeaderOf(told.slot).img = told.img
    BY DEF Promise
  <2>1. told.slot = Target /\ \E b \in Blocks : Written(told.img, b)
    BY DEF IInv, ToldInv
  <2> QED BY <2>1, WrittenNext DEF IInv
<1> QED BY <1>1, <1>2, <1>3, PTL DEF Spec

-----------------------------------------------------------------------------
(***************************************************************************)
(* The tool implements SlotContract.                                       *)
(***************************************************************************)

\* The image the callers see in slot s.
View(s) == IF Intact(s) THEN HeaderOf(s).img ELSE NoImage

\* What they see of a state in which the invariant holds.
Seen ==
    /\ running \in Slots /\ next_slot \in Slots
    /\ \A s \in Slots : /\ View(s) \in Images \cup {NoImage}
                        /\ s = next_slot \/ s = running => View(s) \in Images

LEMMA SeenHolds == IInv => Seen
<1> SUFFICES ASSUME IInv PROVE Seen
  OBVIOUS
<1>1. running \in Slots /\ Target \in Slots /\ Target # running /\ Target = Other(running)
  BY TargetFacts DEF IInv, RunningSolid, Target
<1>2. next_slot \in Slots /\ Intact(next_slot)
  BY IInvBootSafe DEF IInv, BootSafe
<1>3. Intact(running) /\ HeaderOf(running).img \in Images
  <2>1. PICK b \in Blocks : OneHeader(running, b)
                            /\ slot_verify(flash[running], bad[running], flash[running][b].img)
    BY DEF IInv, RunningSolid
  <2>2. HasHeader(running) /\ HeaderOf(running) = flash[running][b]
    BY <1>1, <2>1, OneHeaderFacts
  <2> QED BY <2>1, <2>2 DEF Intact, OneHeader
<1>4. Intact(Target) => HeaderOf(Target).img \in Images
  <2> SUFFICES ASSUME Intact(Target) PROVE HeaderOf(Target).img \in Images
    OBVIOUS
  <2>1. ~NoHeader(Target)
    BY <1>1, NoHeaderFacts DEF Intact
  <2>2. PICK b \in Blocks : OneHeader(Target, b)
    BY <2>1 DEF IInv, OtherSafe
  <2>3. HeaderOf(Target) = flash[Target][b]
    BY <1>1, <2>2, OneHeaderFacts
  <2> QED BY <2>2, <2>3 DEF OneHeader
<1>5. \A s \in Slots : s = running \/ s = Target
  BY <1>1 DEF Slots
<1>6. \A s \in Slots : Intact(s) => HeaderOf(s).img \in Images
  BY <1>3, <1>4, <1>5
<1>7. \A s \in Slots : /\ View(s) \in Images \cup {NoImage}
                       /\ s = next_slot \/ s = running => View(s) \in Images
  BY <1>2, <1>3, <1>6 DEF View
<1> QED BY <1>1, <1>2, <1>7 DEF Seen

LEMMA SeenHoldsPrime == IInv' => Seen'
BY SeenHolds, PTL

\* Nothing the callers see has changed.
LEMMA StutterStep ==
    ASSUME NEW r \in Slots, NEW o \in Slots, r = running, o = Other(r), running' = running,
           View(r)' = View(r), View(o)' = View(o), next_slot' = next_slot
    PROVE  UNCHANGED Contract!cvars
<1>1. \A s \in Slots : s = r \/ s = o
  BY DEF Slots, Other
<1>2. \A s \in Slots : View(s)' = View(s)
  BY <1>1
<1> QED BY <1>2 DEF View, Contract!cvars

\* No image in the other slot: a Withdraw, whatever was there before.
LEMMA WithdrawStep ==
    ASSUME NEW r \in Slots, NEW o \in Slots, r = running, o = Other(r), IInv', running' = running,
           View(r)' = View(r), View(o)' = NoImage
    PROVE  Contract!Withdraw
<1>1. Seen'
  BY SeenHoldsPrime
<1>2. \A s \in Slots : s = r \/ s = o
  BY DEF Slots, Other
<1>3. next_slot' = r
  <2>1. PICK s \in Slots : s = next_slot'
    BY <1>1 DEF Seen
  <2>2. View(s)' \in Images
    BY <1>1, <2>1 DEF Seen
  <2>3. s # o
    BY <2>2, ImagesAssumption
  <2> QED BY <1>2, <2>1, <2>3
<1>4. o = 1 - running /\ o # r
  BY DEF Other, Slots
<1>5. [s \in Slots |-> View(s)]' = [[s \in Slots |-> View(s)] EXCEPT ![o] = NoImage]
  BY <1>2, <1>4
<1> QED BY <1>3, <1>4, <1>5 DEF Contract!Withdraw, Contract!other, View

\* An image has appeared in the other slot: a Publish.
LEMMA PublishStep ==
    ASSUME NEW r \in Slots, NEW o \in Slots, r = running, o = Other(r), running' = running,
           View(r)' = View(r), View(o) = NoImage, View(o)' \in Images, next_slot' = o
    PROVE  Contract!Publish
<1>1. o = 1 - running /\ o # r /\ \A s \in Slots : s = r \/ s = o
  BY DEF Other, Slots
<1>2. [s \in Slots |-> View(s)]' = [[s \in Slots |-> View(s)] EXCEPT ![o] = View(o)']
  BY <1>1
<1>3. [s \in Slots |-> View(s)][o] = NoImage
  OBVIOUS
<1>4. \E i \in Images : [s \in Slots |-> View(s)]' = [[s \in Slots |-> View(s)] EXCEPT ![o] = i]
  BY <1>2
<1> QED BY <1>1, <1>3, <1>4 DEF Contract!Publish, Contract!other, View

\* A slot without header shows no image, a written one its image, and is next.
LEMMA SeenHeader ==
    /\ \A s \in Slots : HeaderBlocks(flash[s], bad[s]) = {} => View(s) = NoImage
    /\ \A s \in Slots : \A i, b : IInv /\ s = Target /\ b \in Blocks /\ Written(i, b) =>
          next_slot = s /\ View(s) = i /\ i \in Images
<1>1. ASSUME NEW s \in Slots, HeaderBlocks(flash[s], bad[s]) = {} PROVE View(s) = NoImage
  BY <1>1, NoHeaderFacts DEF NoHeader, View, Intact
<1>2. ASSUME NEW s \in Slots, NEW i, NEW b \in Blocks, IInv, s = Target, Written(i, b)
      PROVE  next_slot = s /\ View(s) = i /\ i \in Images
  <2>1. next_slot = Target /\ Intact(Target) /\ HeaderOf(Target).img = i
    BY <1>2, WrittenNext DEF IInv
  <2>2. i \in Images
    BY <1>2 DEF Written, OneHeader
  <2> QED BY <1>2, <2>1, <2>2 DEF View
<1> QED BY <1>1, <1>2

LEMMA SeenHeaderPrime ==
    (/\ \A s \in Slots : HeaderBlocks(flash[s], bad[s]) = {} => View(s) = NoImage
     /\ \A s \in Slots : \A i, b : IInv /\ s = Target /\ b \in Blocks /\ Written(i, b) =>
           next_slot = s /\ View(s) = i /\ i \in Images)'
BY SeenHeader, PTL

LEMMA SlotKept ==
    ASSUME NEW s \in Slots, flash'[s] = flash[s], bad'[s] = bad[s]
    PROVE  /\ View(s)' = View(s) /\ (HasHeader(s)' <=> HasHeader(s)) /\ HeaderOf(s)' = HeaderOf(s)
BY DEF View, Intact, HasHeader, HeaderOf

LEMMA NextKept ==
    ASSUME \A s \in Slots : (HasHeader(s)' <=> HasHeader(s)) /\ HeaderOf(s)' = HeaderOf(s)
    PROVE  next_slot' = next_slot
<1>1. /\ (HasHeader(0)' <=> HasHeader(0)) /\ HeaderOf(0)' = HeaderOf(0)
      /\ (HasHeader(1)' <=> HasHeader(1)) /\ HeaderOf(1)' = HeaderOf(1)
  BY DEF Slots
<1>2. SerialOf(0)' = SerialOf(0) /\ SerialOf(1)' = SerialOf(1)
  BY <1>1 DEF SerialOf
<1> QED BY <1>1, <1>2 DEF next_slot

\* A block of the other slot is lost, by an erase or torn by a power cut: its
\* image is gone or was not touched.  No header shows that was hidden before,
\* and no payload becomes readable.
LEMMA BlockLost ==
    ASSUME IInv, NEW o \in Slots, o = Target, NEW b \in Blocks, NEW c \in {Erased, Garbage},
           bad'[o] = bad[o], flash'[o] = [flash[o] EXCEPT ![b] = c], View(o)' # NoImage
    PROVE  /\ View(o)' = View(o) /\ (HasHeader(o)' <=> HasHeader(o)) /\ HeaderOf(o)' = HeaderOf(o)
<1>1. flash[o] \in [Blocks -> Content]
  BY DEF IInv, TypeOK
<1>2. c.kind \notin {"header", "body"}
  BY Kinds
<1> DEFINE H == HeaderBlocks(flash[o], bad[o])
<1>3. HeaderBlocks(flash'[o], bad'[o]) = H \ {b}
  BY <1>1, <1>2, HeadersWithout
<1>4. HeaderBlocks(flash'[o], bad'[o]) # {}
  BY SeenHeaderPrime
<1>5. PICK h \in Blocks : H = {h}
  BY <1>3, <1>4 DEF IInv, OtherSafe, NoHeader, OneHeader
<1>6. h # b /\ HeaderBlocks(flash'[o], bad'[o]) = {h} /\ flash'[o][h] = flash[o][h]
  BY <1>1, <1>3, <1>4, <1>5
<1>7. slot_scan(flash[o], bad[o]) = h /\ slot_scan(flash'[o], bad'[o]) = h
  BY <1>5, <1>6, ScanOne
<1>8. h # NoBlock
  BY NBlocksAssumption DEF NoBlock, Blocks
<1>9. HasHeader(o) /\ HasHeader(o)' /\ HeaderOf(o) = flash[o][h] /\ HeaderOf(o)' = HeaderOf(o)
  BY <1>6, <1>7, <1>8 DEF HasHeader, HeaderOf
<1>10. PICK i : i = HeaderOf(o).img
  OBVIOUS
<1>11. slot_verify(flash'[o], bad[o], i)
  BY <1>9, <1>10 DEF View, Intact
<1>12. slot_verify(flash[o], bad[o], i)
  <2>1. PICK f \in [1..BodyLen[i] -> Blocks \ bad[o]] :
          Layout(bad[o], f, BodyLen[i]) /\ \A j \in 1..BodyLen[i] : flash'[o][f[j]] = Body(i, j)
    BY <1>11 DEF slot_verify, Prefix
  <2>2. ASSUME NEW j \in 1..BodyLen[i] PROVE flash[o][f[j]] = Body(i, j)
    <3>1. f[j] \in Blocks /\ flash'[o][f[j]] = Body(i, j)
      BY <2>1
    <3>2. f[j] # b
      BY <1>1, <1>2, <3>1, Kinds
    <3> QED BY <1>1, <3>1, <3>2
  <2> QED BY <2>1, <2>2 DEF slot_verify, Prefix
<1>13. Intact(o) /\ Intact(o)'
  BY <1>9, <1>10, <1>11, <1>12 DEF Intact
<1> QED BY <1>9, <1>13 DEF View

\* Such a step, seen by the callers, while the system keeps running.
LEMMA LostStep ==
    ASSUME IInv, IInv', NEW r \in Slots, NEW o \in Slots, r = running, o = Other(r),
           running' = running, flash'[r] = flash[r], bad'[r] = bad[r], bad'[o] = bad[o],
           NEW b \in Blocks, NEW c \in {Erased, Garbage}, flash'[o] = [flash[o] EXCEPT ![b] = c]
    PROVE  [Contract!Next]_(Contract!cvars)
<1>1. View(r)' = View(r) /\ (HasHeader(r)' <=> HasHeader(r)) /\ HeaderOf(r)' = HeaderOf(r)
  BY SlotKept
<1>2. CASE View(o)' = NoImage
  BY <1>1, <1>2, WithdrawStep DEF Contract!Next
<1>3. CASE View(o)' # NoImage
  <2>1. View(o)' = View(o) /\ (HasHeader(o)' <=> HasHeader(o)) /\ HeaderOf(o)' = HeaderOf(o)
    BY <1>3, BlockLost DEF Target
  <2>2. \A s \in Slots : s = r \/ s = o
    BY DEF Slots, Other
  <2>3. next_slot' = next_slot
    BY <1>1, <2>1, <2>2, NextKept
  <2> QED BY <1>1, <2>1, <2>3, StutterStep
<1> QED BY <1>2, <1>3

\* The steps that change no block.
LEMMA QuietStep ==
    ASSUME IInv, UNCHANGED <<flash, bad, running>>
    PROVE  UNCHANGED Contract!cvars
<1>1. PICK r \in Slots, o \in Slots : r = running /\ o = Other(r)
  BY DEF IInv, RunningSolid, Slots, Other
<1>2. \A s \in Slots : /\ View(s)' = View(s) /\ (HasHeader(s)' <=> HasHeader(s))
                       /\ HeaderOf(s)' = HeaderOf(s)
  BY SlotKept
<1>3. next_slot' = next_slot
  BY <1>2, NextKept
<1> QED BY <1>1, <1>2, <1>3, StutterStep

\* The steps that write: payload, header, or a block that fails.
LEMMA WriteStep ==
    ASSUME IInv, IInv', Next, NEW p \in Procs, Benign, write_ok(p) \/ write_fail(p)
    PROVE  [Contract!Next]_(Contract!cvars)
<1>1. running' = running /\ pc[p] = "write" /\ pc'[p] \in {"write", "verify"} /\ running \in Slots
      /\ img' = img
  BY DEF write_ok, write_fail, Goto, IInv, TypeOK, RunningSolid
<1>2. PICK r \in Slots, o \in Slots : r = running /\ o = Other(r) /\ o = Target
  BY <1>1, TargetFacts DEF Target
<1>3. flash'[r] = flash[r] /\ bad'[r] = bad[r] /\ Target' = o
  BY <1>1, <1>2, KeepRunning DEF IInv, Target
<1>4. View(r)' = View(r)
  BY <1>3, SlotKept
<1>5. View(o) = NoImage
  BY <1>1, <1>2, SeenHeader DEF IInv, ProcInv, Writing, NoHeader
<1>6. CASE pc'[p] = "write"
  <2>1. HeaderBlocks(flash'[o], bad'[o]) = {}
    BY <1>3, <1>6 DEF IInv, ProcInv, Writing, NoHeader
  <2>2. View(o)' = NoImage
    BY <2>1, SeenHeaderPrime
  <2> QED BY <1>1, <1>2, <1>4, <2>2, WithdrawStep DEF Contract!Next
<1>7. CASE pc'[p] = "verify"
  <2>1. PICK i : i = img'[p]
    OBVIOUS
  <2>2. PICK b \in Blocks : Written(i, b)'
    BY <1>7, <2>1 DEF IInv, ProcInv, Written
  <2>3. next_slot' = o /\ View(o)' = i /\ i \in Images
    BY <1>3, <2>2, SeenHeaderPrime
  <2> QED BY <1>1, <1>2, <1>4, <1>5, <2>3, PublishStep DEF Contract!Next
<1> QED BY <1>1, <1>6, <1>7

\* switch puts the header back, or fails to, or half fails to.
LEMMA SwitchWriteStep ==
    ASSUME IInv, IInv', Next, NEW p \in Procs, switch_write(p)
    PROVE  [Contract!Next]_(Contract!cvars)
<1>1. /\ running' = running /\ bad' = bad /\ pc[p] = "swwrite" /\ ser[p] \in Nat
  BY DEF switch_write, IInv, TypeOK
<1>2. /\ running \in Slots /\ tgt[p] = Target /\ Target \in Slots
      /\ RunSerial' = RunSerial /\ Target' = Target /\ RunSerial \in Nat
      /\ flash[Target] \in [Blocks -> Content]
  BY <1>1, ActiveFacts
<1>3. PICK r \in Slots, o \in Slots : r = running /\ o = Other(r) /\ o = Target
  BY <1>2 DEF Target
<1>4. flash'[r] = flash[r] /\ bad'[r] = bad[r] /\ Target' = o
  BY <1>1, <1>2, <1>3, KeepRunning DEF IInv
<1>5. View(r)' = View(r)
  BY <1>4, SlotKept
<1>6. Headless(p)
  BY <1>1 DEF IInv, ProcInv
<1>7. View(o) = NoImage
  BY <1>3, <1>6, SeenHeader DEF Headless, NoHeader
<1>8. PICK b \in Blocks \ bad[o] : b = ofs[p] /\ flash[o][b] = Erased
  BY <1>3, <1>6 DEF Headless
<1> DEFINE hd == Header(img[p], ser[p])
<1>9. flash'[o] = [flash[o] EXCEPT ![b] = Garbage] \/ flash'[o] = [flash[o] EXCEPT ![b] = hd]
  <2>1. Programmed(tgt[p], ofs[p], hd) = hd
    BY <1>2, <1>3, <1>8 DEF Programmed
  <2>2. AfterFailedWrite(tgt[p], ofs[p], hd) = {Garbage, hd}
    BY <2>1, Kinds DEF AfterFailedWrite
  <2>3. \A c : SetBlock(tgt[p], ofs[p], c) => flash'[o] = [flash[o] EXCEPT ![b] = c]
    BY <1>2, <1>3, <1>8 DEF SetBlock, IInv, TypeOK
  <2> QED BY <2>1, <2>2, <2>3 DEF switch_write
<1>10. CASE flash'[o] = [flash[o] EXCEPT ![b] = Garbage]
  BY <1>1, <1>3, <1>4, <1>10, LostStep
<1>11. CASE flash'[o] = [flash[o] EXCEPT ![b] = hd]
  <2>0. PICK i \in Images : i = img[p]
    BY <1>6 DEF Headless
  <2>1. HeaderBlocks([flash[o] EXCEPT ![b] = hd], bad[o]) = HeaderBlocks(flash[o], bad[o]) \cup {b}
    BY <1>2, <1>3, Kinds, HeadersWith
  <2>2. HeaderBlocks(flash'[o], bad'[o]) = {b}
    BY <1>1, <1>3, <1>6, <1>11, <2>1 DEF Headless, NoHeader
  <2>3. Prefix([flash[o] EXCEPT ![b] = hd], bad[o], i, BodyLen[i])
    BY <1>2, <1>3, <1>6, <1>8, <2>0, Kinds, PrefixKept DEF Headless, slot_verify
  <2>4. slot_verify(flash'[o], bad'[o], i)
    BY <1>1, <1>11, <2>3 DEF slot_verify
  <2>5. flash'[o][b] = hd
    BY <1>2, <1>3, <1>8, <1>11
  <2>6. flash'[o][b].img = i /\ flash'[o][b].n > RunSerial'
    BY <1>1, <1>2, <1>6, <2>0, <2>5, Kinds DEF Headless
  <2>7. Written(i, b)'
    BY <1>4, <2>2, <2>4, <2>6 DEF Written, OneHeader
  <2>8. next_slot' = o /\ View(o)' = i
    BY <1>4, <2>7, SeenHeaderPrime
  <2> QED BY <1>1, <1>3, <1>5, <1>7, <2>0, <2>8, PublishStep DEF Contract!Next
<1> QED BY <1>9, <1>10, <1>11

\* The steps that erase.
LEMMA EraseStep ==
    ASSUME IInv, IInv', Next, NEW p \in Procs, Benign, erase_slot(p) \/ switch_erase(p)
    PROVE  [Contract!Next]_(Contract!cvars)
<1>1. /\ running' = running /\ bad' = bad /\ pc[p] \in {"erase", "swerase"}
      /\ flash' = flash \/ SetBlock(tgt[p], ofs[p], Erased)
  BY DEF erase_slot, switch_erase, Benign
<1>2. running \in Slots /\ tgt[p] = Target /\ Target \in Slots /\ Target' = Target
  BY <1>1, ActiveFacts
<1>3. PICK r \in Slots, o \in Slots : r = running /\ o = Other(r) /\ o = Target
  BY <1>2 DEF Target
<1>4. PICK b \in Blocks : b = ofs[p]
  BY <1>1 DEF IInv, OnTarget
<1>5. CASE flash' = flash
  BY <1>1, <1>5, QuietStep
<1>6. CASE SetBlock(tgt[p], ofs[p], Erased)
  <2>1. flash'[r] = flash[r]
    BY <1>1, <1>2, <1>3, KeepRunning DEF IInv
  <2>2. flash'[o] = [flash[o] EXCEPT ![b] = Erased]
    BY <1>2, <1>3, <1>4, <1>6 DEF SetBlock, IInv, TypeOK
  <2> QED BY <1>1, <1>3, <2>1, <2>2, LostStep
<1> QED BY <1>1, <1>5, <1>6

\* The power goes and the boot loader starts the next slot.  If a torn block
\* has cost the other slot its image, the next one is the one that ran.
LEMMA PowerCutStep ==
    ASSUME IInv, IInv', Next, power_cut
    PROVE  [Contract!Next]_(Contract!cvars)
<1>1. PICK T \in SUBSET Working :
        flash' = [s \in Slots |-> [b \in Blocks |->
                   IF \E p \in T : tgt[p] = s /\ ofs[p] = b THEN Garbage ELSE flash[s][b]]]
  BY DEF power_cut
<1>2. PICK r \in Slots, o \in Slots : r = running /\ o = Other(r) /\ o = Target /\ o # r
  BY TargetFacts DEF Target, IInv, RunningSolid
<1>3. bad' = bad /\ flash \in [Slots -> [Blocks -> Content]]
  BY DEF power_cut, IInv, TypeOK
<1>4. running' = next_slot' /\ next_slot' \in Slots
  BY DEF power_cut, IInv, RunningSolid, Slots, NoSlot
<1>5. \A p \in Working : p \in Procs /\ pc[p] # "idle" /\ tgt[p] = o /\ ofs[p] \in Blocks
  BY <1>2, Alone DEF Working
<1>6. flash'[r] = flash[r]
  <2>1. flash[r] = [b \in Blocks |-> flash[r][b]]
    BY <1>3
  <2>2. flash'[r] = [b \in Blocks |-> flash[r][b]]
    BY <1>1, <1>2, <1>5
  <2> QED BY <2>1, <2>2
<1>7. View(r)' = View(r) /\ (HasHeader(r)' <=> HasHeader(r)) /\ HeaderOf(r)' = HeaderOf(r)
  BY <1>3, <1>6, SlotKept
<1>8. \A s \in Slots : s = r \/ s = o
  BY <1>2 DEF Slots
<1>reboot. ASSUME View(o)' = View(o), HasHeader(o)' <=> HasHeader(o), HeaderOf(o)' = HeaderOf(o)
           PROVE  Contract!Reboot
  <2>1. next_slot' = next_slot
    BY <1>7, <1>8, <1>reboot, NextKept
  <2>2. \A s \in Slots : View(s)' = View(s)
    BY <1>7, <1>8, <1>reboot
  <2> QED BY <1>4, <2>1, <2>2 DEF Contract!Reboot, View
<1>9. CASE T = {}
  <2>1. flash[o] = [b \in Blocks |-> flash[o][b]]
    BY <1>3
  <2>2. flash'[o] = [b \in Blocks |-> flash[o][b]]
    BY <1>1, <1>9
  <2>3. flash'[o] = flash[o]
    BY <2>1, <2>2
  <2> QED BY <1>3, <2>3, <1>reboot, SlotKept DEF Contract!Next
<1>10. CASE T # {}
  <2>1. PICK p \in Working : T = {p}
    BY <1>5, <1>10 DEF IInv, Exclusive
  <2>2. PICK b \in Blocks : b = ofs[p]
    BY <1>5
  <2>3. flash'[o] = [flash[o] EXCEPT ![b] = Garbage]
    <3>1. flash'[o] = [x \in Blocks |-> IF b = x THEN Garbage ELSE flash[o][x]]
      BY <1>1, <1>5, <2>1, <2>2
    <3> QED BY <1>3, <3>1
  <2>4. CASE View(o)' # NoImage
    BY <1>2, <1>3, <2>3, <2>4, <1>reboot, BlockLost DEF Contract!Next
  <2>5. CASE View(o)' = NoImage
    <3>1. Seen'
      BY SeenHoldsPrime
    <3>2. PICK s \in Slots : s = next_slot'
      BY <1>4
    <3>3. s # o
      BY <2>5, <3>1, <3>2, ImagesAssumption DEF Seen
    <3>4. running' = running
      BY <1>2, <1>4, <1>8, <3>2, <3>3
    <3> QED BY <1>2, <1>7, <2>5, <3>4, WithdrawStep DEF Contract!Next
  <2> QED BY <2>4, <2>5
<1> QED BY <1>9, <1>10

LEMMA RefinesStep == Benign /\ IInv /\ IInv' /\ [Next]_vars => [Contract!Next]_(Contract!cvars)
<1> SUFFICES ASSUME Benign, IInv, IInv', [Next]_vars PROVE [Contract!Next]_(Contract!cvars)
  OBVIOUS
<1>1. CASE UNCHANGED vars
  BY <1>1, QuietStep DEF vars
<1>2. CASE power_cut
  BY <1>2, PowerCutStep DEF Next
<1>3. ASSUME Next, NEW p \in Procs,
             \/ \E i \in Images : cmd_flash(p, i)
             \/ cmd_switch(p) \/ write_skip(p) \/ write_out(p) \/ flash_verify(p) \/ switch_serial(p)
      PROVE  [Contract!Next]_(Contract!cvars)
  BY <1>3, QuietStep DEF cmd_flash, cmd_switch, write_skip, write_out, flash_verify, switch_serial
<1>4. ASSUME Next, NEW p \in Procs, write_ok(p) \/ write_fail(p)
      PROVE  [Contract!Next]_(Contract!cvars)
  BY <1>4, WriteStep
<1>5. ASSUME Next, NEW p \in Procs, erase_slot(p) \/ switch_erase(p)
      PROVE  [Contract!Next]_(Contract!cvars)
  BY <1>5, EraseStep
<1>6. ASSUME Next, NEW p \in Procs, switch_write(p) PROVE [Contract!Next]_(Contract!cvars)
  BY <1>6, SwitchWriteStep
<1> QED BY <1>1, <1>2, <1>3, <1>4, <1>5, <1>6 DEF Next, ToolStep

LEMMA RefinesInit == Init => Contract!Init
<1> SUFFICES ASSUME Init PROVE Contract!Init
  OBVIOUS
<1>1. Seen
  BY InitIInv, SeenHolds
<1>2. PICK r \in Slots, o \in Slots : r = running /\ o = Other(r)
  BY <1>1 DEF Seen, Slots, Other
<1>3. next_slot = running
  <2>1. InitSerials
    BY InitSerialsHold
  <2>2. r \in Slots /\ o \in Slots /\ r # o /\ SerialOf(r) = 1 /\ HasHeader(r)
    BY <1>2, <2>1, OneHeaderFacts DEF InitSerials, RunningSolid, RunSerial, Slots, Other
  <2>3. HasHeader(o) => SerialOf(o) = 0
    <3>1. Target = o
      BY <1>2 DEF Target
    <3>2. CASE NoHeader(o)
      BY <3>2, NoHeaderFacts
    <3>3. CASE \E b \in Blocks : OneHeader(o, b) /\ flash[o][b].n = 0
      BY <3>3, OneHeaderFacts
    <3> QED BY <2>1, <3>1, <3>2, <3>3 DEF InitSerials
  <2> QED BY <1>2, <2>2, <2>3 DEF next_slot, Slots
<1>4. [s \in Slots |-> View(s)] \in [{0, 1} -> Images \cup {NoImage}]
      /\ [s \in Slots |-> View(s)][running] # NoImage
  BY <1>1, ImagesAssumption DEF Seen, Slots
<1> QED BY <1>1, <1>3, <1>4 DEF Contract!Init, View, Seen, Slots

\* As long as a write that fails is all that goes wrong, everything flash and
\* switch do to the flash, power cuts in the middle included, looks to their
\* callers like the three steps of SlotContract: an image is withdrawn as a
\* whole, published as a whole and made the next one with that, or booted.
THEOREM ToolImplementsContract == Benign => (Spec => Implements)
<1> SUFFICES ASSUME Benign PROVE Spec => Implements
  OBVIOUS
<1>1. Init => IInv /\ Contract!Init
  BY InitIInv, RefinesInit
<1>2. IInv /\ [Next]_vars => IInv'
  BY NextIInv
<1>3. IInv /\ IInv' /\ [Next]_vars => [Contract!Next]_(Contract!cvars)
  BY RefinesStep
<1> QED BY <1>1, <1>2, <1>3, PTL DEF Spec, Implements, Contract!Spec
=============================================================================
