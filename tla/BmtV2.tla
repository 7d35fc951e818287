------------------------------- MODULE BmtV2 -------------------------------
(***************************************************************************)
(* mtk_bmt with the v2 table (target/linux/generic/files/drivers/mtd/nand, *)
(* mtk_bmt.c and mtk_bmt_v2.c): the layer that hides the bad blocks of a   *)
(* MediaTek NAND chip from the MTD users above it.                         *)
(*                                                                         *)
(* bb_tbl maps a logical block to a physical one.  The blocks behind the   *)
(* mapped area form the pool: bmt_tbl lists its good blocks, the last one  *)
(* holds the only copy of both tables on the flash, the others replace     *)
(* blocks that go bad.  The layer takes no lock of its own; erasing a      *)
(* block, copying one and writing the table are actions of their own, so   *)
(* that several threads may interleave and the power may go in between.    *)
(*                                                                         *)
(* Env says what the environment may do:                                   *)
(*   "readFails"  reading a block of Weak may fail with an ECC error       *)
(*   "crash"      the power may go                                         *)
(*   "markbad"    the MTD users mark blocks bad                            *)
(*   "debugfs"    the files under debugfs are written                      *)
(*   "concurrent" two calls may overlap                                    *)
(***************************************************************************)
EXTENDS Integers

CONSTANTS Threads,    \* threads that call into the layer
          Values,     \* what the users write into a page
          Blank,      \* a page that is erased
          Junk,       \* a page whose programming or erasure failed
          Unknown,    \* a page the users expect nothing of
          total_blks, \* physical blocks of the chip
          pool_lba,   \* logical blocks the table maps, the two of the PMT included
          Pages,      \* pages of a block
          bb_max,     \* bad blocks in a row that find_valid_block tolerates
          Range,      \* logical blocks of the property bmt-remap-range
          Weak,       \* physical blocks on which an operation may fail
          InitBad,    \* sets of blocks that may be bad from the factory
          MaxRetry,   \* remaps an operation may ask for (10 in the code)
          DebugBlocks,\* blocks whose addresses are written to debugfs
          Env         \* what may happen, see above

ASSUME ValuesAssumption == /\ Blank \notin Values /\ Junk \notin Values /\ Unknown \notin Values
                           /\ Blank # Junk /\ Blank # Unknown /\ Junk # Unknown
ASSUME SizeAssumption   == /\ total_blks \in Nat /\ pool_lba \in Nat
                           /\ 2 < pool_lba /\ pool_lba < total_blks
                           /\ total_blks < 65535
ASSUME PagesAssumption  == Pages \in Nat \ {0}
ASSUME LimitAssumption  == bb_max \in Nat /\ MaxRetry \in Nat
ASSUME BlocksAssumption == /\ Range \subseteq 0..(pool_lba - 1)
                           /\ Weak \subseteq 0..(total_blks - 1)
                           /\ InitBad \subseteq SUBSET (1..(total_blks - 1))
                           /\ DebugBlocks \subseteq 0..(pool_lba - 3)
ASSUME BmtEnvAssumption ==
    Env \subseteq {"readFails", "crash", "markbad", "debugfs", "concurrent"}

Phys    == 0..(total_blks - 1)
Lba     == 0..(pool_lba - 1)       \* indices of bb_tbl
Logical == 0..(pool_lba - 3)       \* blocks of the mtd, without the PMT
PoolIdx == 0..(total_blks - pool_lba - 1)   \* indices of bmt_tbl
PageNo  == 1..Pages
FATAL   == 65535                   \* (u16)-1

NO_MAPPED     == 0
NORMAL_MAPPED == 1
BMT_MAPPED    == 2

BlankBlock == [q \in PageNo |-> Blank]
JunkBlock  == [q \in PageNo |-> Junk]

NoTable == [valid |-> FALSE, bb |-> [b \in Lba |-> 0],
            bmt |-> [i \in PoolIdx |-> [block |-> 0, mapped |-> NO_MAPPED]]]

VARIABLES
    nand,     \* nand[b]: the pages of physical block b
    table,    \* table[b]: the tables that b holds, NoTable if it holds none
    marked,   \* blocks that carry a bad block mark
    up,       \* "off", "init" while mtk_bmt_init_v2 uploads, "on"
    bb_tbl, bmt_tbl, bmt_blk_idx,   \* bmtd
    th,       \* per thread: the call it executes and where it is
    user,     \* what the users may expect to read: user[l][page]
    replaced  \* physical blocks that were mapped and found bad

vars == <<nand, table, marked, up, bb_tbl, bmt_tbl, bmt_blk_idx, th, user, replaced>>
chip == <<nand, table, marked>>
ram  == <<bb_tbl, bmt_tbl, bmt_blk_idx>>

Idle == [pc |-> "idle", op |-> "none", blk |-> 0, pg |-> 1, val |-> Blank, cur |-> 0,
         retry |-> 0, new |-> 0, n |-> 0]

Labels == {"idle", "io", "pick", "take", "rerase", "rcopy", "uerase", "uwrite", "mark", "fixup"}
Ops    == {"none", "read", "flip", "write", "erase", "isbad", "markbad",
           "mark_bad", "mark_good", "repair", "debug", "attach"}

(***************************************************************************)
(* Reading the tables                                                      *)
(***************************************************************************)

get_mapping_block_index_v2(b) == IF b \in Range THEN bb_tbl[b] ELSE b

Good(b, bd) == b \in Phys \ bd

\* The first block from b on that is not bad; 0 when bb_max are skipped or
\* the chip ends.
find_valid_block(b, bd) ==
    LET C == {c \in b..(b + bb_max) : Good(c, bd)}
    IN  IF C = {} THEN 0 ELSE CHOOSE c \in C : \A d \in C : c <= d

\* bb is what the first loop of scan_bad_blocks fills in.
ScannedBb(bb, bd) ==
    /\ bb[0] = 0
    /\ \A i \in Lba \ {0} : bb[i] = find_valid_block(bb[i - 1] + 1, bd) /\ bb[i] # 0

\* po lists the blocks the second loop finds, from pba on; 0 behind the last.
ScannedPool(po, pba, bd) ==
    \A i \in PoolIdx :
        po[i] = IF i = 0 THEN find_valid_block(pba, bd)
                ELSE IF po[i - 1] = 0 THEN 0 ELSE find_valid_block(po[i - 1] + 1, bd)

\* The last entry of the list, -1 if it is empty.
LastIdx(po) ==
    IF po[0] = 0 THEN -1
    ELSE CHOOSE i \in PoolIdx : po[i] # 0 /\ \A j \in PoolIdx : i < j => po[j] = 0

\* The entry marked BMT_MAPPED, 0 when there is none before the list ends.
get_bmt_index(bmt) ==
    LET C == {i \in PoolIdx : bmt[i].mapped = BMT_MAPPED /\ \A j \in 0..i : bmt[j].block # 0}
    IN  IF C = {} THEN 0 ELSE CHOOSE i \in C : \A j \in C : i <= j

\* The block whose table init_v2 takes: the last one of the pool area that
\* holds a valid table, F being the blocks whose read fails; 0 if there is none.
FoundBlock(F) ==
    LET C == {b \in Phys : b >= pool_lba /\ table[b].valid /\ b \notin F}
    IN  IF C = {} THEN 0 ELSE CHOOSE b \in C : \A c \in C : c <= b

Unreadable == IF "readFails" \in Env THEN SUBSET Weak ELSE {{}}

Init ==
    /\ nand = [b \in Phys |-> BlankBlock]
    /\ table = [b \in Phys |-> NoTable]
    /\ marked \in InitBad
    /\ up = "off"
    /\ bb_tbl = NoTable.bb
    /\ bmt_tbl = NoTable.bmt
    /\ bmt_blk_idx = 0
    /\ th = [t \in Threads |-> Idle]
    /\ user = [b \in Logical |-> BlankBlock]
    /\ replaced = {}

(***************************************************************************)
(* Steps of a thread                                                       *)
(***************************************************************************)

Return(t) == th' = [th EXCEPT ![t] = Idle]

Goto(t, pc) == th' = [th EXCEPT ![t].pc = pc]

MayCall(t) ==
    /\ up = "on"
    /\ th[t].pc = "idle"
    /\ "concurrent" \in Env \/ \A s \in Threads : th[s].pc = "idle"

\* A call on page q of logical block b starts at pc; the mapping is looked up.
Call(t, op, b, q, v, pc) ==
    th' = [th EXCEPT ![t] = [Idle EXCEPT !.pc = pc, !.op = op, !.blk = b, !.pg = q, !.val = v,
                                         !.cur = get_mapping_block_index_v2(b)]]

Erase(b) == /\ nand' = [nand EXCEPT ![b] = BlankBlock]
            /\ table' = [table EXCEPT ![b] = NoTable]

\* A failed erasure leaves the block as it was or unreadable.
FailErase(b) ==
    \/ UNCHANGED <<nand, table>>
    \/ /\ nand' = [nand EXCEPT ![b] = JunkBlock]
       /\ table' = [table EXCEPT ![b] = NoTable]

\* A page that is not erased cannot be programmed.
Programmed(old, v) == IF old = Blank THEN v ELSE Junk

Fails(b) == b \in Weak
ReadFails(b) == b \in Weak /\ "readFails" \in Env

(***************************************************************************)
(* The operations of the MTD layer                                         *)
(***************************************************************************)

mtk_bmt_read(t, b, q) ==
    /\ MayCall(t)
    /\ Call(t, "read", b, q, Blank, "io")
    /\ UNCHANGED <<chip, up, ram, user, replaced>>

\* NAND pages are written once, in order, after the block was erased.
mtk_bmt_write(t, b, q, v) ==
    /\ MayCall(t)
    /\ \A r \in q..Pages : user[b][r] = Blank
    /\ Call(t, "write", b, q, v, "io")
    /\ user' = [user EXCEPT ![b][q] = Unknown]
    /\ UNCHANGED <<chip, up, ram, replaced>>

mtk_bmt_mtd_erase(t, b) ==
    /\ MayCall(t)
    /\ Call(t, "erase", b, 1, Blank, "io")
    /\ user' = [user EXCEPT ![b] = [q \in PageNo |-> Unknown]]
    /\ UNCHANGED <<chip, up, ram, replaced>>

mtk_bmt_block_isbad(t, b) ==
    /\ MayCall(t)
    /\ Call(t, "isbad", b, 1, Blank, "io")
    /\ UNCHANGED <<chip, up, ram, user, replaced>>

mtk_bmt_block_markbad(t, b) ==
    /\ "markbad" \in Env
    /\ MayCall(t)
    /\ Call(t, "markbad", b, 1, Blank, "pick")
    /\ UNCHANGED <<chip, up, ram, user, replaced>>

\* The access to the chip succeeds.  A read that had to be repeated returns
\* the error of the first try all the same.
io_ok(t) ==
    /\ th[t].pc = "io"
    /\ LET b == th[t].blk  c == th[t].cur  q == th[t].pg IN
         \/ /\ th[t].op = "read"
            /\ Return(t)
            /\ UNCHANGED <<nand, table, user>>
         \/ /\ th[t].op = "write"
            /\ nand' = [nand EXCEPT ![c][q] = Programmed(@, th[t].val)]
            /\ user' = [user EXCEPT ![b][q] = th[t].val]
            /\ Return(t)
            /\ UNCHANGED table
         \/ /\ th[t].op = "erase"
            /\ Erase(c)
            /\ user' = [user EXCEPT ![b] = BlankBlock]
            /\ Return(t)
         \/ /\ th[t].op = "isbad"
            /\ c \notin marked
            /\ Return(t)
            /\ UNCHANGED <<nand, table, user>>
    /\ UNCHANGED <<marked, up, ram, replaced>>

\* A read that met as many bitflips as mtd->bitflip_threshold: the data is
\* returned, and the block is replaced.
io_flip(t) ==
    /\ th[t].pc = "io" /\ th[t].op = "read"
    /\ Fails(th[t].cur)
    /\ th' = [th EXCEPT ![t].pc = "pick", ![t].op = "flip"]
    /\ UNCHANGED <<chip, up, ram, user, replaced>>

\* The access fails: ask for another block.  After a read error the users
\* know that the block is damaged.
io_fail(t) ==
    /\ th[t].pc = "io"
    /\ LET b == th[t].blk  c == th[t].cur  q == th[t].pg IN
         \/ /\ th[t].op = "read" /\ ReadFails(c)
            /\ user' = [user EXCEPT ![b] = [r \in PageNo |-> Unknown]]
            /\ UNCHANGED <<nand, table>>
         \/ /\ th[t].op = "write" /\ Fails(c)
            /\ nand' = [nand EXCEPT ![c][q] = Junk]
            /\ UNCHANGED <<user, table>>
         \/ /\ th[t].op = "erase" /\ Fails(c)
            /\ FailErase(c)
            /\ UNCHANGED user
         \/ /\ th[t].op = "isbad" /\ c \in marked
            /\ UNCHANGED <<nand, table, user>>
    /\ Goto(t, "pick")
    /\ UNCHANGED <<marked, up, ram, replaced>>

(***************************************************************************)
(* remap_block_v2                                                          *)
(***************************************************************************)

\* Entries find_valid_block_in_pool may choose from.
Available == {i \in PoolIdx : /\ i < bmt_blk_idx
                              /\ bmt_tbl[i].block # 0
                              /\ bmt_tbl[i].mapped = NO_MAPPED}

\* Mutant: the operation is repeated although there is no other block.
NotRemapped_again(t) == Goto(t, "io")

\* The call has got no other block: the error is returned, except where the
\* result of the remap is ignored.
NotRemapped(t) ==
    IF th[t].op = "markbad" THEN Goto(t, "mark") ELSE Return(t)

find_valid_block_in_pool(t) ==
    /\ th[t].pc = "pick"
    /\ IF th[t].blk \in Range /\ Available # {}
         THEN th' = [th EXCEPT ![t].pc = "take",
                               ![t].n = CHOOSE i \in Available : \A j \in Available : i <= j]
         ELSE NotRemapped(t)
    /\ UNCHANGED <<chip, up, ram, user, replaced>>

\* Mutant: the entry stays available.
take_again(t) ==
    /\ th[t].pc = "take"
    /\ bb_tbl' = [bb_tbl EXCEPT ![th[t].blk] = bmt_tbl[th[t].n].block]
    /\ th' = [th EXCEPT ![t].pc = "rerase", ![t].new = bmt_tbl[th[t].n].block]
    /\ replaced' = replaced \cup {th[t].cur}
    /\ UNCHANGED <<chip, up, bmt_tbl, bmt_blk_idx, user>>

\* The entry is taken and the block mapped, before the data is there.
take_block(t) ==
    /\ th[t].pc = "take"
    /\ bmt_tbl' = [bmt_tbl EXCEPT ![th[t].n].mapped = NORMAL_MAPPED]
    /\ bb_tbl' = [bb_tbl EXCEPT ![th[t].blk] = bmt_tbl[th[t].n].block]
    /\ th' = [th EXCEPT ![t].pc = "rerase", ![t].new = bmt_tbl[th[t].n].block]
    /\ replaced' = replaced \cup {th[t].cur}
    /\ UNCHANGED <<chip, up, bmt_blk_idx, user>>

\* The result of the erasure is not looked at.
remap_erase(t) ==
    /\ th[t].pc = "rerase"
    /\ Erase(th[t].new) \/ (Fails(th[t].new) /\ FailErase(th[t].new))
    /\ Goto(t, "rcopy")
    /\ UNCHANGED <<marked, up, ram, user, replaced>>

\* Mutant: a failed write copies the failed page as well.
copy_len_past(t) ==
    CASE th[t].op = "write" -> th[t].pg [] th[t].op = "erase" -> 0 [] OTHER -> Pages

\* How many pages the caller wants copied.
copy_len(t) ==
    CASE th[t].op = "write" -> th[t].pg - 1 [] th[t].op = "erase" -> 0 [] OTHER -> Pages

\* dst receives the first n pages of src; the pages behind stay as they are.
Copied(dst, src, n) ==
    [q \in PageNo |-> IF q <= n THEN Programmed(nand[dst][q], nand[src][q]) ELSE nand[dst][q]]

\* bbt_nand_copy stops at the first page that cannot be read or programmed,
\* and its callers ignore that.
bbt_nand_copy(dst, src, len) ==
    \E n \in 0..len :
        /\ n = len \/ ReadFails(src) \/ Fails(dst)
        /\ nand' = [nand EXCEPT ![dst] = Copied(dst, src, n)]

remap_copy(t) ==
    /\ th[t].pc = "rcopy"
    /\ bbt_nand_copy(th[t].new, th[t].cur, copy_len(t))
    /\ th' = [th EXCEPT ![t].pc = "uerase", ![t].n = bmt_blk_idx]
    /\ UNCHANGED <<table, marked, up, ram, user, replaced>>

(***************************************************************************)
(* upload_bmt, and what its callers do next                                *)
(***************************************************************************)

\* Mutant: operations are repeated as long as there are blocks.
Retry_unlimited(t) ==
    th' = [th EXCEPT ![t] = [th[t] EXCEPT !.pc = "io", !.retry = @ + 1, !.new = 0, !.n = 0,
                             !.cur = get_mapping_block_index_v2(th[t].blk)]]

\* remap_block_v2 returned true: repeat the operation on the new block, unless
\* that was done MaxRetry times.
Retry(t) ==
    IF th[t].retry < MaxRetry
      THEN th' = [th EXCEPT ![t] = [th[t] EXCEPT !.pc = "io", !.retry = @ + 1, !.new = 0, !.n = 0,
                                    !.cur = get_mapping_block_index_v2(th[t].blk)]]
      ELSE Return(t)

\* upload_bmt returned n.
Uploaded(t, n) ==
    /\ up' = "on"
    /\ bmt_blk_idx' = n
    /\ UNCHANGED <<bb_tbl, bmt_tbl>>
    /\ CASE th[t].op \in {"read", "write", "erase", "isbad"} -> Retry(t)
         [] th[t].op = "markbad" -> Goto(t, "mark")
         [] th[t].op = "repair"  -> Goto(t, "fixup")
         [] OTHER -> Return(t)

\* Nothing of bmtd is left.
Forget ==
    /\ up' = "off"
    /\ bb_tbl' = NoTable.bb
    /\ bmt_tbl' = NoTable.bmt
    /\ bmt_blk_idx' = 0
    /\ th' = [t \in Threads |-> Idle]

\* The block bmt_tbl[n] cannot be used: forget it, try the one before.
NextTry(t) ==
    /\ bmt_tbl' = [bmt_tbl EXCEPT ![th[t].n].block = 0]
    /\ th' = [th EXCEPT ![t].pc = "uerase", ![t].n = @ - 1]
    /\ UNCHANGED <<marked, up, bb_tbl, bmt_blk_idx, user, replaced>>

\* Once upload_bmt has failed, bmt_blk_idx is (u16)-1 and the next upload reads
\* behind the table.  Bound: that is not followed, the upload fails again.
NoSpace(t) ==
    IF th[t].n \in PoolIdx THEN bmt_tbl[th[t].n].mapped = NORMAL_MAPPED ELSE TRUE

upload_fatal(t) ==
    /\ th[t].pc = "uerase"
    /\ NoSpace(t)
    /\ IF th[t].op = "attach" THEN Forget ELSE Uploaded(t, FATAL)
    /\ UNCHANGED <<chip, user, replaced>>

upload_erase(t) ==
    /\ th[t].pc = "uerase"
    /\ ~ NoSpace(t)
    /\ LET b == bmt_tbl[th[t].n].block IN
         \/ /\ Erase(b)
            /\ Goto(t, "uwrite")
            /\ UNCHANGED <<marked, up, ram, user, replaced>>
         \/ /\ Fails(b)
            /\ FailErase(b)
            /\ NextTry(t)

\* Mutant: the table is not written.
upload_write_not(t) ==
    /\ th[t].pc = "uwrite"
    /\ Uploaded(t, th[t].n)
    /\ UNCHANGED <<chip, user, replaced>>

upload_write(t) ==
    /\ th[t].pc = "uwrite"
    /\ LET b == bmt_tbl[th[t].n].block IN
         \/ /\ table' = [table EXCEPT ![b] = [valid |-> TRUE, bb |-> bb_tbl, bmt |-> bmt_tbl]]
            /\ Uploaded(t, th[t].n)
            /\ UNCHANGED <<nand, marked, user, replaced>>
         \/ /\ Fails(b)
            /\ nand' = [nand EXCEPT ![b] = JunkBlock]
            /\ UNCHANGED table
            /\ NextTry(t)

\* The end of mtk_bmt_block_markbad: the old block gets its mark.
markbad_old(t) ==
    /\ th[t].pc = "mark"
    /\ marked' = marked \cup {th[t].cur}
    /\ Return(t)
    /\ UNCHANGED <<nand, table, up, ram, user, replaced>>

(***************************************************************************)
(* debugfs                                                                 *)
(***************************************************************************)

mtk_bmt_debug_mark_bad(t, b) ==
    /\ "debugfs" \in Env
    /\ MayCall(t)
    /\ Call(t, "mark_bad", b, 1, Blank, "pick")
    /\ UNCHANGED <<chip, up, ram, user, replaced>>

\* unmap_block_v2, called for op: the block maps to itself again; its
\* replacement stays taken.
unmap_block_v2(t, op, b) ==
    /\ bb_tbl' = [bb_tbl EXCEPT ![b] = b]
    /\ replaced' = replaced \ {b}
    /\ th' = [th EXCEPT ![t] = [Idle EXCEPT !.pc = "uerase", !.op = op, !.blk = b,
                                            !.cur = get_mapping_block_index_v2(b),
                                            !.n = bmt_blk_idx]]

\* The users get what the original block holds.
mtk_bmt_debug_mark_good(t, b) ==
    /\ "debugfs" \in Env
    /\ MayCall(t)
    /\ unmap_block_v2(t, "mark_good", b)
    /\ user' = [user EXCEPT ![b] = [q \in PageNo |-> Unknown]]
    /\ UNCHANGED <<chip, up, bmt_tbl, bmt_blk_idx>>

mtk_bmt_debug_repair(t, b) ==
    /\ "debugfs" \in Env
    /\ MayCall(t)
    /\ unmap_block_v2(t, "repair", b)
    /\ UNCHANGED <<chip, up, bmt_tbl, bmt_blk_idx, user>>

\* The end of mtk_bmt_debug_repair: the data moves back, unchecked.
repair_copy(t) ==
    /\ th[t].pc = "fixup"
    /\ LET b == get_mapping_block_index_v2(th[t].blk)  prev == th[t].cur IN
         IF prev = b THEN UNCHANGED <<nand, table>>
         ELSE \E n \in 0..Pages, old \in {BlankBlock} \cup {x \in {nand[b], JunkBlock} : Fails(b)} :
                /\ n = Pages \/ ReadFails(prev) \/ Fails(b)
                /\ nand' = [nand EXCEPT ![b] = [q \in PageNo |->
                              IF q <= n THEN Programmed(old[q], nand[prev][q]) ELSE old[q]]]
                /\ table' = [table EXCEPT ![b] = NoTable]
    /\ Return(t)
    /\ UNCHANGED <<marked, up, ram, user, replaced>>

\* Pool entries that bb_tbl refers to.  Block 0 and the PMT are not looked at.
mtk_bmt_get_mapping_mask ==
    {k \in PoolIdx : /\ k < bmt_blk_idx
                     /\ \E i \in Logical \ {0} : bb_tbl[i] # i /\ bb_tbl[i] = bmt_tbl[k].block}

\* "100" written to debug: taken entries that nothing refers to are freed.
mtk_bmt_debug_v2(t) ==
    /\ "debugfs" \in Env
    /\ MayCall(t)
    /\ LET F == {i \in PoolIdx : /\ i <= bmt_blk_idx
                                 /\ bmt_tbl[i].mapped = NORMAL_MAPPED
                                 /\ i \notin mtk_bmt_get_mapping_mask}
       IN /\ F # {}
          /\ bmt_tbl' = [i \in PoolIdx |->
                IF i \in F THEN [bmt_tbl[i] EXCEPT !.mapped = NO_MAPPED] ELSE bmt_tbl[i]]
    /\ th' = [th EXCEPT ![t] = [Idle EXCEPT !.pc = "uerase", !.op = "debug", !.n = bmt_blk_idx]]
    /\ UNCHANGED <<chip, up, bb_tbl, bmt_blk_idx, user, replaced>>

(***************************************************************************)
(* mtk_bmt_attach with mtk_bmt_init_v2, mtk_bmt_detach, loss of power      *)
(***************************************************************************)

\* A table is found on the flash and taken over.
init_load ==
    /\ up = "off"
    /\ \E F \in Unreadable : LET b == FoundBlock(F) IN
         /\ b # 0
         /\ get_bmt_index(table[b].bmt) # 0
         /\ bb_tbl' = table[b].bb
         /\ bmt_tbl' = table[b].bmt
         /\ bmt_blk_idx' = get_bmt_index(table[b].bmt)
    /\ up' = "on"
    /\ UNCHANGED <<chip, th, user, replaced>>

\* There is none, or it has no BMT_MAPPED entry behind the first: the chip is
\* scanned and a new table uploaded.
init_scan(t) ==
    /\ up = "off"
    /\ \E F \in Unreadable : LET bd == marked \cup F IN
         /\ FoundBlock(F) = 0 \/ get_bmt_index(table[FoundBlock(F)].bmt) = 0
         /\ \E bb \in [Lba -> Phys] :
              /\ ScannedBb(bb, bd)
              /\ bb[pool_lba - 1] + 1 < total_blks - 2
              /\ bb_tbl' = bb
              /\ \E po \in [PoolIdx -> Phys] :
                   /\ ScannedPool(po, bb[pool_lba - 1] + 1, bd)
                   /\ LastIdx(po) >= 0
                   /\ bmt_tbl' = [i \in PoolIdx |-> [block |-> po[i],
                          mapped |-> IF i = LastIdx(po) THEN BMT_MAPPED ELSE NO_MAPPED]]
                   /\ bmt_blk_idx' = LastIdx(po)
                   /\ th' = [th EXCEPT ![t] = [Idle EXCEPT !.pc = "uerase", !.op = "attach",
                                                           !.n = LastIdx(po)]]
    /\ up' = "init"
    /\ UNCHANGED <<chip, user, replaced>>

\* Nothing here waits for calls: the driver of the chip takes the mtd away from
\* its users first.
mtk_bmt_detach ==
    /\ up = "on"
    /\ \A t \in Threads : th[t].pc = "idle"
    /\ Forget
    /\ UNCHANGED <<chip, user, replaced>>

\* A block that was about to be programmed with the table holds no table.
crash ==
    /\ "crash" \in Env
    /\ up # "off"
    /\ Forget
    /\ UNCHANGED <<chip, user, replaced>>

Step(t) ==
    \/ io_ok(t) \/ io_flip(t) \/ io_fail(t)
    \/ find_valid_block_in_pool(t) \/ take_block(t) \/ remap_erase(t) \/ remap_copy(t)
    \/ upload_fatal(t) \/ upload_erase(t) \/ upload_write(t)
    \/ markbad_old(t) \/ repair_copy(t)

Next ==
    \/ \E t \in Threads :
         \/ \E b \in Logical :
              \/ \E q \in PageNo : mtk_bmt_read(t, b, q) \/ \E v \in Values : mtk_bmt_write(t, b, q, v)
              \/ mtk_bmt_mtd_erase(t, b) \/ mtk_bmt_block_isbad(t, b) \/ mtk_bmt_block_markbad(t, b)
         \/ \E b \in DebugBlocks :
              \/ mtk_bmt_debug_mark_bad(t, b) \/ mtk_bmt_debug_mark_good(t, b)
              \/ mtk_bmt_debug_repair(t, b)
         \/ mtk_bmt_debug_v2(t)
         \/ init_scan(t)
         \/ Step(t)
    \/ init_load \/ mtk_bmt_detach \/ crash

Spec == Init /\ [][Next]_vars

\* A call that was made is executed to its end.
FairSpec == Spec /\ \A t \in Threads : WF_vars(Step(t))

-----------------------------------------------------------------------------
(***************************************************************************)
(* Properties                                                              *)
(***************************************************************************)

\* The mapped and the pool blocks lie on the chip, bmt_blk_idx inside bmt_tbl
\* or at the error value, the loop counters of the calls in their ranges.
TypeOK ==
    /\ nand \in [Phys -> [PageNo -> Values \cup {Blank, Junk}]]
    /\ table \in [Phys -> [valid : BOOLEAN, bb : [Lba -> Phys],
                           bmt : [PoolIdx -> [block : Phys, mapped : 0..2]]]]
    /\ marked \subseteq Phys
    /\ up \in {"off", "init", "on"}
    /\ bb_tbl \in [Lba -> Phys]
    /\ bmt_tbl \in [PoolIdx -> [block : Phys, mapped : 0..2]]
    /\ bmt_blk_idx \in PoolIdx \cup {FATAL}
    /\ th \in [Threads -> [pc : Labels, op : Ops, blk : Lba, pg : PageNo,
                           val : Values \cup {Blank}, cur : Phys, retry : 0..MaxRetry,
                           new : Phys, n : PoolIdx \cup {-1, FATAL}]]
    /\ user \in [Logical -> [PageNo -> Values \cup {Blank, Unknown}]]
    /\ replaced \subseteq Phys

Map(b) == get_mapping_block_index_v2(b)

\* "If new bad block ocurred(n), search bmt_tbl to find a available block(x),
\* and fill in the bb_tbl[n] = x": a block is given away once.  No two logical
\* blocks share a physical one, none lies on the block of the table or on one
\* that find_valid_block_in_pool may still hand out.
Disjoint ==
    up # "off" =>
      /\ \A a, b \in Lba : Map(a) = Map(b) => a = b
      /\ \A b \in Lba, i \in Available : Map(b) # bmt_tbl[i].block
      /\ \A b \in Lba, i \in PoolIdx :
            i = bmt_blk_idx /\ bmt_tbl[i].block # 0 => Map(b) # bmt_tbl[i].block

Busy(b) == \E t \in Threads : th[t].pc # "idle" /\ th[t].blk = b

\* "if it's a write failure, we need to write the data to mapped block": what
\* the users have written, and no error was reported for, is what they read,
\* however often the block was replaced in the meantime.
Faithful ==
    up = "on" =>
      \A b \in Logical : ~ Busy(b) =>
        \A q \in PageNo : user[b][q] \in {Unknown, nand[Map(b)][q]}

\* "erase failed, try the previous block": when no call is under way, the
\* table that the next attach finds on the flash is the one in memory.
Persistent ==
    up = "on" /\ (\A t \in Threads : th[t].pc = "idle") =>
      LET b == FoundBlock({}) IN
        /\ b # 0
        /\ table[b].bb = bb_tbl /\ table[b].bmt = bmt_tbl
        /\ get_bmt_index(table[b].bmt) = bmt_blk_idx

\* "We met a bad block, mark it as bad and map it to a valid block in pool":
\* a block that was replaced is not used again, after a restart neither.
BadStaysOut ==
    up = "on" => \A b \in Range : bb_tbl[b] \notin replaced

\* No call repeats its operation for ever: the pool or the count runs out.
Terminates == \A t \in Threads : th[t].pc # "idle" ~> th[t].pc = "idle"
=============================================================================
