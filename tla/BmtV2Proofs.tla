---------------------------- MODULE BmtV2Proofs ----------------------------
(***************************************************************************)
(* Theorems about BmtV2, for chips, pools and blocks of any size and any   *)
(* number of threads.                                                      *)
(***************************************************************************)
EXTENDS BmtV2, TLAPS, WellFoundedInduction

Entry   == [block : Phys, mapped : 0..2]
Table   == [valid : BOOLEAN, bb : [Lba -> Phys], bmt : [PoolIdx -> Entry]]
Content == Values \cup {Blank, Junk}
Thread  == [pc : Labels, op : Ops, blk : Lba, pg : PageNo, val : Values \cup {Blank}, cur : Phys,
            retry : 0..MaxRetry, new : Phys, n : PoolIdx \cup {-1, FATAL}]

\* Where a thread uses n as an index it lies inside bmt_tbl.
InPool == \A t \in Threads : th[t].pc \in {"take", "uwrite"} => th[t].n \in PoolIdx

-----------------------------------------------------------------------------
(***************************************************************************)
(* Least and greatest elements                                             *)
(***************************************************************************)

\* A nonempty set of natural numbers has a least element.
LEMMA Least ==
    ASSUME NEW S, S \subseteq Nat, S # {}
    PROVE  \E m \in S : \A n \in S : m <= n
<1> DEFINE R == OpToRel(<, Nat)
<1>1. IsWellFoundedOn(R, Nat)
  BY NatLessThanWellFounded, Zenon
<1> HIDE DEF R
<1>2. PICK x \in S : \A y \in S : ~ (<<y, x>> \in R)
  BY <1>1, WFMin
<1>3. ASSUME NEW y \in S PROVE x <= y
  <2>1. ~ (y < x)
    BY <1>2 DEF R, OpToRel
  <2> QED BY <2>1
<1> QED BY <1>3

\* A nonempty set of natural numbers below a bound has a greatest element.
LEMMA Greatest ==
    ASSUME NEW S, NEW N \in Nat, S \subseteq 0..N, S # {}
    PROVE  \E m \in S : \A n \in S : n <= m
<1> DEFINE D == {k \in 0..N : N - k \in S}
<1>1. D \subseteq Nat /\ D # {}
  <2>1. PICK x \in S : TRUE
    OBVIOUS
  <2>2. N - x \in 0..N /\ N - (N - x) = x
    BY <2>1
  <2>3. N - x \in D
    BY <2>1, <2>2
  <2>4. D \subseteq Nat
    OBVIOUS
  <2> HIDE DEF D
  <2> QED BY <2>3, <2>4
<1>2. PICK k \in D : \A j \in D : k <= j
  <2> HIDE DEF D
  <2> QED BY <1>1, Least
<1>3. N - k \in S
  BY <1>2
<1>4. ASSUME NEW n \in S PROVE n <= N - k
  <2>1. n \in 0..N /\ N - n \in 0..N /\ N - (N - n) = n
    BY <1>4
  <2>2. N - n \in D
    BY <2>1
  <2>3. k <= N - n
    BY <2>2, <1>2
  <2> QED BY <2>1, <2>3, <1>2
<1> QED BY <1>3, <1>4

\* find_valid_block returns a good block at or behind b, or 0.
LEMMA FindValid ==
    ASSUME NEW b \in Nat, NEW bd
    PROVE  \/ find_valid_block(b, bd) = 0
           \/ find_valid_block(b, bd) \in Phys /\ b <= find_valid_block(b, bd)
<1> DEFINE C == {c \in b..(b + bb_max) : Good(c, bd)}
<1>1. CASE C = {}
  BY <1>1 DEF find_valid_block
<1>2. CASE C # {}
  <2>1. C \subseteq Nat /\ C \subseteq Phys /\ \A c \in C : b <= c
    BY LimitAssumption, SizeAssumption DEF Good, Phys
  <2>2. find_valid_block(b, bd) = CHOOSE c \in C : \A d \in C : c <= d
    BY <1>2 DEF find_valid_block
  <2> HIDE DEF C
  <2>3. \E c \in C : \A d \in C : c <= d
    BY <2>1, <1>2, Least
  <2>4. find_valid_block(b, bd) \in C
    BY <2>2, <2>3
  <2> QED BY <2>1, <2>4
<1> QED BY <1>1, <1>2

\* The first free entry is one of the free entries.
LEMMA FirstAvailable ==
    ASSUME Available # {}
    PROVE  (CHOOSE i \in Available : \A j \in Available : i <= j) \in Available
<1>1. Available \subseteq Nat
  BY SizeAssumption DEF Available, PoolIdx
<1> HIDE DEF Available
<1>2. \E i \in Available : \A j \in Available : i <= j
  BY <1>1, Least
<1> QED BY <1>2

\* get_bmt_index returns 0 or an entry that carries the mark.
LEMMA BmtIndex ==
    ASSUME NEW bmt
    PROVE  \/ get_bmt_index(bmt) = 0
           \/ get_bmt_index(bmt) \in PoolIdx /\ bmt[get_bmt_index(bmt)].mapped = BMT_MAPPED
<1> DEFINE C == {i \in PoolIdx : bmt[i].mapped = BMT_MAPPED /\ \A j \in 0..i : bmt[j].block # 0}
<1>1. CASE C = {}
  BY <1>1 DEF get_bmt_index
<1>2. CASE C # {}
  <2>1. C \subseteq Nat
    BY SizeAssumption DEF PoolIdx
  <2>2. get_bmt_index(bmt) = CHOOSE i \in C : \A j \in C : i <= j
    BY <1>2 DEF get_bmt_index
  <2>3. get_bmt_index(bmt) \in C
    <3> HIDE DEF C
    <3>1. \E i \in C : \A j \in C : i <= j
      BY <2>1, <1>2, Least
    <3> QED BY <2>2, <3>1
  <2> QED BY <2>3
<1> QED BY <1>1, <1>2

\* init_v2 takes over a table that is valid.
LEMMA FoundValid ==
    ASSUME NEW F
    PROVE  FoundBlock(F) = 0 \/ (FoundBlock(F) \in Phys /\ table[FoundBlock(F)].valid)
<1> DEFINE C == {b \in Phys : b >= pool_lba /\ table[b].valid /\ b \notin F}
<1>1. CASE C = {}
  BY <1>1 DEF FoundBlock
<1>2. CASE C # {}
  <2>1. C \subseteq 0..(total_blks - 1) /\ total_blks - 1 \in Nat
    BY SizeAssumption DEF Phys
  <2>2. FoundBlock(F) = CHOOSE b \in C : \A c \in C : c <= b
    BY <1>2 DEF FoundBlock
  <2>3. FoundBlock(F) \in C
    <3> HIDE DEF C
    <3>1. \E b \in C : \A c \in C : c <= b
      BY <2>1, <1>2, Greatest
    <3> QED BY <2>2, <3>1
  <2> QED BY <2>3
<1> QED BY <1>1, <1>2

\* LastIdx is the position of the last block of a nonempty list.
LEMMA LastOfPool ==
    ASSUME NEW po \in [PoolIdx -> Phys], LastIdx(po) >= 0
    PROVE  /\ LastIdx(po) \in PoolIdx /\ po[LastIdx(po)] # 0
           /\ \A j \in PoolIdx : LastIdx(po) < j => po[j] = 0
<1> DEFINE C == {i \in PoolIdx : po[i] # 0}
<1>1. po[0] # 0
  BY DEF LastIdx
<1>2. C \subseteq 0..(total_blks - pool_lba - 1) /\ total_blks - pool_lba - 1 \in Nat /\ 0 \in C
  BY <1>1, SizeAssumption DEF PoolIdx
<1>3. PICK m \in C : \A i \in C : i <= m
  <2> HIDE DEF C
  <2> QED BY <1>2, Greatest
<1>4. m \in PoolIdx /\ po[m] # 0 /\ \A j \in PoolIdx : m < j => po[j] = 0
  <2>1. ASSUME NEW j \in PoolIdx, m < j, po[j] # 0 PROVE FALSE
    <3>1. j <= m
      BY <2>1, <1>3
    <3> QED BY <3>1, <2>1, <1>2, <1>3
  <2> QED BY <2>1, <1>3
<1> DEFINE P(i) == po[i] # 0 /\ \A j \in PoolIdx : i < j => po[j] = 0
<1>5. LastIdx(po) = CHOOSE i \in PoolIdx : P(i)
  BY <1>1 DEF LastIdx
<1>6. \E i \in PoolIdx : P(i)
  BY <1>4
<1>7. LastIdx(po) \in PoolIdx /\ P(LastIdx(po))
  <2> HIDE DEF P
  <2> QED BY <1>5, <1>6
<1> QED BY <1>7

-----------------------------------------------------------------------------
(***************************************************************************)
(* Type correctness                                                        *)
(***************************************************************************)

LEMMA Constants ==
    /\ 0 \in Phys /\ 0 \in Lba /\ 0 \in PoolIdx /\ 1 \in PageNo /\ 0 \in 0..MaxRetry
    /\ Logical \subseteq Lba /\ DebugBlocks \subseteq Logical /\ Lba \subseteq Phys
    /\ PoolIdx \subseteq Nat /\ FATAL \notin PoolIdx /\ -1 \notin PoolIdx
    /\ \A i \in PoolIdx : i - 1 \in PoolIdx \cup {-1, FATAL}
    /\ Range \subseteq Lba
BY SizeAssumption, PagesAssumption, LimitAssumption, BlocksAssumption
   DEF Phys, Lba, Logical, PoolIdx, PageNo, FATAL

LEMMA InitialTypes ==
    /\ Idle \in Thread
    /\ NoTable \in Table
    /\ BlankBlock \in [PageNo -> Content] /\ JunkBlock \in [PageNo -> Content]
    /\ BlankBlock \in [PageNo -> Values \cup {Blank, Unknown}]
    /\ [q \in PageNo |-> Unknown] \in [PageNo -> Values \cup {Blank, Unknown}]
BY Constants DEF Idle, Thread, Labels, Ops, NoTable, Table, Entry, BlankBlock, JunkBlock, Content,
                 NO_MAPPED

\* TypeOK in terms of the sets of this module.
LEMMA TypeOKParts ==
    TypeOK <=> /\ nand \in [Phys -> [PageNo -> Content]]
               /\ table \in [Phys -> Table]
               /\ marked \subseteq Phys
               /\ up \in {"off", "init", "on"}
               /\ bb_tbl \in [Lba -> Phys]
               /\ bmt_tbl \in [PoolIdx -> Entry]
               /\ bmt_blk_idx \in PoolIdx \cup {FATAL}
               /\ th \in [Threads -> Thread]
               /\ user \in [Logical -> [PageNo -> Values \cup {Blank, Unknown}]]
               /\ replaced \subseteq Phys
BY DEF TypeOK, Content, Table, Entry, Thread

LEMMA InitTypeOK == Init => TypeOK /\ InPool
<1> SUFFICES ASSUME Init PROVE TypeOK /\ InPool
  OBVIOUS
<1>1. NoTable.bb \in [Lba -> Phys] /\ NoTable.bmt \in [PoolIdx -> Entry]
  BY InitialTypes DEF Table
<1>2. marked \subseteq Phys
  BY BlocksAssumption, SizeAssumption DEF Init, Phys
<1>3. TypeOK
  <2> QED BY <1>1, <1>2, InitialTypes, Constants, TypeOKParts DEF Init
<1>4. InPool
  BY DEF Init, InPool, Idle
<1> QED BY <1>3, <1>4

\* Looking up a mapping yields a physical block.
LEMMA MappingType ==
    ASSUME TypeOK, NEW b \in Lba
    PROVE  get_mapping_block_index_v2(b) \in Phys
BY Constants DEF TypeOK, get_mapping_block_index_v2

\* A thread's record after one of the field updates of the actions.
LEMMA ThreadUpdates ==
    ASSUME NEW r \in Thread, NEW pc \in Labels
    PROVE  /\ [r EXCEPT !.pc = pc] \in Thread
           /\ \A op \in Ops : [r EXCEPT !.pc = pc, !.op = op] \in Thread
           /\ \A n \in PoolIdx \cup {-1, FATAL} : [r EXCEPT !.pc = pc, !.n = n] \in Thread
           /\ \A n \in Phys : [r EXCEPT !.pc = pc, !.new = n] \in Thread
BY DEF Thread

\* A step of thread t that leaves it with the record r.
LEMMA ThreadStep ==
    ASSUME TypeOK, InPool, NEW t \in Threads, NEW r \in Thread,
           r.pc \in {"take", "uwrite"} => r.n \in PoolIdx,
           th' = [th EXCEPT ![t] = r]
    PROVE  th' \in [Threads -> Thread] /\ InPool'
BY TypeOKParts DEF InPool

LEMMA GotoStep ==
    ASSUME TypeOK, InPool, NEW t \in Threads, NEW pc \in Labels, Goto(t, pc),
           pc \in {"take", "uwrite"} => th[t].n \in PoolIdx
    PROVE  th' \in [Threads -> Thread] /\ InPool'
<1> DEFINE r == [th[t] EXCEPT !.pc = pc]
<1>1. th[t] \in Thread
  BY TypeOKParts
<1>2. r \in Thread
  BY <1>1, ThreadUpdates
<1>3. th' = [th EXCEPT ![t] = r]
  BY DEF Goto
<1>4. r.pc = pc /\ r.n = th[t].n
  BY <1>1 DEF Thread
<1> HIDE DEF r
<1> QED BY <1>2, <1>3, <1>4, ThreadStep

LEMMA ReturnStep ==
    ASSUME TypeOK, InPool, NEW t \in Threads, Return(t)
    PROVE  th' \in [Threads -> Thread] /\ InPool'
<1>1. Idle.pc = "idle"
  BY DEF Idle
<1> QED BY <1>1, InitialTypes, ThreadStep DEF Return

LEMMA CallStep ==
    ASSUME TypeOK, InPool, NEW t \in Threads, NEW op \in Ops, NEW b \in Lba, NEW q \in PageNo,
           NEW v \in Values \cup {Blank}, NEW pc \in {"io", "pick"}, Call(t, op, b, q, v, pc)
    PROVE  th' \in [Threads -> Thread] /\ InPool'
<1> DEFINE r == [Idle EXCEPT !.pc = pc, !.op = op, !.blk = b, !.pg = q, !.val = v,
                             !.cur = get_mapping_block_index_v2(b)]
<1>1. get_mapping_block_index_v2(b) \in Phys
  BY MappingType
<1>2. r \in Thread /\ r.pc = pc
  BY <1>1, InitialTypes DEF Thread, Idle, Labels
<1>3. th' = [th EXCEPT ![t] = r]
  BY DEF Call
<1> HIDE DEF r
<1> QED BY <1>2, <1>3, ThreadStep

LEMMA EraseType ==
    ASSUME TypeOK, NEW b \in Phys, Erase(b) \/ FailErase(b)
    PROVE  nand' \in [Phys -> [PageNo -> Content]] /\ table' \in [Phys -> Table]
<1>1. nand \in [Phys -> [PageNo -> Content]] /\ table \in [Phys -> Table]
  BY TypeOKParts
<1>2. \A c \in [PageNo -> Content] : [nand EXCEPT ![b] = c] \in [Phys -> [PageNo -> Content]]
  BY <1>1
<1>3. [table EXCEPT ![b] = NoTable] \in [Phys -> Table]
  BY <1>1, InitialTypes
<1> QED BY <1>1, <1>2, <1>3, InitialTypes DEF Erase, FailErase

\* The calls.
LEMMA CallsType ==
    ASSUME TypeOK, InPool, NEW t \in Threads, NEW b \in Logical,
           \/ \E q \in PageNo : mtk_bmt_read(t, b, q) \/ \E v \in Values : mtk_bmt_write(t, b, q, v)
           \/ mtk_bmt_mtd_erase(t, b) \/ mtk_bmt_block_isbad(t, b) \/ mtk_bmt_block_markbad(t, b)
           \/ mtk_bmt_debug_mark_bad(t, b)
    PROVE  TypeOK' /\ InPool'
<1>0. b \in Lba /\ 1 \in PageNo
  BY Constants
<1>1. th' \in [Threads -> Thread] /\ InPool'
  <2>1. ASSUME NEW q \in PageNo, mtk_bmt_read(t, b, q) PROVE th' \in [Threads -> Thread] /\ InPool'
    <3>1. Call(t, "read", b, q, Blank, "io") /\ "read" \in Ops
      BY <2>1 DEF mtk_bmt_read, Ops
    <3> QED BY <3>1, <1>0, CallStep
  <2>2. ASSUME NEW q \in PageNo, NEW v \in Values, mtk_bmt_write(t, b, q, v)
        PROVE th' \in [Threads -> Thread] /\ InPool'
    <3>1. Call(t, "write", b, q, v, "io") /\ "write" \in Ops
      BY <2>2 DEF mtk_bmt_write, Ops
    <3> QED BY <3>1, <1>0, CallStep
  <2>3. ASSUME mtk_bmt_mtd_erase(t, b) PROVE th' \in [Threads -> Thread] /\ InPool'
    <3>1. Call(t, "erase", b, 1, Blank, "io") /\ "erase" \in Ops
      BY <2>3 DEF mtk_bmt_mtd_erase, Ops
    <3> QED BY <3>1, <1>0, CallStep
  <2>4. ASSUME mtk_bmt_block_isbad(t, b) PROVE th' \in [Threads -> Thread] /\ InPool'
    <3>1. Call(t, "isbad", b, 1, Blank, "io") /\ "isbad" \in Ops
      BY <2>4 DEF mtk_bmt_block_isbad, Ops
    <3> QED BY <3>1, <1>0, CallStep
  <2>5. ASSUME mtk_bmt_block_markbad(t, b) PROVE th' \in [Threads -> Thread] /\ InPool'
    <3>1. Call(t, "markbad", b, 1, Blank, "pick") /\ "markbad" \in Ops
      BY <2>5 DEF mtk_bmt_block_markbad, Ops
    <3> QED BY <3>1, <1>0, CallStep
  <2>6. ASSUME mtk_bmt_debug_mark_bad(t, b) PROVE th' \in [Threads -> Thread] /\ InPool'
    <3>1. Call(t, "mark_bad", b, 1, Blank, "pick") /\ "mark_bad" \in Ops
      BY <2>6 DEF mtk_bmt_debug_mark_bad, Ops
    <3> QED BY <3>1, <1>0, CallStep
  <2> QED BY <2>1, <2>2, <2>3, <2>4, <2>5, <2>6
<1>2. UNCHANGED <<nand, table, marked, up, bb_tbl, bmt_tbl, bmt_blk_idx, replaced>>
  BY DEF mtk_bmt_read, mtk_bmt_write, mtk_bmt_mtd_erase, mtk_bmt_block_isbad,
         mtk_bmt_block_markbad, mtk_bmt_debug_mark_bad, chip, ram
<1>3. user' \in [Logical -> [PageNo -> Values \cup {Blank, Unknown}]]
  BY TypeOKParts DEF mtk_bmt_read, mtk_bmt_write, mtk_bmt_mtd_erase, mtk_bmt_block_isbad,
         mtk_bmt_block_markbad, mtk_bmt_debug_mark_bad
<1> QED BY <1>1, <1>2, <1>3, TypeOKParts DEF TypeOK, Content, Table, Entry, Thread

\* The accesses to the chip.
LEMMA IoType ==
    ASSUME TypeOK, InPool, NEW t \in Threads, io_ok(t) \/ io_flip(t) \/ io_fail(t)
    PROVE  TypeOK' /\ InPool'
<1>0. /\ th[t] \in Thread /\ th[t].cur \in Phys /\ th[t].pg \in PageNo /\ th[t].val \in Values \cup {Blank}
      /\ nand \in [Phys -> [PageNo -> Content]]
      /\ user \in [Logical -> [PageNo -> Values \cup {Blank, Unknown}]]
      /\ table \in [Phys -> Table]
  BY TypeOKParts DEF Thread
<1>1. th' \in [Threads -> Thread] /\ InPool'
  <2>1. CASE io_ok(t)
    <3>1. Return(t)
      BY <2>1 DEF io_ok
    <3> QED BY <3>1, ReturnStep
  <2>2. CASE io_fail(t)
    <3>1. Goto(t, "pick") /\ "pick" \in Labels
      BY <2>2 DEF io_fail, Labels
    <3> QED BY <3>1, GotoStep
  <2>3. CASE io_flip(t)
    <3> DEFINE r == [th[t] EXCEPT !.pc = "pick", !.op = "flip"]
    <3>1. r \in Thread /\ r.pc = "pick"
      BY <1>0 DEF Thread, Labels, Ops
    <3>2. th' = [th EXCEPT ![t] = r]
      BY <2>3, TypeOKParts DEF io_flip
    <3> HIDE DEF r
    <3> QED BY <3>1, <3>2, ThreadStep
  <2> QED BY <2>1, <2>2, <2>3
<1>2. UNCHANGED <<marked, up, bb_tbl, bmt_tbl, bmt_blk_idx, replaced>>
  BY DEF io_ok, io_flip, io_fail, chip, ram
<1>3. /\ nand' \in [Phys -> [PageNo -> Content]] /\ table' \in [Phys -> Table]
      /\ user' \in [Logical -> [PageNo -> Values \cup {Blank, Unknown}]]
  <2>1. CASE UNCHANGED <<nand, table, user>>
    BY <2>1, <1>0
  <2>2. CASE /\ nand' = [nand EXCEPT ![th[t].cur][th[t].pg] = Programmed(@, th[t].val)]
             /\ user' = [user EXCEPT ![th[t].blk][th[t].pg] = th[t].val]
             /\ UNCHANGED table
    <3>1. Programmed(nand[th[t].cur][th[t].pg], th[t].val) \in Content
      BY <1>0 DEF Programmed, Content
    <3> QED BY <2>2, <3>1, <1>0
  <2>3. CASE Erase(th[t].cur) /\ user' = [user EXCEPT ![th[t].blk] = BlankBlock]
    <3>1. user' \in [Logical -> [PageNo -> Values \cup {Blank, Unknown}]]
      BY <2>3, <1>0, InitialTypes
    <3> QED BY <2>3, <3>1, <1>0, EraseType
  <2>4. CASE /\ user' = [user EXCEPT ![th[t].blk] = [r \in PageNo |-> Unknown]]
             /\ UNCHANGED <<nand, table>>
    BY <2>4, <1>0, InitialTypes
  <2>5. CASE nand' = [nand EXCEPT ![th[t].cur][th[t].pg] = Junk] /\ UNCHANGED <<user, table>>
    BY <2>5, <1>0 DEF Content
  <2>6. CASE FailErase(th[t].cur) /\ UNCHANGED user
    BY <2>6, <1>0, EraseType
  <2> QED BY <2>1, <2>2, <2>3, <2>4, <2>5, <2>6 DEF io_ok, io_flip, io_fail, chip
<1> QED BY <1>1, <1>2, <1>3, TypeOKParts DEF TypeOK, Content, Table, Entry, Thread

\* Copying from one block to another.
LEMMA CopyType ==
    ASSUME TypeOK, NEW dst \in Phys, NEW src \in Phys, NEW len, bbt_nand_copy(dst, src, len)
    PROVE  nand' \in [Phys -> [PageNo -> Content]]
<1>0. nand \in [Phys -> [PageNo -> Content]]
  BY TypeOKParts
<1>1. PICK n : nand' = [nand EXCEPT ![dst] = Copied(dst, src, n)]
  BY DEF bbt_nand_copy
<1>2. Copied(dst, src, n) \in [PageNo -> Content]
  BY <1>0 DEF Copied, Programmed, Content
<1> QED BY <1>0, <1>1, <1>2

LEMMA RemapType ==
    ASSUME TypeOK, InPool, NEW t \in Threads,
           find_valid_block_in_pool(t) \/ take_block(t) \/ remap_erase(t) \/ remap_copy(t)
    PROVE  TypeOK' /\ InPool'
<1>0. /\ th[t] \in Thread /\ th[t].cur \in Phys /\ th[t].new \in Phys /\ th[t].blk \in Lba
      /\ th \in [Threads -> Thread]
  BY TypeOKParts DEF Thread
<1>1. CASE find_valid_block_in_pool(t)
  <2>1. th' \in [Threads -> Thread] /\ InPool'
    <3>1. CASE th[t].blk \in Range /\ Available # {}
      <4> DEFINE m == CHOOSE i \in Available : \A j \in Available : i <= j
      <4>1. m \in PoolIdx
        BY <3>1, FirstAvailable DEF Available
      <4>2. th' = [th EXCEPT ![t].pc = "take", ![t].n = m]
        BY <1>1, <3>1 DEF find_valid_block_in_pool
      <4> HIDE DEF m
      <4> DEFINE r == [th[t] EXCEPT !.pc = "take", !.n = m]
      <4>3. r \in Thread /\ r.n = m
        BY <1>0, <4>1 DEF Thread, Labels
      <4>4. th' = [th EXCEPT ![t] = r]
        BY <4>2, <1>0
      <4> HIDE DEF r
      <4> QED BY <4>1, <4>3, <4>4, ThreadStep
    <3>2. CASE ~ (th[t].blk \in Range /\ Available # {})
      <4>1. Goto(t, "mark") \/ Return(t)
        BY <1>1, <3>2 DEF find_valid_block_in_pool, NotRemapped
      <4>2. "mark" \in Labels
        BY DEF Labels
      <4> QED BY <4>1, <4>2, GotoStep, ReturnStep
    <3> QED BY <3>1, <3>2
  <2>2. UNCHANGED <<nand, table, marked, up, bb_tbl, bmt_tbl, bmt_blk_idx, user, replaced>>
    BY <1>1 DEF find_valid_block_in_pool, chip, ram
  <2> QED BY <2>1, <2>2 DEF TypeOK, Content, Table, Entry, Thread
<1>2. CASE take_block(t)
  <2>1. th[t].n \in PoolIdx /\ bmt_tbl[th[t].n] \in Entry /\ bmt_tbl[th[t].n].block \in Phys
    BY <1>2, TypeOKParts DEF take_block, InPool, Entry
  <2> DEFINE r == [th[t] EXCEPT !.pc = "rerase", !.new = bmt_tbl[th[t].n].block]
  <2>2. r \in Thread /\ r.pc = "rerase"
    BY <1>0, <2>1 DEF Thread, Labels
  <2>3. th' = [th EXCEPT ![t] = r]
    BY <1>2, <1>0 DEF take_block
  <2>4. th' \in [Threads -> Thread] /\ InPool'
    <3> HIDE DEF r
    <3> QED BY <2>2, <2>3, ThreadStep
  <2>5. bb_tbl' \in [Lba -> Phys] /\ bmt_tbl' \in [PoolIdx -> Entry] /\ replaced' \subseteq Phys
    <3>1. [bmt_tbl[th[t].n] EXCEPT !.mapped = NORMAL_MAPPED] \in Entry
      BY <2>1 DEF Entry, NORMAL_MAPPED
    <3>2. bmt_tbl' = [bmt_tbl EXCEPT ![th[t].n] = [bmt_tbl[th[t].n] EXCEPT !.mapped = NORMAL_MAPPED]]
      BY <1>2 DEF take_block
    <3> QED BY <1>2, <2>1, <1>0, <3>1, <3>2, TypeOKParts DEF take_block
  <2>6. UNCHANGED <<nand, table, marked, up, bmt_blk_idx, user>>
    BY <1>2 DEF take_block, chip
  <2> QED BY <2>4, <2>5, <2>6 DEF TypeOK, Content, Table, Entry, Thread
<1>3. CASE remap_erase(t)
  <2>1. Goto(t, "rcopy") /\ "rcopy" \in Labels
    BY <1>3 DEF remap_erase, Labels
  <2>2. th' \in [Threads -> Thread] /\ InPool'
    BY <2>1, GotoStep
  <2>3. nand' \in [Phys -> [PageNo -> Content]] /\ table' \in [Phys -> Table]
    BY <1>3, <1>0, EraseType DEF remap_erase
  <2>4. UNCHANGED <<marked, up, bb_tbl, bmt_tbl, bmt_blk_idx, user, replaced>>
    BY <1>3 DEF remap_erase, ram
  <2> QED BY <2>2, <2>3, <2>4 DEF TypeOK, Content, Table, Entry, Thread
<1>4. CASE remap_copy(t)
  <2> DEFINE r == [th[t] EXCEPT !.pc = "uerase", !.n = bmt_blk_idx]
  <2>1. bmt_blk_idx \in PoolIdx \cup {-1, FATAL}
    BY TypeOKParts
  <2>2. r \in Thread /\ r.pc = "uerase"
    BY <1>0, <2>1 DEF Thread, Labels
  <2>3. th' = [th EXCEPT ![t] = r]
    BY <1>4, <1>0 DEF remap_copy
  <2>4. th' \in [Threads -> Thread] /\ InPool'
    <3> HIDE DEF r
    <3> QED BY <2>2, <2>3, ThreadStep
  <2>5. nand' \in [Phys -> [PageNo -> Content]]
    BY <1>4, <1>0, CopyType DEF remap_copy
  <2>6. UNCHANGED <<table, marked, up, bb_tbl, bmt_tbl, bmt_blk_idx, user, replaced>>
    BY <1>4 DEF remap_copy, ram
  <2> QED BY <2>4, <2>5, <2>6 DEF TypeOK, Content, Table, Entry, Thread
<1> QED BY <1>1, <1>2, <1>3, <1>4

\* What the callers of upload_bmt do next.
LEMMA UploadedType ==
    ASSUME TypeOK, InPool, NEW t \in Threads, NEW n, Uploaded(t, n)
    PROVE  th' \in [Threads -> Thread] /\ InPool'
<1>0. th[t] \in Thread /\ th[t].blk \in Lba
  BY TypeOKParts DEF Thread
<1>1. CASE Retry(t)
  <2>1. CASE th[t].retry < MaxRetry
    <3> DEFINE r == [th[t] EXCEPT !.pc = "io", !.retry = @ + 1, !.new = 0, !.n = 0,
                                  !.cur = get_mapping_block_index_v2(th[t].blk)]
    <3>1. get_mapping_block_index_v2(th[t].blk) \in Phys
      BY <1>0, MappingType
    <3>2. th[t].retry + 1 \in 0..MaxRetry
      BY <1>0, <2>1, LimitAssumption DEF Thread
    <3>3. r \in Thread /\ r.pc = "io"
      BY <1>0, <3>1, <3>2, Constants DEF Thread, Labels
    <3>4. th' = [th EXCEPT ![t] = r]
      BY <1>1, <2>1 DEF Retry
    <3> HIDE DEF r
    <3> QED BY <3>3, <3>4, ThreadStep
  <2>2. CASE ~ (th[t].retry < MaxRetry)
    <3>1. Return(t)
      BY <1>1, <2>2 DEF Retry
    <3> QED BY <3>1, ReturnStep
  <2> QED BY <2>1, <2>2
<1>2. CASE Goto(t, "mark")
  BY <1>2, GotoStep DEF Labels
<1>3. CASE Goto(t, "fixup")
  BY <1>3, GotoStep DEF Labels
<1>4. CASE Return(t)
  BY <1>4, ReturnStep
<1> QED BY <1>1, <1>2, <1>3, <1>4 DEF Uploaded

\* The block of an entry is given up.
LEMMA NextTryType ==
    ASSUME TypeOK, InPool, NEW t \in Threads, th[t].n \in PoolIdx, NextTry(t)
    PROVE  /\ th' \in [Threads -> Thread] /\ InPool'
           /\ bmt_tbl' \in [PoolIdx -> Entry]
<1>0. th[t] \in Thread /\ bmt_tbl \in [PoolIdx -> Entry] /\ bmt_tbl[th[t].n] \in Entry
  BY TypeOKParts
<1> DEFINE r == [th[t] EXCEPT !.pc = "uerase", !.n = @ - 1]
<1>1. r \in Thread /\ r.pc = "uerase"
  BY <1>0, Constants DEF Thread, Labels
<1>2. th' = [th EXCEPT ![t] = r]
  BY <1>0, TypeOKParts DEF NextTry
<1>3. th' \in [Threads -> Thread] /\ InPool'
  <2> HIDE DEF r
  <2> QED BY <1>1, <1>2, ThreadStep
<1>4. [bmt_tbl[th[t].n] EXCEPT !.block = 0] \in Entry
  BY <1>0, Constants DEF Entry
<1>5. bmt_tbl' = [bmt_tbl EXCEPT ![th[t].n] = [bmt_tbl[th[t].n] EXCEPT !.block = 0]]
  BY DEF NextTry
<1> QED BY <1>0, <1>3, <1>4, <1>5

LEMMA ForgetType ==
    ASSUME Forget
    PROVE  /\ th' \in [Threads -> Thread] /\ InPool'
           /\ bb_tbl' \in [Lba -> Phys] /\ bmt_tbl' \in [PoolIdx -> Entry]
           /\ bmt_blk_idx' \in PoolIdx \cup {FATAL} /\ up' = "off"
<1>1. NoTable.bb \in [Lba -> Phys] /\ NoTable.bmt \in [PoolIdx -> Entry]
  BY InitialTypes DEF Table
<1>2. InPool'
  BY DEF Forget, InPool, Idle
<1> QED BY <1>1, <1>2, InitialTypes, Constants DEF Forget

LEMMA UploadType ==
    ASSUME TypeOK, InPool, NEW t \in Threads,
           upload_fatal(t) \/ upload_erase(t) \/ upload_write(t)
    PROVE  TypeOK' /\ InPool'
<1>0. th[t] \in Thread /\ bmt_tbl \in [PoolIdx -> Entry] /\ table \in [Phys -> Table]
  BY TypeOKParts
<1>1. CASE upload_fatal(t)
  <2>1. CASE Forget
    <3>1. UNCHANGED <<nand, table, marked, user, replaced>>
      BY <1>1 DEF upload_fatal, chip
    <3> QED BY <2>1, <3>1, ForgetType DEF TypeOK, Content, Table, Entry, Thread
  <2>2. CASE Uploaded(t, FATAL)
    <3>1. UNCHANGED <<nand, table, marked, user, replaced, bb_tbl, bmt_tbl>>
      BY <1>1, <2>2 DEF upload_fatal, chip, Uploaded
    <3>2. up' = "on" /\ bmt_blk_idx' = FATAL
      BY <2>2 DEF Uploaded
    <3>3. th' \in [Threads -> Thread] /\ InPool'
      BY <2>2, UploadedType
    <3> QED BY <3>1, <3>2, <3>3 DEF TypeOK, Content, Table, Entry, Thread
  <2> QED BY <1>1, <2>1, <2>2 DEF upload_fatal
<1>2. CASE upload_erase(t)
  <2>1. th[t].n \in PoolIdx
    BY <1>2 DEF upload_erase, NoSpace
  <2> DEFINE b == bmt_tbl[th[t].n].block
  <2>2. b \in Phys
    BY <2>1, <1>0 DEF Entry
  <2>3. CASE Erase(b) /\ Goto(t, "uwrite") /\ UNCHANGED <<marked, up, ram, user, replaced>>
    <3>1. th' \in [Threads -> Thread] /\ InPool'
      BY <2>1, <2>3, GotoStep DEF Labels
    <3>2. nand' \in [Phys -> [PageNo -> Content]] /\ table' \in [Phys -> Table]
      BY <2>2, <2>3, EraseType
    <3> QED BY <2>3, <3>1, <3>2 DEF TypeOK, Content, Table, Entry, Thread, ram
  <2>4. CASE FailErase(b) /\ NextTry(t)
    <3>1. /\ th' \in [Threads -> Thread] /\ InPool' /\ bmt_tbl' \in [PoolIdx -> Entry]
      BY <2>1, <2>4, NextTryType
    <3>2. nand' \in [Phys -> [PageNo -> Content]] /\ table' \in [Phys -> Table]
      BY <2>2, <2>4, EraseType
    <3>3. UNCHANGED <<marked, up, bb_tbl, bmt_blk_idx, user, replaced>>
      BY <2>4 DEF NextTry
    <3> QED BY <3>1, <3>2, <3>3 DEF TypeOK, Content, Table, Entry, Thread
  <2> QED BY <1>2, <2>3, <2>4 DEF upload_erase
<1>3. CASE upload_write(t)
  <2>1. th[t].n \in PoolIdx
    BY <1>3 DEF upload_write, InPool
  <2> DEFINE b == bmt_tbl[th[t].n].block
             w == [valid |-> TRUE, bb |-> bb_tbl, bmt |-> bmt_tbl]
  <2>2. b \in Phys
    BY <2>1, <1>0 DEF Entry
  <2>3. CASE /\ table' = [table EXCEPT ![b] = w]
             /\ Uploaded(t, th[t].n)
             /\ UNCHANGED <<nand, marked, user, replaced>>
    <3>1. w \in Table
      BY TypeOKParts DEF Table
    <3>2. table' \in [Phys -> Table]
      <4> HIDE DEF w, b
      <4> QED BY <3>1, <2>3, <1>0
    <3>3. th' \in [Threads -> Thread] /\ InPool'
      BY <2>3, UploadedType
    <3>4. up' = "on" /\ bmt_blk_idx' = th[t].n /\ UNCHANGED <<bb_tbl, bmt_tbl>>
      BY <2>3 DEF Uploaded
    <3> HIDE DEF w, b
    <3> QED BY <2>1, <2>3, <3>2, <3>3, <3>4 DEF TypeOK, Content, Table, Entry, Thread
  <2>4. CASE /\ nand' = [nand EXCEPT ![b] = JunkBlock]
             /\ UNCHANGED table
             /\ NextTry(t)
    <3>1. /\ th' \in [Threads -> Thread] /\ InPool' /\ bmt_tbl' \in [PoolIdx -> Entry]
      BY <2>1, <2>4, NextTryType
    <3>2. nand' \in [Phys -> [PageNo -> Content]]
      BY <2>2, <2>4, InitialTypes, TypeOKParts
    <3>3. UNCHANGED <<marked, up, bb_tbl, bmt_blk_idx, user, replaced>>
      BY <2>4 DEF NextTry
    <3> QED BY <2>4, <3>1, <3>2, <3>3 DEF TypeOK, Content, Table, Entry, Thread
  <2> QED BY <1>3, <2>3, <2>4 DEF upload_write
<1> QED BY <1>1, <1>2, <1>3

LEMMA UnmapType ==
    ASSUME TypeOK, InPool, NEW t \in Threads, NEW op \in Ops, NEW b \in Logical,
           unmap_block_v2(t, op, b)
    PROVE  /\ th' \in [Threads -> Thread] /\ InPool'
           /\ bb_tbl' \in [Lba -> Phys] /\ replaced' \subseteq Phys
<1>0. b \in Lba /\ b \in Phys
  BY Constants
<1> DEFINE r == [Idle EXCEPT !.pc = "uerase", !.op = op, !.blk = b,
                             !.cur = get_mapping_block_index_v2(b), !.n = bmt_blk_idx]
<1>1. get_mapping_block_index_v2(b) \in Phys /\ bmt_blk_idx \in PoolIdx \cup {-1, FATAL}
  BY <1>0, MappingType, TypeOKParts
<1>2. r \in Thread /\ r.pc = "uerase"
  BY <1>0, <1>1, InitialTypes DEF Thread, Idle, Labels
<1>3. th' = [th EXCEPT ![t] = r]
  BY DEF unmap_block_v2
<1>4. th' \in [Threads -> Thread] /\ InPool'
  <2> HIDE DEF r
  <2> QED BY <1>2, <1>3, ThreadStep
<1> QED BY <1>0, <1>4, TypeOKParts DEF unmap_block_v2

\* The rest of markbad and of debugfs.
LEMMA DebugType ==
    ASSUME TypeOK, InPool, NEW t \in Threads, NEW b \in Logical,
           \/ markbad_old(t) \/ repair_copy(t) \/ mtk_bmt_debug_v2(t)
           \/ mtk_bmt_debug_mark_good(t, b) \/ mtk_bmt_debug_repair(t, b)
    PROVE  TypeOK' /\ InPool'
<1>0. /\ th[t] \in Thread /\ th[t].cur \in Phys /\ th[t].blk \in Lba
      /\ nand \in [Phys -> [PageNo -> Content]] /\ table \in [Phys -> Table]
      /\ bmt_tbl \in [PoolIdx -> Entry]
  BY TypeOKParts DEF Thread
<1>1. CASE markbad_old(t)
  <2>1. th' \in [Threads -> Thread] /\ InPool'
    BY <1>1, ReturnStep DEF markbad_old
  <2>2. marked' \subseteq Phys
    BY <1>0, <1>1, TypeOKParts DEF markbad_old
  <2> QED BY <1>1, <2>1, <2>2 DEF markbad_old, ram, TypeOK, Content, Table, Entry, Thread
<1>2. CASE repair_copy(t)
  <2>1. th' \in [Threads -> Thread] /\ InPool'
    BY <1>2, ReturnStep DEF repair_copy
  <2> DEFINE d == get_mapping_block_index_v2(th[t].blk)
  <2>2. d \in Phys
    BY <1>0, MappingType
  <2>3. nand' \in [Phys -> [PageNo -> Content]] /\ table' \in [Phys -> Table]
    <3>1. CASE th[t].cur = d
      BY <1>0, <1>2, <3>1 DEF repair_copy
    <3>2. CASE th[t].cur # d
      <4>1. PICK n \in 0..Pages, old \in {BlankBlock, nand[d], JunkBlock} :
              /\ nand' = [nand EXCEPT ![d] = [q \in PageNo |->
                              IF q <= n THEN Programmed(old[q], nand[th[t].cur][q]) ELSE old[q]]]
              /\ table' = [table EXCEPT ![d] = NoTable]
        BY <1>2, <3>2 DEF repair_copy
      <4> HIDE DEF d
      <4>2. old \in [PageNo -> Content]
        BY <2>2, <1>0, InitialTypes
      <4>3. [q \in PageNo |-> IF q <= n THEN Programmed(old[q], nand[th[t].cur][q]) ELSE old[q]]
              \in [PageNo -> Content]
        BY <4>2, <1>0 DEF Programmed, Content
      <4> QED BY <4>1, <4>3, <2>2, <1>0, InitialTypes
    <3> QED BY <3>1, <3>2
  <2>4. UNCHANGED <<marked, up, bb_tbl, bmt_tbl, bmt_blk_idx, user, replaced>>
    BY <1>2 DEF repair_copy, ram
  <2> QED BY <2>1, <2>3, <2>4 DEF TypeOK, Content, Table, Entry, Thread
<1>3. CASE mtk_bmt_debug_v2(t)
  <2> DEFINE r == [Idle EXCEPT !.pc = "uerase", !.op = "debug", !.n = bmt_blk_idx]
  <2>1. bmt_blk_idx \in PoolIdx \cup {-1, FATAL}
    BY TypeOKParts
  <2>2. r \in Thread /\ r.pc = "uerase"
    BY <2>1, InitialTypes DEF Thread, Idle, Labels, Ops
  <2>3. th' = [th EXCEPT ![t] = r]
    BY <1>3 DEF mtk_bmt_debug_v2
  <2>4. th' \in [Threads -> Thread] /\ InPool'
    <3> HIDE DEF r
    <3> QED BY <2>2, <2>3, ThreadStep
  <2>5. PICK F : bmt_tbl' = [i \in PoolIdx |->
                IF i \in F THEN [bmt_tbl[i] EXCEPT !.mapped = NO_MAPPED] ELSE bmt_tbl[i]]
    BY <1>3 DEF mtk_bmt_debug_v2
  <2>6. bmt_tbl' \in [PoolIdx -> Entry]
    <3>1. \A i \in PoolIdx : [bmt_tbl[i] EXCEPT !.mapped = NO_MAPPED] \in Entry /\ bmt_tbl[i] \in Entry
      BY <1>0 DEF Entry, NO_MAPPED
    <3> QED BY <2>5, <3>1
  <2>7. UNCHANGED <<nand, table, marked, up, bb_tbl, bmt_blk_idx, user, replaced>>
    BY <1>3 DEF mtk_bmt_debug_v2, chip
  <2> QED BY <2>4, <2>6, <2>7 DEF TypeOK, Content, Table, Entry, Thread
<1>4. CASE mtk_bmt_debug_mark_good(t, b)
  <2>1. /\ th' \in [Threads -> Thread] /\ InPool'
        /\ bb_tbl' \in [Lba -> Phys] /\ replaced' \subseteq Phys
    BY <1>4, UnmapType DEF mtk_bmt_debug_mark_good, Ops
  <2>2. user' \in [Logical -> [PageNo -> Values \cup {Blank, Unknown}]]
    BY <1>4, InitialTypes, TypeOKParts DEF mtk_bmt_debug_mark_good
  <2>3. UNCHANGED <<nand, table, marked, up, bmt_tbl, bmt_blk_idx>>
    BY <1>4 DEF mtk_bmt_debug_mark_good, chip
  <2> QED BY <2>1, <2>2, <2>3 DEF TypeOK, Content, Table, Entry, Thread
<1>5. CASE mtk_bmt_debug_repair(t, b)
  <2>1. /\ th' \in [Threads -> Thread] /\ InPool'
        /\ bb_tbl' \in [Lba -> Phys] /\ replaced' \subseteq Phys
    BY <1>5, UnmapType DEF mtk_bmt_debug_repair, Ops
  <2>2. UNCHANGED <<nand, table, marked, up, bmt_tbl, bmt_blk_idx, user>>
    BY <1>5 DEF mtk_bmt_debug_repair, chip
  <2> QED BY <2>1, <2>2 DEF TypeOK, Content, Table, Entry, Thread
<1> QED BY <1>1, <1>2, <1>3, <1>4, <1>5

\* Attaching and what ends it.
LEMMA AttachType ==
    ASSUME TypeOK, InPool,
           init_load \/ (\E t \in Threads : init_scan(t)) \/ mtk_bmt_detach \/ crash
    PROVE  TypeOK' /\ InPool'
<1>1. CASE init_load
  <2>1. PICK F : LET b == FoundBlock(F) IN
           /\ b # 0 /\ get_bmt_index(table[b].bmt) # 0
           /\ bb_tbl' = table[b].bb /\ bmt_tbl' = table[b].bmt
           /\ bmt_blk_idx' = get_bmt_index(table[b].bmt)
    BY <1>1 DEF init_load
  <2>2. FoundBlock(F) \in Phys
    BY <2>1, FoundValid
  <2>3. table[FoundBlock(F)] \in Table
    BY <2>2, TypeOKParts
  <2>4. bb_tbl' \in [Lba -> Phys] /\ bmt_tbl' \in [PoolIdx -> Entry] /\ bmt_blk_idx' \in PoolIdx
    BY <2>1, <2>3, BmtIndex DEF Table
  <2>5. up' = "on" /\ UNCHANGED <<nand, table, marked, th, user, replaced>>
    BY <1>1 DEF init_load, chip
  <2> QED BY <2>4, <2>5 DEF TypeOK, InPool, Content, Table, Entry, Thread
<1>2. ASSUME NEW t \in Threads, init_scan(t) PROVE TypeOK' /\ InPool'
  <2>1. PICK bb \in [Lba -> Phys], po \in [PoolIdx -> Phys] :
           /\ bb_tbl' = bb
           /\ LastIdx(po) >= 0
           /\ bmt_tbl' = [i \in PoolIdx |-> [block |-> po[i],
                  mapped |-> IF i = LastIdx(po) THEN BMT_MAPPED ELSE NO_MAPPED]]
           /\ bmt_blk_idx' = LastIdx(po)
           /\ th' = [th EXCEPT ![t] = [Idle EXCEPT !.pc = "uerase", !.op = "attach",
                                                   !.n = LastIdx(po)]]
    BY <1>2 DEF init_scan
  <2>2. LastIdx(po) \in PoolIdx
    BY <2>1, LastOfPool
  <2> DEFINE m == LastIdx(po)
             r == [Idle EXCEPT !.pc = "uerase", !.op = "attach", !.n = m]
  <2>3. r \in Thread /\ r.pc = "uerase"
    <3> HIDE DEF m
    <3> QED BY <2>2, InitialTypes DEF Thread, Idle, Labels, Ops, m
  <2>4. th' \in [Threads -> Thread] /\ InPool'
    <3>1. th' = [th EXCEPT ![t] = r]
      BY <2>1
    <3> HIDE DEF r
    <3> QED BY <2>3, <3>1, ThreadStep
  <2>5. bmt_tbl' \in [PoolIdx -> Entry]
    BY <2>1 DEF Entry, BMT_MAPPED, NO_MAPPED
  <2>6. up' = "init" /\ UNCHANGED <<nand, table, marked, user, replaced>>
    BY <1>2 DEF init_scan, chip
  <2> QED BY <2>1, <2>2, <2>4, <2>5, <2>6 DEF TypeOK, Content, Table, Entry, Thread
<1>3. CASE mtk_bmt_detach \/ crash
  <2>1. Forget /\ UNCHANGED <<nand, table, marked, user, replaced>>
    BY <1>3 DEF mtk_bmt_detach, crash, chip
  <2> QED BY <2>1, ForgetType DEF TypeOK, Content, Table, Entry, Thread
<1> QED BY <1>1, <1>2, <1>3

LEMMA NextTypeOK == TypeOK /\ InPool /\ [Next]_vars => TypeOK' /\ InPool'
<1> SUFFICES ASSUME TypeOK, InPool, [Next]_vars PROVE TypeOK' /\ InPool'
  OBVIOUS
<1>1. CASE UNCHANGED vars
  BY <1>1 DEF vars, TypeOK, InPool
<1>2. ASSUME NEW t \in Threads, NEW b \in Logical,
             \/ \E q \in PageNo : mtk_bmt_read(t, b, q) \/ \E v \in Values : mtk_bmt_write(t, b, q, v)
             \/ mtk_bmt_mtd_erase(t, b) \/ mtk_bmt_block_isbad(t, b) \/ mtk_bmt_block_markbad(t, b)
      PROVE  TypeOK' /\ InPool'
  BY <1>2, CallsType
<1>3. ASSUME NEW t \in Threads, NEW b \in DebugBlocks,
             \/ mtk_bmt_debug_mark_bad(t, b) \/ mtk_bmt_debug_mark_good(t, b)
             \/ mtk_bmt_debug_repair(t, b)
      PROVE  TypeOK' /\ InPool'
  <2>1. b \in Logical
    BY Constants
  <2> QED BY <1>3, <2>1, CallsType, DebugType
<1>4. ASSUME NEW t \in Threads, mtk_bmt_debug_v2(t) \/ Step(t) PROVE TypeOK' /\ InPool'
  <2>1. 0 \in Logical
    BY SizeAssumption DEF Logical
  <2> QED BY <1>4, <2>1, DebugType, IoType, RemapType, UploadType DEF Step
<1>5. CASE init_load \/ (\E t \in Threads : init_scan(t)) \/ mtk_bmt_detach \/ crash
  BY <1>5, AttachType
<1> QED BY <1>1, <1>2, <1>3, <1>4, <1>5 DEF Next

\* Whatever fails, crashes or interleaves, bmtd and the locals of the calls
\* stay in their ranges: no block number leaves the chip, no call is repeated
\* more often than MaxRetry, bmt_blk_idx is a position of bmt_tbl or the error
\* value of upload_bmt.
THEOREM BmtTypeCorrect == Spec => []TypeOK
<1>1. Init => TypeOK /\ InPool
  BY InitTypeOK
<1>2. TypeOK /\ InPool /\ [Next]_vars => TypeOK' /\ InPool'
  BY NextTypeOK
<1> QED BY <1>1, <1>2, PTL DEF Spec

-----------------------------------------------------------------------------
(***************************************************************************)
(* The mapping is one to one.                                              *)
(***************************************************************************)

\* No two logical blocks are mapped to the same block, a pool block that is
\* mapped carries the mark NORMAL_MAPPED, no block is listed twice.
GoodTable(bb, bmt) ==
    /\ \A a, b \in Lba : bb[a] = bb[b] => a = b
    /\ \A b \in Lba, i \in PoolIdx :
         bmt[i].block # 0 /\ bb[b] = bmt[i].block => bmt[i].mapped = NORMAL_MAPPED
    /\ \A i, j \in PoolIdx : bmt[i].block # 0 /\ bmt[i].block = bmt[j].block => i = j

Alone == \A s, t \in Threads : th[s].pc # "idle" /\ th[t].pc # "idle" => s = t

\* The table in memory and every one on the flash is good; the block of the
\* table is not given away; what a thread is about to take is still free.
MapInv ==
    /\ up # "off" => GoodTable(bb_tbl, bmt_tbl)
    /\ \A b \in Phys : table[b].valid => GoodTable(table[b].bb, table[b].bmt)
    /\ up # "off" => \A i \in PoolIdx : i = bmt_blk_idx => bmt_tbl[i].mapped # NORMAL_MAPPED
    /\ Alone
    /\ up = "off" => \A t \in Threads : th[t].pc = "idle"
    /\ \A t \in Threads : th[t].pc = "take" => th[t].n \in Available
    /\ \A t \in Threads : th[t].pc = "uwrite" =>
         \A i \in PoolIdx : i = th[t].n => bmt_tbl[i].mapped # NORMAL_MAPPED

\* Calls do not overlap, debugfs is not used, and the remap range is the whole
\* chip.
Orderly == "concurrent" \notin Env /\ "debugfs" \notin Env /\ Range = Lba

LEMMA MapInvDisjoint == Orderly /\ TypeOK /\ MapInv => Disjoint
<1> SUFFICES ASSUME Orderly, TypeOK, MapInv, up # "off"
             PROVE  /\ \A a, b \in Lba : Map(a) = Map(b) => a = b
                    /\ \A b \in Lba, i \in Available : Map(b) # bmt_tbl[i].block
                    /\ \A b \in Lba, i \in PoolIdx :
                         i = bmt_blk_idx /\ bmt_tbl[i].block # 0 => Map(b) # bmt_tbl[i].block
  BY DEF Disjoint
<1>1. \A b \in Lba : Map(b) = bb_tbl[b]
  BY DEF Orderly, Map, get_mapping_block_index_v2
<1>2. GoodTable(bb_tbl, bmt_tbl)
  BY DEF MapInv
<1>3. \A a, b \in Lba : Map(a) = Map(b) => a = b
  BY <1>1, <1>2 DEF GoodTable
<1>4. \A b \in Lba, i \in Available : Map(b) # bmt_tbl[i].block
  BY <1>1, <1>2 DEF GoodTable, Available, NO_MAPPED, NORMAL_MAPPED
<1>5. \A b \in Lba, i \in PoolIdx :
         i = bmt_blk_idx /\ bmt_tbl[i].block # 0 => Map(b) # bmt_tbl[i].block
  BY <1>1, <1>2 DEF GoodTable, MapInv
<1> QED BY <1>3, <1>4, <1>5

\* A list whose entries grow from one to the next, up to its zeros.
LEMMA Growing ==
    ASSUME NEW N \in Nat, NEW f \in [0..N -> Nat],
           \A j \in 1..N : f[j] # 0 => f[j - 1] < f[j] /\ (j = 1 \/ f[j - 1] # 0)
    PROVE  \A i, j \in 0..N : i < j /\ f[j] # 0 => f[i] < f[j]
<1> SUFFICES ASSUME NEW i \in 0..N PROVE \A j \in 0..N : i < j /\ f[j] # 0 => f[i] < f[j]
  OBVIOUS
<1> DEFINE S == {j \in 0..N : i < j /\ f[j] # 0 /\ ~ (f[i] < f[j])}
<1>1. S \subseteq Nat
  OBVIOUS
<1>2. ASSUME S # {} PROVE FALSE
  <2>1. PICK m \in S : \A n \in S : m <= n
    <3> HIDE DEF S
    <3> QED BY <1>1, <1>2, Least
  <2>2. m \in 1..N /\ m - 1 \in 0..N /\ f[m] # 0 /\ i < m /\ ~ (f[i] < f[m])
    BY <2>1
  <2>3. f[m - 1] < f[m] /\ (m = 1 \/ f[m - 1] # 0)
    BY <2>2
  <2>4. m - 1 # i
    BY <2>2, <2>3
  <2>5. i < m - 1 /\ f[m - 1] # 0
    BY <2>2, <2>3, <2>4
  <2>6. ~ (m - 1 \in S)
    <3> HIDE DEF S
    <3>1. m \in Nat
      BY <2>2
    <3> QED BY <2>1, <3>1
  <2>7. f[i] < f[m - 1]
    BY <2>2, <2>5, <2>6
  <2> QED BY <2>2, <2>3, <2>7
<1> QED BY <1>2

LEMMA ScannedBbGrows ==
    ASSUME NEW bd, NEW bb \in [Lba -> Phys], ScannedBb(bb, bd)
    PROVE  \A i, j \in Lba : i < j => bb[i] < bb[j]
<1> DEFINE N == pool_lba - 1
<1>1. N \in Nat /\ Lba = 0..N /\ bb \in [0..N -> Nat]
  BY SizeAssumption DEF Lba, Phys
<1>2. ASSUME NEW j \in 1..N PROVE bb[j] # 0 /\ bb[j - 1] < bb[j]
  <2>1. j \in Lba \ {0} /\ j - 1 \in Lba
    BY <1>1, <1>2
  <2>2. bb[j] = find_valid_block(bb[j - 1] + 1, bd) /\ bb[j] # 0
    BY <2>1 DEF ScannedBb
  <2>3. bb[j - 1] \in Nat /\ bb[j - 1] + 1 \in Nat /\ bb[j] \in Nat
    BY <2>1, <1>1
  <2>4. bb[j - 1] + 1 <= bb[j]
    BY <2>2, <2>3, FindValid
  <2> QED BY <2>2, <2>3, <2>4
<1>3. \A j \in 1..N : bb[j] # 0 => bb[j - 1] < bb[j] /\ (j = 1 \/ bb[j - 1] # 0)
  <2>1. ASSUME NEW j \in 1..N PROVE j = 1 \/ j - 1 \in 1..N
    BY <2>1, <1>1
  <2> QED BY <1>2, <2>1
<1>4. \A i, j \in 0..N : i < j /\ bb[j] # 0 => bb[i] < bb[j]
  <2> HIDE DEF N
  <2> QED BY <1>1, <1>3, Growing
<1>5. ASSUME NEW i \in Lba, NEW j \in Lba, i < j PROVE bb[i] < bb[j]
  <2>1. j \in 1..N
    BY <1>5, <1>1
  <2> QED BY <2>1, <1>2, <1>4, <1>1, <1>5
<1> QED BY <1>5

LEMMA ScannedPoolGrows ==
    ASSUME NEW bd, NEW pba \in Nat, NEW po \in [PoolIdx -> Phys], ScannedPool(po, pba, bd)
    PROVE  /\ \A i, j \in PoolIdx : i < j /\ po[j] # 0 => po[i] < po[j]
           /\ \A i \in PoolIdx : po[i] # 0 => pba <= po[i]
<1> DEFINE N == total_blks - pool_lba - 1
<1>1. N \in Nat /\ PoolIdx = 0..N /\ po \in [0..N -> Nat]
  BY SizeAssumption DEF PoolIdx, Phys
<1>2. ASSUME NEW j \in 1..N, po[j] # 0 PROVE po[j - 1] # 0 /\ po[j - 1] < po[j]
  <2>1. j \in PoolIdx /\ j # 0 /\ j - 1 \in PoolIdx
    BY <1>1, <1>2
  <2>2. po[j - 1] # 0 /\ po[j] = find_valid_block(po[j - 1] + 1, bd)
    BY <2>1, <1>2 DEF ScannedPool
  <2>3. po[j - 1] \in Nat /\ po[j - 1] + 1 \in Nat /\ po[j] \in Nat
    BY <2>1, <1>1
  <2>4. po[j - 1] + 1 <= po[j]
    BY <2>2, <2>3, <1>2, FindValid
  <2> QED BY <2>2, <2>3, <2>4
<1>3. \A i, j \in 0..N : i < j /\ po[j] # 0 => po[i] < po[j]
  <2>1. \A j \in 1..N : po[j] # 0 => po[j - 1] < po[j] /\ (j = 1 \/ po[j - 1] # 0)
    BY <1>2
  <2> HIDE DEF N
  <2> QED BY <1>1, <2>1, Growing
<1> DEFINE S == {j \in 0..N : po[j] # 0 /\ ~ (pba <= po[j])}
<1>4. ASSUME S # {} PROVE FALSE
  <2>1. PICK m \in S : \A n \in S : m <= n
    <3>1. S \subseteq Nat
      BY <1>1
    <3> HIDE DEF S
    <3> QED BY <1>4, <3>1, Least
  <2>2. m \in 0..N /\ po[m] # 0 /\ ~ (pba <= po[m]) /\ po[m] \in Nat
    BY <2>1, <1>1
  <2>3. m # 0
    <3>1. ASSUME m = 0 PROVE FALSE
      <4>1. po[m] = find_valid_block(pba, bd)
        BY <3>1, <2>2, <1>1 DEF ScannedPool
      <4> QED BY <4>1, <2>2, FindValid
    <3> QED BY <3>1
  <2>4. m \in 1..N /\ m - 1 \in 0..N
    BY <2>2, <2>3, <1>1
  <2>5. po[m - 1] # 0 /\ po[m - 1] < po[m] /\ po[m - 1] \in Nat
    BY <2>4, <2>2, <1>2, <1>1
  <2>6. ~ (m - 1 \in S)
    <3> HIDE DEF S
    <3>1. m \in Nat
      BY <2>2, <1>1
    <3> QED BY <2>1, <3>1
  <2>7. pba <= po[m - 1]
    BY <2>6, <2>5, <2>4
  <2> QED BY <2>7, <2>5, <2>2
<1> QED BY <1>1, <1>3, <1>4

\* scan_bad_blocks fills in a good table.
LEMMA ScanIsGood ==
    ASSUME NEW bd, NEW bb \in [Lba -> Phys], ScannedBb(bb, bd),
           NEW po \in [PoolIdx -> Phys], ScannedPool(po, bb[pool_lba - 1] + 1, bd),
           NEW bmt, \A i \in PoolIdx : bmt[i].block = po[i]
    PROVE  GoodTable(bb, bmt)
<1>1. pool_lba - 1 \in Lba /\ Lba \subseteq Nat /\ PoolIdx \subseteq Nat /\ Phys \subseteq Nat
      /\ \A b \in Lba : b <= pool_lba - 1
  BY SizeAssumption DEF Lba, PoolIdx, Phys
<1>2. \A i, j \in Lba : i < j => bb[i] < bb[j]
  BY ScannedBbGrows
<1> DEFINE last == bb[pool_lba - 1]
<1>0. last \in Nat /\ \A b \in Lba : bb[b] \in Nat
  BY <1>1
<1>3. bb[pool_lba - 1] + 1 \in Nat
  <2> HIDE DEF last
  <2>1. last + 1 \in Nat
    BY <1>0
  <2> QED BY <2>1 DEF last
<1>4. /\ \A i, j \in PoolIdx : i < j /\ po[j] # 0 => po[i] < po[j]
      /\ \A i \in PoolIdx : po[i] # 0 => bb[pool_lba - 1] + 1 <= po[i]
  BY <1>3, ScannedPoolGrows
<1>5. \A a, b \in Lba : bb[a] = bb[b] => a = b
  <2>1. ASSUME NEW a \in Lba, NEW b \in Lba, bb[a] = bb[b], a # b PROVE FALSE
    <3>1. a < b \/ b < a
      BY <2>1, <1>1
    <3>2. bb[a] < bb[b] \/ bb[b] < bb[a]
      BY <3>1, <1>2
    <3>3. bb[a] \in Nat
      BY <1>1
    <3> QED BY <2>1, <3>2, <3>3
  <2> QED BY <2>1
<1>6. ASSUME NEW b \in Lba, NEW i \in PoolIdx, po[i] # 0 PROVE bb[b] # po[i]
  <2>1. bb[b] <= bb[pool_lba - 1]
    <3>1. b = pool_lba - 1 \/ b < pool_lba - 1
      BY <1>1, SizeAssumption
    <3>2. CASE b = pool_lba - 1
      <4>1. bb[b] = last
        BY <3>2
      <4> HIDE DEF last
      <4>2. last <= last
        BY <1>0
      <4> QED BY <4>1, <4>2 DEF last
    <3>3. CASE b < pool_lba - 1
      <4>1. bb[b] < last
        BY <3>3, <1>1, <1>2
      <4> HIDE DEF last
      <4>2. bb[b] <= last
        BY <4>1, <1>0
      <4> QED BY <4>2 DEF last
    <3> QED BY <3>1, <3>2, <3>3
  <2>2. bb[pool_lba - 1] + 1 <= po[i] /\ bb[b] \in Nat /\ bb[pool_lba - 1] \in Nat /\ po[i] \in Nat
    BY <1>6, <1>4, <1>1
  <2> QED BY <2>1, <2>2
<1>7. ASSUME NEW i \in PoolIdx, NEW j \in PoolIdx, po[i] # 0, po[i] = po[j], i # j PROVE FALSE
  <2>1. i < j \/ j < i
    BY <1>7, <1>1
  <2>2. po[i] \in Nat
    BY <1>1
  <2>3. po[i] < po[j] \/ po[j] < po[i]
    BY <2>1, <1>7, <1>4
  <2> QED BY <2>2, <2>3, <1>7
<1> QED BY <1>5, <1>6, <1>7 DEF GoodTable

\* A step of thread t that does not touch bmtd and leaves the tables on the
\* flash alone or destroys them.
LEMMA QuietStep ==
    ASSUME TypeOK, MapInv, NEW t \in Threads, NEW r \in Thread,
           \A s \in Threads \ {t} : th[s].pc = "idle",
           up # "off", UNCHANGED <<bb_tbl, bmt_tbl, bmt_blk_idx, up>>,
           \A b \in Phys : table'[b].valid => table'[b] = table[b],
           th' = [th EXCEPT ![t] = r],
           r.pc = "take" => r.n \in Available,
           r.pc = "uwrite" => \A i \in PoolIdx : i = r.n => bmt_tbl[i].mapped # NORMAL_MAPPED
    PROVE  MapInv'
<1>0. /\ th'[t] = r
      /\ \A s \in Threads \ {t} : th'[s] = th[s]
  BY TypeOKParts
<1>1. (up # "off" => GoodTable(bb_tbl, bmt_tbl))'
  BY DEF MapInv, GoodTable
<1>2. (\A b \in Phys : table[b].valid => GoodTable(table[b].bb, table[b].bmt))'
  BY DEF MapInv, GoodTable
<1>3. (up # "off" => \A i \in PoolIdx : i = bmt_blk_idx => bmt_tbl[i].mapped # NORMAL_MAPPED)'
  BY DEF MapInv
<1>4. Alone'
  BY <1>0 DEF Alone
<1>5. (\A s \in Threads : th[s].pc = "take" => th[s].n \in Available)'
  BY <1>0 DEF Available
<1>6. (\A s \in Threads : th[s].pc = "uwrite" =>
         \A i \in PoolIdx : i = th[s].n => bmt_tbl[i].mapped # NORMAL_MAPPED)'
  BY <1>0
<1> QED BY <1>1, <1>2, <1>3, <1>4, <1>5, <1>6 DEF MapInv

\* The thread that is at work is the only one, and the layer is attached.
LEMMA Working ==
    ASSUME MapInv, NEW t \in Threads, th[t].pc # "idle"
    PROVE  up # "off" /\ \A s \in Threads \ {t} : th[s].pc = "idle"
BY DEF MapInv, Alone

LEMMA MayCallAlone ==
    ASSUME Orderly, NEW t \in Threads, MayCall(t)
    PROVE  up # "off" /\ \A s \in Threads \ {t} : th[s].pc = "idle"
BY DEF Orderly, MayCall

\* Erased blocks hold no table.
LEMMA ErasedTable ==
    ASSUME TypeOK, NEW c \in Phys, Erase(c) \/ FailErase(c)
    PROVE  \A b \in Phys : table'[b].valid => table'[b] = table[b]
<1>1. table \in [Phys -> Table] /\ ~ NoTable.valid
  BY TypeOKParts DEF NoTable
<1>2. table' = table \/ table' = [table EXCEPT ![c] = NoTable]
  BY DEF Erase, FailErase
<1> QED BY <1>1, <1>2

LEMMA CallsMap ==
    ASSUME Orderly, TypeOK, InPool, MapInv, NEW t \in Threads, NEW op \in Ops, NEW b \in Lba,
           NEW q \in PageNo, NEW v \in Values \cup {Blank}, NEW pc \in {"io", "pick"},
           MayCall(t), Call(t, op, b, q, v, pc), UNCHANGED <<chip, up, ram>>
    PROVE  MapInv'
<1> DEFINE r == [Idle EXCEPT !.pc = pc, !.op = op, !.blk = b, !.pg = q, !.val = v,
                             !.cur = get_mapping_block_index_v2(b)]
<1>1. get_mapping_block_index_v2(b) \in Phys
  BY MappingType
<1>2. r \in Thread /\ r.pc = pc
  BY <1>1, InitialTypes DEF Thread, Idle, Labels
<1>3. th' = [th EXCEPT ![t] = r]
  BY DEF Call
<1>4. UNCHANGED <<table, bb_tbl, bmt_tbl, bmt_blk_idx, up>>
  BY DEF chip, ram
<1> HIDE DEF r
<1> QED BY <1>2, <1>3, <1>4, MayCallAlone, QuietStep

\* A step to another place that touches no table.
LEMMA GotoMap ==
    ASSUME TypeOK, MapInv, NEW t \in Threads, th[t].pc # "idle",
           \/ Return(t)
           \/ \E pc \in Labels \ {"take", "uwrite"} : Goto(t, pc),
           UNCHANGED <<bb_tbl, bmt_tbl, bmt_blk_idx, up>>,
           \A b \in Phys : table'[b].valid => table'[b] = table[b]
    PROVE  MapInv'
<1>1. CASE Return(t)
  <2>1. Idle \in Thread /\ Idle.pc = "idle" /\ th' = [th EXCEPT ![t] = Idle]
    BY <1>1, InitialTypes DEF Return, Idle
  <2> QED BY <2>1, Working, QuietStep
<1>2. ASSUME NEW pc \in Labels \ {"take", "uwrite"}, Goto(t, pc) PROVE MapInv'
  <2> DEFINE r == [th[t] EXCEPT !.pc = pc]
  <2>1. r \in Thread /\ r.pc = pc /\ th' = [th EXCEPT ![t] = r]
    BY <1>2, TypeOKParts DEF Goto, Thread
  <2> HIDE DEF r
  <2> QED BY <2>1, Working, QuietStep
<1> QED BY <1>1, <1>2

LEMMA IoMap ==
    ASSUME TypeOK, InPool, MapInv, NEW t \in Threads, io_ok(t) \/ io_flip(t) \/ io_fail(t)
    PROVE  MapInv'
<1>0. th[t] \in Thread /\ th[t].cur \in Phys /\ th[t].pc # "idle"
  BY TypeOKParts DEF Thread, io_ok, io_flip, io_fail
<1>1. UNCHANGED <<bb_tbl, bmt_tbl, bmt_blk_idx, up>>
  BY DEF io_ok, io_flip, io_fail, ram
<1>2. UNCHANGED table \/ Erase(th[t].cur) \/ FailErase(th[t].cur)
  BY DEF io_ok, io_flip, io_fail, chip
<1>3. \A b \in Phys : table'[b].valid => table'[b] = table[b]
  BY <1>0, <1>2, ErasedTable
<1>4. CASE io_ok(t)
  <2>1. Return(t)
    BY <1>4 DEF io_ok
  <2> QED BY <2>1, <1>0, <1>1, <1>3, GotoMap
<1>5. CASE io_fail(t)
  <2>1. Goto(t, "pick") /\ "pick" \in Labels \ {"take", "uwrite"}
    BY <1>5 DEF io_fail, Labels
  <2> QED BY <2>1, <1>0, <1>1, <1>3, GotoMap
<1>6. CASE io_flip(t)
  <2> DEFINE r == [th[t] EXCEPT !.pc = "pick", !.op = "flip"]
  <2>1. r \in Thread /\ r.pc = "pick"
    BY <1>0 DEF Thread, Labels, Ops
  <2>2. th' = [th EXCEPT ![t] = r]
    BY <1>6, TypeOKParts DEF io_flip
  <2> HIDE DEF r
  <2> QED BY <2>1, <2>2, <1>0, <1>1, <1>3, Working, QuietStep
<1> QED BY <1>4, <1>5, <1>6

\* The block of a free entry is mapped nowhere; taking it keeps the tables good.
LEMMA TakeMap ==
    ASSUME TypeOK, InPool, MapInv, NEW t \in Threads, take_block(t)
    PROVE  MapInv'
<1> DEFINE n == th[t].n  b == th[t].blk  x == bmt_tbl[n].block
<1>0. /\ th[t] \in Thread /\ b \in Lba /\ n \in PoolIdx /\ n \in Available
      /\ bmt_tbl \in [PoolIdx -> Entry] /\ bb_tbl \in [Lba -> Phys] /\ x \in Phys
  BY TypeOKParts DEF Thread, take_block, MapInv, Available, Entry
<1>1. /\ up # "off" /\ \A s \in Threads \ {t} : th[s].pc = "idle"
  BY Working DEF take_block
<1>2. GoodTable(bb_tbl, bmt_tbl)
  BY <1>1 DEF MapInv
<1>3. /\ bmt_tbl' = [bmt_tbl EXCEPT ![n] = [bmt_tbl[n] EXCEPT !.mapped = NORMAL_MAPPED]]
      /\ bb_tbl' = [bb_tbl EXCEPT ![b] = x]
      /\ UNCHANGED <<table, up, bmt_blk_idx>>
  BY DEF take_block, chip
<1>4. /\ \A i \in PoolIdx : bmt_tbl'[i].block = bmt_tbl[i].block
      /\ \A i \in PoolIdx \ {n} : bmt_tbl'[i] = bmt_tbl[i]
      /\ bmt_tbl'[n].mapped = NORMAL_MAPPED
      /\ bb_tbl'[b] = x
      /\ \A a \in Lba \ {b} : bb_tbl'[a] = bb_tbl[a]
  BY <1>0, <1>3 DEF Entry
<1>5. \A a \in Lba : bb_tbl[a] # x
  BY <1>0, <1>2 DEF GoodTable, Available, NO_MAPPED, NORMAL_MAPPED
<1>6. GoodTable(bb_tbl', bmt_tbl')
  <2>1. \A a, c \in Lba : bb_tbl'[a] = bb_tbl'[c] => a = c
    BY <1>4, <1>5, <1>2 DEF GoodTable
  <2>2. ASSUME NEW a \in Lba, NEW i \in PoolIdx, bmt_tbl'[i].block # 0,
               bb_tbl'[a] = bmt_tbl'[i].block
        PROVE  bmt_tbl'[i].mapped = NORMAL_MAPPED
    <3>1. CASE i = n
      BY <3>1, <1>4
    <3>2. CASE i # n /\ a # b
      BY <3>2, <2>2, <1>4, <1>2 DEF GoodTable
    <3>3. CASE i # n /\ a = b
      <4>1. bmt_tbl[n].block = bmt_tbl[i].block /\ bmt_tbl[n].block # 0
        BY <3>3, <2>2, <1>4, <1>0
      <4> QED BY <4>1, <3>3, <1>0, <1>2 DEF GoodTable
    <3> QED BY <3>1, <3>2, <3>3
  <2>3. \A i, j \in PoolIdx : bmt_tbl'[i].block # 0 /\ bmt_tbl'[i].block = bmt_tbl'[j].block => i = j
    BY <1>4, <1>2 DEF GoodTable
  <2> QED BY <2>1, <2>2, <2>3 DEF GoodTable
<1>7. th'[t].pc = "rerase" /\ \A s \in Threads \ {t} : th'[s] = th[s]
  BY <1>0, TypeOKParts DEF take_block, Thread
<1>8. (up # "off" => \A i \in PoolIdx : i = bmt_blk_idx => bmt_tbl[i].mapped # NORMAL_MAPPED)'
  <2>1. n # bmt_blk_idx
    <3>1. n < bmt_blk_idx /\ n \in Nat
      BY <1>0, Constants DEF Available
    <3> QED BY <3>1
  <2> QED BY <2>1, <1>3, <1>4, <1>1 DEF MapInv
<1>9. (\A c \in Phys : table[c].valid => GoodTable(table[c].bb, table[c].bmt))'
  BY <1>3 DEF MapInv, GoodTable
<1> QED BY <1>1, <1>3, <1>6, <1>7, <1>8, <1>9 DEF MapInv, Alone

\* The entry that upload_bmt gives up.
LEMMA NextTryMap ==
    ASSUME TypeOK, InPool, MapInv, NEW t \in Threads, th[t].pc # "idle", th[t].n \in PoolIdx,
           NextTry(t), \A b \in Phys : table'[b].valid => table'[b] = table[b]
    PROVE  MapInv'
<1> DEFINE n == th[t].n
<1>0. th[t] \in Thread /\ bmt_tbl \in [PoolIdx -> Entry] /\ th \in [Threads -> Thread]
  BY TypeOKParts
<1>1. up # "off" /\ \A s \in Threads \ {t} : th[s].pc = "idle"
  BY Working
<1>2. bmt_tbl' = [bmt_tbl EXCEPT ![n].block = 0] /\ UNCHANGED <<up, bb_tbl, bmt_blk_idx>>
  BY DEF NextTry
<1>3. /\ \A i \in PoolIdx : bmt_tbl'[i].mapped = bmt_tbl[i].mapped
      /\ \A i \in PoolIdx : bmt_tbl'[i].block # 0 => bmt_tbl'[i].block = bmt_tbl[i].block
  BY <1>0, <1>2 DEF Entry
<1>4. GoodTable(bb_tbl, bmt_tbl)
  BY <1>1 DEF MapInv
<1>5. GoodTable(bb_tbl', bmt_tbl')
  BY <1>2, <1>3, <1>4 DEF GoodTable
<1>6. th'[t].pc = "uerase" /\ \A s \in Threads \ {t} : th'[s] = th[s]
  BY <1>0 DEF NextTry, Thread
<1>7. (up # "off" => \A i \in PoolIdx : i = bmt_blk_idx => bmt_tbl[i].mapped # NORMAL_MAPPED)'
  BY <1>1, <1>2, <1>3 DEF MapInv
<1>8. (\A c \in Phys : table[c].valid => GoodTable(table[c].bb, table[c].bmt))'
  BY DEF MapInv, GoodTable
<1> QED BY <1>1, <1>2, <1>5, <1>6, <1>7, <1>8 DEF MapInv, Alone

\* upload_bmt has returned n; the tables on the flash are good.
LEMMA UploadedMap ==
    ASSUME TypeOK, InPool, MapInv, NEW t \in Threads, th[t].pc # "idle", NEW n, Uploaded(t, n),
           \A i \in PoolIdx : i = n => bmt_tbl[i].mapped # NORMAL_MAPPED,
           (\A b \in Phys : table[b].valid => GoodTable(table[b].bb, table[b].bmt))'
    PROVE  MapInv'
<1>0. th[t] \in Thread /\ th \in [Threads -> Thread] /\ Idle.pc = "idle"
  BY TypeOKParts DEF Idle
<1>1. up # "off" /\ \A s \in Threads \ {t} : th[s].pc = "idle"
  BY Working
<1>2. up' = "on" /\ bmt_blk_idx' = n /\ UNCHANGED <<bb_tbl, bmt_tbl>>
  BY DEF Uploaded
<1>3. th'[t].pc \in {"idle", "io", "mark", "fixup"} /\ \A s \in Threads \ {t} : th'[s] = th[s]
  <2>1. Retry(t) \/ Goto(t, "mark") \/ Goto(t, "fixup") \/ Return(t)
    BY DEF Uploaded
  <2>2. CASE Retry(t)
    BY <2>2, <1>0 DEF Retry, Return, Thread
  <2>3. CASE Goto(t, "mark") \/ Goto(t, "fixup")
    BY <2>3, <1>0 DEF Goto, Thread
  <2>4. CASE Return(t)
    BY <2>4, <1>0 DEF Return
  <2> QED BY <2>1, <2>2, <2>3, <2>4
<1>4. GoodTable(bb_tbl', bmt_tbl')
  BY <1>1, <1>2 DEF MapInv
<1> QED BY <1>1, <1>2, <1>3, <1>4 DEF MapInv, Alone

LEMMA ForgetMap ==
    ASSUME MapInv, Forget, UNCHANGED table
    PROVE  MapInv'
<1>1. (\A b \in Phys : table[b].valid => GoodTable(table[b].bb, table[b].bmt))'
  BY DEF MapInv, GoodTable
<1>2. up' = "off" /\ \A t \in Threads : th'[t].pc = "idle"
  BY DEF Forget, Idle
<1> QED BY <1>1, <1>2 DEF MapInv, Alone

LEMMA UploadMap ==
    ASSUME TypeOK, InPool, MapInv, NEW t \in Threads,
           upload_fatal(t) \/ upload_erase(t) \/ upload_write(t)
    PROVE  MapInv'
<1>0. /\ th[t] \in Thread /\ bmt_tbl \in [PoolIdx -> Entry] /\ table \in [Phys -> Table]
      /\ th[t].pc # "idle"
  BY TypeOKParts DEF upload_fatal, upload_erase, upload_write
<1>1. CASE upload_fatal(t)
  <2>1. UNCHANGED table
    BY <1>1 DEF upload_fatal, chip
  <2>2. CASE Forget
    BY <2>1, <2>2, ForgetMap
  <2>3. CASE Uploaded(t, FATAL)
    <3>1. \A i \in PoolIdx : i = FATAL => bmt_tbl[i].mapped # NORMAL_MAPPED
      BY Constants
    <3>2. (\A b \in Phys : table[b].valid => GoodTable(table[b].bb, table[b].bmt))'
      BY <2>1 DEF MapInv, GoodTable
    <3> QED BY <2>3, <3>1, <3>2, <1>0, UploadedMap
  <2> QED BY <1>1, <2>2, <2>3 DEF upload_fatal
<1>2. CASE upload_erase(t)
  <2>1. th[t].n \in PoolIdx /\ bmt_tbl[th[t].n].mapped # NORMAL_MAPPED
    BY <1>2 DEF upload_erase, NoSpace
  <2> DEFINE b == bmt_tbl[th[t].n].block
  <2>2. b \in Phys
    BY <2>1, <1>0 DEF Entry
  <2>3. CASE Erase(b) /\ Goto(t, "uwrite") /\ UNCHANGED <<marked, up, ram, user, replaced>>
    <3> DEFINE r == [th[t] EXCEPT !.pc = "uwrite"]
    <3>1. r \in Thread /\ r.pc = "uwrite" /\ r.n = th[t].n /\ th' = [th EXCEPT ![t] = r]
      BY <2>3, <1>0 DEF Goto, Thread, Labels
    <3>2. \A c \in Phys : table'[c].valid => table'[c] = table[c]
      BY <2>2, <2>3, ErasedTable
    <3>3. UNCHANGED <<bb_tbl, bmt_tbl, bmt_blk_idx, up>>
      BY <2>3 DEF ram
    <3> HIDE DEF r, b
    <3> QED BY <2>1, <3>1, <3>2, <3>3, <1>0, Working, QuietStep
  <2>4. CASE FailErase(b) /\ NextTry(t)
    <3>1. \A c \in Phys : table'[c].valid => table'[c] = table[c]
      BY <2>2, <2>4, ErasedTable
    <3> QED BY <2>1, <2>4, <3>1, <1>0, NextTryMap
  <2> QED BY <1>2, <2>3, <2>4 DEF upload_erase
<1>3. CASE upload_write(t)
  <2>1. th[t].n \in PoolIdx /\ \A i \in PoolIdx : i = th[t].n => bmt_tbl[i].mapped # NORMAL_MAPPED
    BY <1>3 DEF upload_write, InPool, MapInv
  <2> DEFINE b == bmt_tbl[th[t].n].block
             w == [valid |-> TRUE, bb |-> bb_tbl, bmt |-> bmt_tbl]
  <2>2. b \in Phys
    BY <2>1, <1>0 DEF Entry
  <2>3. CASE table' = [table EXCEPT ![b] = w] /\ Uploaded(t, th[t].n)
    <3>1. GoodTable(bb_tbl, bmt_tbl)
      BY <1>0, Working DEF MapInv
    <3>2. \A c \in Phys : table'[c] = w \/ table'[c] = table[c]
      <4> HIDE DEF w, b
      <4> QED BY <2>3, <1>0
    <3>3. ASSUME NEW c \in Phys, table'[c].valid PROVE GoodTable(table'[c].bb, table'[c].bmt)
      <4>1. CASE table'[c] = table[c]
        BY <3>3, <4>1 DEF MapInv
      <4>2. CASE table'[c] = w
        <5>1. table'[c].bb = bb_tbl /\ table'[c].bmt = bmt_tbl
          BY <4>2
        <5> QED BY <5>1, <3>1
      <4> QED BY <3>2, <4>1, <4>2
    <3>4. (\A c \in Phys : table[c].valid => GoodTable(table[c].bb, table[c].bmt))'
      BY <3>3
    <3> QED BY <2>1, <2>3, <3>4, <1>0, UploadedMap
  <2>4. CASE UNCHANGED table /\ NextTry(t)
    BY <2>1, <2>4, <1>0, NextTryMap
  <2> QED BY <1>3, <2>3, <2>4 DEF upload_write
<1> QED BY <1>1, <1>2, <1>3

LEMMA RemapMap ==
    ASSUME TypeOK, InPool, MapInv, NEW t \in Threads,
           find_valid_block_in_pool(t) \/ remap_erase(t) \/ remap_copy(t)
             \/ markbad_old(t) \/ repair_copy(t)
    PROVE  MapInv'
<1>0. /\ th[t] \in Thread /\ th[t].new \in Phys /\ th[t].blk \in Lba /\ th \in [Threads -> Thread]
      /\ th[t].pc # "idle"
      /\ UNCHANGED <<bb_tbl, bmt_tbl, bmt_blk_idx, up>>
  BY TypeOKParts DEF Thread, ram, find_valid_block_in_pool, remap_erase, remap_copy,
                     markbad_old, repair_copy
<1>1. CASE find_valid_block_in_pool(t)
  <2>0. UNCHANGED table
    BY <1>1 DEF find_valid_block_in_pool, chip
  <2>1. CASE th[t].blk \in Range /\ Available # {}
    <3> DEFINE m == CHOOSE i \in Available : \A j \in Available : i <= j
    <3>1. m \in Available /\ m \in PoolIdx
      BY <2>1, FirstAvailable DEF Available
    <3>2. th' = [th EXCEPT ![t].pc = "take", ![t].n = m]
      BY <1>1, <2>1 DEF find_valid_block_in_pool
    <3> HIDE DEF m
    <3> DEFINE r == [th[t] EXCEPT !.pc = "take", !.n = m]
    <3>3. r \in Thread /\ r.n = m /\ r.pc = "take"
      BY <1>0, <3>1 DEF Thread, Labels
    <3>4. th' = [th EXCEPT ![t] = r]
      BY <3>2, <1>0
    <3> HIDE DEF r
    <3> QED BY <1>0, <2>0, <3>1, <3>3, <3>4, Working, QuietStep
  <2>2. CASE ~ (th[t].blk \in Range /\ Available # {})
    <3>1. Goto(t, "mark") \/ Return(t)
      BY <1>1, <2>2 DEF find_valid_block_in_pool, NotRemapped
    <3>2. "mark" \in Labels \ {"take", "uwrite"}
      BY DEF Labels
    <3> QED BY <1>0, <2>0, <3>1, <3>2, GotoMap
  <2> QED BY <2>1, <2>2
<1>2. CASE remap_erase(t)
  <2>1. Goto(t, "rcopy") /\ "rcopy" \in Labels \ {"take", "uwrite"}
    BY <1>2 DEF remap_erase, Labels
  <2>2. \A c \in Phys : table'[c].valid => table'[c] = table[c]
    BY <1>0, <1>2, ErasedTable DEF remap_erase
  <2> QED BY <1>0, <2>1, <2>2, GotoMap
<1>3. CASE remap_copy(t)
  <2> DEFINE r == [th[t] EXCEPT !.pc = "uerase", !.n = bmt_blk_idx]
  <2>1. bmt_blk_idx \in PoolIdx \cup {-1, FATAL}
    BY TypeOKParts
  <2>2. r \in Thread /\ r.pc = "uerase"
    BY <1>0, <2>1 DEF Thread, Labels
  <2>3. th' = [th EXCEPT ![t] = r] /\ UNCHANGED table
    BY <1>3, <1>0 DEF remap_copy
  <2> HIDE DEF r
  <2> QED BY <1>0, <2>2, <2>3, Working, QuietStep
<1>4. CASE markbad_old(t) \/ repair_copy(t)
  <2>1. Return(t)
    BY <1>4 DEF markbad_old, repair_copy
  <2>2. \A c \in Phys : table'[c].valid => table'[c] = table[c]
    <3>1. table \in [Phys -> Table] /\ ~ NoTable.valid
      BY TypeOKParts DEF NoTable
    <3>2. UNCHANGED table \/ \E d : table' = [table EXCEPT ![d] = NoTable]
      BY <1>4 DEF markbad_old, repair_copy
    <3> QED BY <3>1, <3>2
  <2> QED BY <1>0, <2>1, <2>2, GotoMap
<1> QED BY <1>1, <1>2, <1>3, <1>4

LEMMA LoadMap ==
    ASSUME TypeOK, MapInv, init_load
    PROVE  MapInv'
<1>1. PICK F : LET b == FoundBlock(F) IN
         /\ b # 0 /\ get_bmt_index(table[b].bmt) # 0
         /\ bb_tbl' = table[b].bb /\ bmt_tbl' = table[b].bmt
         /\ bmt_blk_idx' = get_bmt_index(table[b].bmt)
  BY DEF init_load
<1> DEFINE b == FoundBlock(F)
<1>2. b \in Phys /\ table[b].valid
  BY <1>1, FoundValid
<1>3. GoodTable(bb_tbl', bmt_tbl')
  BY <1>1, <1>2 DEF MapInv
<1>4. bmt_tbl'[bmt_blk_idx'].mapped = BMT_MAPPED
  BY <1>1, BmtIndex
<1>5. up = "off" /\ up' = "on" /\ UNCHANGED <<table, th>>
  BY DEF init_load, chip
<1>6. \A t \in Threads : th'[t].pc = "idle"
  BY <1>5 DEF MapInv
<1>7. (\A c \in Phys : table[c].valid => GoodTable(table[c].bb, table[c].bmt))'
  BY <1>5 DEF MapInv, GoodTable
<1>8. (up # "off" => \A i \in PoolIdx : i = bmt_blk_idx => bmt_tbl[i].mapped # NORMAL_MAPPED)'
  BY <1>4 DEF BMT_MAPPED, NORMAL_MAPPED
<1> QED BY <1>3, <1>5, <1>6, <1>7, <1>8 DEF MapInv, Alone

LEMMA ScanMap ==
    ASSUME TypeOK, MapInv, NEW t \in Threads, init_scan(t)
    PROVE  MapInv'
<1>1. PICK F \in Unreadable, bb \in [Lba -> Phys], po \in [PoolIdx -> Phys] :
         /\ ScannedBb(bb, marked \cup F)
         /\ bb_tbl' = bb
         /\ ScannedPool(po, bb[pool_lba - 1] + 1, marked \cup F)
         /\ LastIdx(po) >= 0
         /\ bmt_tbl' = [i \in PoolIdx |-> [block |-> po[i],
                mapped |-> IF i = LastIdx(po) THEN BMT_MAPPED ELSE NO_MAPPED]]
         /\ th' = [th EXCEPT ![t] = [Idle EXCEPT !.pc = "uerase", !.op = "attach",
                                                 !.n = LastIdx(po)]]
  BY DEF init_scan
<1>2. /\ \A i \in PoolIdx : bmt_tbl'[i].block = po[i] /\ bmt_tbl'[i].mapped # NORMAL_MAPPED
  BY <1>1 DEF BMT_MAPPED, NO_MAPPED, NORMAL_MAPPED
<1>3. GoodTable(bb_tbl', bmt_tbl')
  BY <1>1, <1>2, ScanIsGood
<1>4. up = "off" /\ up' = "init" /\ UNCHANGED table
  BY DEF init_scan, chip
<1>5. th'[t].pc = "uerase" /\ \A s \in Threads \ {t} : th'[s] = th[s] /\ th[s].pc = "idle"
  BY <1>1, <1>4, TypeOKParts DEF MapInv, Idle
<1>6. (\A c \in Phys : table[c].valid => GoodTable(table[c].bb, table[c].bmt))'
  BY <1>4 DEF MapInv, GoodTable
<1>7. (up # "off" => \A i \in PoolIdx : i = bmt_blk_idx => bmt_tbl[i].mapped # NORMAL_MAPPED)'
  BY <1>2
<1> QED BY <1>3, <1>4, <1>5, <1>6, <1>7 DEF MapInv, Alone

LEMMA NextMap ==
    Orderly /\ TypeOK /\ InPool /\ MapInv /\ [Next]_vars => MapInv'
<1> SUFFICES ASSUME Orderly, TypeOK, InPool, MapInv, [Next]_vars PROVE MapInv'
  OBVIOUS
<1>0. 1 \in PageNo /\ Logical \subseteq Lba
  BY Constants
<1>1. CASE UNCHANGED vars
  BY <1>1 DEF vars, MapInv, GoodTable, Alone, Available
<1>2. ASSUME NEW t \in Threads, NEW b \in Logical, NEW q \in PageNo, mtk_bmt_read(t, b, q)
      PROVE  MapInv'
  BY <1>0, <1>2, CallsMap DEF mtk_bmt_read, Ops, ram
<1>3. ASSUME NEW t \in Threads, NEW b \in Logical, NEW q \in PageNo, NEW v \in Values,
             mtk_bmt_write(t, b, q, v)
      PROVE  MapInv'
  BY <1>0, <1>3, CallsMap DEF mtk_bmt_write, Ops, ram
<1>4. ASSUME NEW t \in Threads, NEW b \in Logical,
             \/ mtk_bmt_mtd_erase(t, b) \/ mtk_bmt_block_isbad(t, b) \/ mtk_bmt_block_markbad(t, b)
      PROVE  MapInv'
  BY <1>0, <1>4, CallsMap DEF mtk_bmt_mtd_erase, mtk_bmt_block_isbad, mtk_bmt_block_markbad, Ops, ram
<1>5. ASSUME NEW t \in Threads, NEW b \in DebugBlocks,
             \/ mtk_bmt_debug_mark_bad(t, b) \/ mtk_bmt_debug_mark_good(t, b)
             \/ mtk_bmt_debug_repair(t, b) \/ mtk_bmt_debug_v2(t)
      PROVE  MapInv'
  BY <1>5 DEF Orderly, mtk_bmt_debug_mark_bad, mtk_bmt_debug_mark_good, mtk_bmt_debug_repair,
              mtk_bmt_debug_v2
<1>6. ASSUME NEW t \in Threads, mtk_bmt_debug_v2(t) PROVE MapInv'
  BY <1>6 DEF Orderly, mtk_bmt_debug_v2
<1>7. ASSUME NEW t \in Threads, Step(t) PROVE MapInv'
  BY <1>7, IoMap, TakeMap, RemapMap, UploadMap DEF Step
<1>8. ASSUME NEW t \in Threads, init_scan(t) PROVE MapInv'
  BY <1>8, ScanMap
<1>9. CASE init_load
  BY <1>9, LoadMap
<1>10. CASE mtk_bmt_detach \/ crash
  BY <1>10, ForgetMap DEF mtk_bmt_detach, crash, chip
<1> QED BY <1>1, <1>2, <1>3, <1>4, <1>5, <1>6, <1>7, <1>8, <1>9, <1>10 DEF Next

\* As long as calls do not overlap, no two logical blocks are ever stored in
\* the same physical one, and none in the block of the table or in one the
\* pool may still hand out, however many accesses fail, blocks are marked bad,
\* tables get lost and restarts happen.
THEOREM MappingOneToOne == Orderly => (Spec => []Disjoint)
<1> SUFFICES ASSUME Orderly PROVE Spec => []Disjoint
  OBVIOUS
<1>1. Init => TypeOK /\ InPool /\ MapInv
  <2> SUFFICES ASSUME Init PROVE MapInv
    BY InitTypeOK
  <2>1. up = "off" /\ (\A t \in Threads : th[t].pc = "idle") /\ \A b \in Phys : ~ table[b].valid
    BY DEF Init, Idle, NoTable
  <2> QED BY <2>1 DEF MapInv, Alone
<1>2. TypeOK /\ InPool /\ MapInv /\ [Next]_vars => (TypeOK /\ InPool /\ MapInv)'
  BY NextTypeOK, NextMap
<1>3. TypeOK /\ InPool /\ MapInv => Disjoint
  BY MapInvDisjoint
<1> QED BY <1>1, <1>2, <1>3, PTL DEF Spec

-----------------------------------------------------------------------------
(***************************************************************************)
(* The table on the flash is the one in memory.                            *)
(***************************************************************************)

\* The block that holds the table.
TableBlock == bmt_tbl[bmt_blk_idx].block

\* Entry i of the list is the one that carries the mark of the table, no entry
\* before it is empty or carries that mark, and the pool lies behind the
\* logical blocks.
Located(bmt, i) ==
    /\ i \in PoolIdx /\ bmt[i].mapped = BMT_MAPPED
    /\ \A j \in 0..i : bmt[j].block # 0
    /\ \A j \in PoolIdx : j < i => bmt[j].mapped # BMT_MAPPED
    /\ \A j \in PoolIdx : bmt[j].block # 0 => pool_lba <= bmt[j].block

\* Places where the table in memory is ahead of the one on the flash.
Moving == {"rerase", "rcopy", "uerase", "uwrite"}

\* The only table on the flash is in the block that memory names.
OnlyTable ==
    up # "off" => /\ Located(bmt_tbl, bmt_blk_idx)
                  /\ \A b \in Phys : table[b].valid => b = TableBlock

\* A table on the flash names the block it is in, a block that can be read,
\* and there is one at most.
FlashTable ==
    /\ \A b \in Phys : table[b].valid =>
         /\ b \notin Weak
         /\ \E i \in PoolIdx \ {0} : Located(table[b].bmt, i) /\ table[b].bmt[i].block = b
    /\ \A a, b \in Phys : table[a].valid /\ table[b].valid => a = b

\* No remap is under way: the flash holds what memory holds.
Saved ==
    up = "on" /\ (\A t \in Threads : th[t].pc \notin Moving) =>
      table[TableBlock].valid /\ table[TableBlock].bb = bb_tbl /\ table[TableBlock].bmt = bmt_tbl

\* Uploads start at the block of the table, accesses go where the mapping
\* points, and a remap never erases the block of the table.
Locals ==
    \A t \in Threads :
      /\ th[t].pc \in {"uerase", "uwrite"} => th[t].n = bmt_blk_idx
      /\ th[t].pc \in {"io", "pick", "take"} => th[t].cur = bb_tbl[th[t].blk]
      /\ th[t].pc = "rerase" => th[t].new # TableBlock

TableInv == OnlyTable /\ FlashTable /\ Saved /\ Locals

\* The block of the table can be erased and written, and it is not the only
\* block of the pool.
TableWritable == up # "off" => bmt_blk_idx # 0 /\ TableBlock \notin Weak

\* get_bmt_index finds the entry that carries the mark.
LEMMA LocatedIndex ==
    ASSUME NEW bmt, NEW i, Located(bmt, i)
    PROVE  get_bmt_index(bmt) = i
<1> DEFINE C == {k \in PoolIdx : bmt[k].mapped = BMT_MAPPED /\ \A j \in 0..k : bmt[j].block # 0}
<1>1. i \in C /\ PoolIdx \subseteq Nat
  BY Constants DEF Located
<1>2. \A j \in C : i <= j
  BY <1>1 DEF Located
<1>3. get_bmt_index(bmt) = CHOOSE c \in C : \A j \in C : c <= j
  BY <1>1 DEF get_bmt_index
<1>4. C \subseteq Nat
  BY <1>1
<1> HIDE DEF C
<1>5. \A c \in C : (\A j \in C : c <= j) => c = i
  BY <1>1, <1>2, <1>4
<1>6. \E c \in C : \A j \in C : c <= j
  BY <1>1, <1>2
<1> QED BY <1>3, <1>5, <1>6

\* init_v2 finds the only table there is.
LEMMA FoundOnly ==
    ASSUME NEW b \in Phys, pool_lba <= b, table[b].valid, \A c \in Phys : table[c].valid => c = b,
           NEW F, b \notin F
    PROVE  FoundBlock(F) = b
<1> DEFINE C == {c \in Phys : c >= pool_lba /\ table[c].valid /\ c \notin F}
<1>1. b \in Nat /\ pool_lba \in Nat
  BY SizeAssumption DEF Phys
<1>2. C = {b}
  BY <1>1
<1>3. FoundBlock(F) = CHOOSE c \in C : \A d \in C : d <= c
  BY <1>2 DEF FoundBlock
<1> HIDE DEF C
<1> QED BY <1>1, <1>2, <1>3

\* The logical blocks are mapped at or behind their own place.
LEMMA ScannedBbAhead ==
    ASSUME NEW bd, NEW bb \in [Lba -> Phys], ScannedBb(bb, bd)
    PROVE  \A i \in Lba : i <= bb[i]
<1> DEFINE S == {i \in Lba : ~ (i <= bb[i])}
<1>0. Lba \subseteq Nat /\ Phys \subseteq Nat
  BY SizeAssumption DEF Lba, Phys
<1>1. ASSUME S # {} PROVE FALSE
  <2>1. PICK m \in S : \A n \in S : m <= n
    <3>1. S \subseteq Nat
      BY <1>0
    <3> HIDE DEF S
    <3> QED BY <1>1, <3>1, Least
  <2>2. m \in Lba /\ ~ (m <= bb[m]) /\ m \in Nat /\ bb[m] \in Nat
    BY <2>1, <1>0
  <2>3. m # 0 /\ m - 1 \in Lba
    BY <2>2, SizeAssumption DEF Lba
  <2>4. bb[m - 1] < bb[m] /\ bb[m - 1] \in Nat
    <3>1. \A i, j \in Lba : i < j => bb[i] < bb[j]
      BY ScannedBbGrows
    <3>2. m - 1 < m
      BY <2>2
    <3> QED BY <2>2, <2>3, <1>0, <3>1, <3>2
  <2>5. ~ (m - 1 \in S)
    <3> HIDE DEF S
    <3> QED BY <2>1, <2>2
  <2>6. m - 1 <= bb[m - 1]
    BY <2>3, <2>5
  <2> QED BY <2>2, <2>4, <2>6
<1> QED BY <1>1

\* The list of the pool has no gaps.
LEMMA ScannedPoolDense ==
    ASSUME NEW bd, NEW pba, NEW po \in [PoolIdx -> Phys], ScannedPool(po, pba, bd),
           NEW m \in PoolIdx, po[m] # 0
    PROVE  \A j \in 0..m : po[j] # 0
<1> DEFINE S == {j \in 0..m : po[j] = 0}
<1>0. m \in Nat /\ 0..m \subseteq PoolIdx /\ PoolIdx \subseteq Nat
  BY SizeAssumption DEF PoolIdx
<1>1. ASSUME S # {} PROVE FALSE
  <2>1. PICK k \in S : \A j \in S : j <= k
    <3>1. S \subseteq 0..m
      OBVIOUS
    <3> HIDE DEF S
    <3> QED BY <1>0, <1>1, <3>1, Greatest
  <2>2. k \in 0..m /\ po[k] = 0 /\ k # m
    BY <2>1
  <2>3. k + 1 \in 0..m /\ k + 1 \in PoolIdx /\ k + 1 # 0 /\ (k + 1) - 1 = k /\ k \in Nat
    BY <2>2, <1>0
  <2>4. po[k + 1] = 0
    BY <2>2, <2>3 DEF ScannedPool
  <2>5. k + 1 \in S
    BY <2>3, <2>4
  <2>6. k + 1 <= k
    <3> HIDE DEF S
    <3> QED BY <2>1, <2>5
  <2> QED BY <2>3, <2>6
<1> QED BY <1>1

\* scan_bad_blocks marks the entry of the table, the last of the list.
LEMMA ScanLocated ==
    ASSUME NEW bd, NEW bb \in [Lba -> Phys], ScannedBb(bb, bd),
           NEW po \in [PoolIdx -> Phys], ScannedPool(po, bb[pool_lba - 1] + 1, bd),
           LastIdx(po) >= 0, NEW bmt,
           \A i \in PoolIdx : /\ bmt[i].block = po[i]
                              /\ bmt[i].mapped = IF i = LastIdx(po) THEN BMT_MAPPED ELSE NO_MAPPED
    PROVE  Located(bmt, LastIdx(po))
<1> DEFINE L == LastIdx(po)  last == bb[pool_lba - 1]
<1>0. L \in PoolIdx /\ po[L] # 0 /\ PoolIdx \subseteq Nat
  BY LastOfPool, Constants
<1>1. pool_lba - 1 \in Lba /\ pool_lba \in Nat /\ Phys \subseteq Nat
  BY SizeAssumption DEF Lba, Phys
<1>2. last \in Nat /\ pool_lba - 1 <= last
  BY <1>1, ScannedBbAhead
<1>3. bb[pool_lba - 1] + 1 \in Nat /\ pool_lba <= bb[pool_lba - 1] + 1
  <2> HIDE DEF last
  <2>1. last + 1 \in Nat /\ pool_lba <= last + 1
    BY <1>1, <1>2
  <2> QED BY <2>1 DEF last
<1>4. \A j \in 0..L : po[j] # 0
  BY <1>0, ScannedPoolDense
<1>5. \A i \in PoolIdx : po[i] # 0 => bb[pool_lba - 1] + 1 <= po[i]
  BY <1>3, ScannedPoolGrows
<1>6. \A i \in PoolIdx : po[i] # 0 => pool_lba <= po[i]
  <2>1. ASSUME NEW i \in PoolIdx, po[i] # 0 PROVE pool_lba <= po[i]
    <3>1. po[i] \in Nat /\ bb[pool_lba - 1] + 1 <= po[i]
      BY <1>1, <1>5, <2>1
    <3> QED BY <3>1, <1>1, <1>3
  <2> QED BY <2>1
<1>7. 0..L \subseteq PoolIdx
  BY <1>0, SizeAssumption DEF PoolIdx
<1>8. \A j \in PoolIdx : j < L => bmt[j].mapped # BMT_MAPPED
  <2>1. ASSUME NEW j \in PoolIdx, j < L PROVE bmt[j].mapped # BMT_MAPPED
    <3>1. j # L
      BY <2>1, <1>0
    <3> QED BY <3>1 DEF BMT_MAPPED, NO_MAPPED
  <2> QED BY <2>1
<1> HIDE DEF L
<1> QED BY <1>0, <1>4, <1>6, <1>7, <1>8 DEF Located, L

\* No logical block lies on the block of the table, nor does a free entry.
LEMMA NotTableBlock ==
    ASSUME TypeOK, MapInv, TableInv, up # "off"
    PROVE  /\ bmt_blk_idx \in PoolIdx /\ TableBlock \in Phys /\ TableBlock # 0
           /\ \A b \in Lba : bb_tbl[b] # TableBlock
           /\ \A i \in PoolIdx : i < bmt_blk_idx => bmt_tbl[i].block # TableBlock
<1>1. Located(bmt_tbl, bmt_blk_idx) /\ GoodTable(bb_tbl, bmt_tbl)
  BY DEF TableInv, OnlyTable, MapInv
<1>2. bmt_blk_idx \in PoolIdx /\ bmt_blk_idx \in Nat /\ PoolIdx \subseteq Nat
  BY <1>1, Constants DEF Located
<1>3. bmt_blk_idx \in 0..bmt_blk_idx
  BY <1>2
<1>4. TableBlock # 0 /\ bmt_tbl[bmt_blk_idx].mapped # NORMAL_MAPPED
  BY <1>1, <1>3 DEF Located, TableBlock, BMT_MAPPED, NORMAL_MAPPED
<1>5. TableBlock \in Phys
  BY <1>2, TypeOKParts DEF Entry, TableBlock
<1>6. \A b \in Lba : bb_tbl[b] # TableBlock
  BY <1>1, <1>2, <1>4 DEF GoodTable, TableBlock
<1>7. ASSUME NEW i \in PoolIdx, i < bmt_blk_idx PROVE bmt_tbl[i].block # TableBlock
  <2>1. i # bmt_blk_idx
    BY <1>2, <1>7
  <2> QED BY <2>1, <1>1, <1>2, <1>4 DEF GoodTable, TableBlock
<1> QED BY <1>2, <1>4, <1>5, <1>6, <1>7

\* A step of thread t that leaves bmtd alone and destroys tables at most.
LEMMA QuietTable ==
    ASSUME TypeOK, MapInv, TableInv, NEW t \in Threads, NEW r \in Thread, th' = [th EXCEPT ![t] = r],
           up # "off", UNCHANGED <<bb_tbl, bmt_tbl, bmt_blk_idx, up>>,
           \A b \in Phys : table'[b].valid => table'[b] = table[b],
           r.pc \notin Moving => th[t].pc \notin Moving /\ table'[TableBlock] = table[TableBlock],
           r.pc \in {"uerase", "uwrite"} => r.n = bmt_blk_idx,
           r.pc \in {"io", "pick", "take"} => r.cur = bb_tbl[r.blk],
           r.pc = "rerase" => r.new # TableBlock
    PROVE  TableInv'
<1>0. /\ th'[t] = r
      /\ \A s \in Threads \ {t} : th'[s] = th[s]
      /\ TableBlock' = TableBlock
  BY TypeOKParts DEF TableBlock
<1>1. OnlyTable'
  BY <1>0 DEF TableInv, OnlyTable, Located
<1>2. FlashTable'
  BY DEF TableInv, FlashTable, Located
<1>3. Saved'
  BY <1>0 DEF TableInv, Saved
<1>4. Locals'
  BY <1>0 DEF TableInv, Locals
<1> QED BY <1>1, <1>2, <1>3, <1>4 DEF TableInv

\* The same for a step to another place.
LEMMA GotoTable ==
    ASSUME TypeOK, MapInv, TableInv, NEW t \in Threads, th[t].pc \notin {"idle"} \cup Moving,
           \/ Return(t)
           \/ Goto(t, "mark")
           \/ Goto(t, "pick") /\ th[t].pc = "io",
           UNCHANGED <<bb_tbl, bmt_tbl, bmt_blk_idx, up>>,
           \A b \in Phys : table'[b].valid => table'[b] = table[b],
           table'[TableBlock] = table[TableBlock]
    PROVE  TableInv'
<1>1. up # "off" /\ th[t] \in Thread
  BY Working, TypeOKParts
<1>2. CASE Return(t)
  <2>1. Idle \in Thread /\ Idle.pc = "idle" /\ th' = [th EXCEPT ![t] = Idle]
    BY <1>2, InitialTypes DEF Return, Idle
  <2> QED BY <2>1, <1>1, QuietTable DEF Moving
<1>3. CASE Goto(t, "mark")
  <2> DEFINE r == [th[t] EXCEPT !.pc = "mark"]
  <2>1. r \in Thread /\ r.pc = "mark" /\ th' = [th EXCEPT ![t] = r]
    BY <1>1, <1>3, TypeOKParts DEF Goto, Thread, Labels
  <2> HIDE DEF r
  <2> QED BY <2>1, <1>1, QuietTable DEF Moving
<1>4. CASE Goto(t, "pick") /\ th[t].pc = "io"
  <2> DEFINE r == [th[t] EXCEPT !.pc = "pick"]
  <2>1. /\ r \in Thread /\ r.pc = "pick" /\ th' = [th EXCEPT ![t] = r]
        /\ r.cur = th[t].cur /\ r.blk = th[t].blk
    BY <1>1, <1>4, TypeOKParts DEF Goto, Thread, Labels
  <2>2. r.cur = bb_tbl[r.blk]
    BY <2>1, <1>4 DEF TableInv, Locals
  <2> HIDE DEF r
  <2> QED BY <2>1, <2>2, <1>1, QuietTable DEF Moving
<1> QED BY <1>2, <1>3, <1>4

\* Erasing a mapped block leaves the table.
LEMMA ErasedElsewhere ==
    ASSUME TypeOK, MapInv, TableInv, up # "off", NEW c \in Phys, c # TableBlock,
           Erase(c) \/ FailErase(c)
    PROVE  table'[TableBlock] = table[TableBlock]
<1>1. table \in [Phys -> Table] /\ TableBlock \in Phys
  BY TypeOKParts, NotTableBlock
<1>2. table' = table \/ table' = [table EXCEPT ![c] = NoTable]
  BY DEF Erase, FailErase
<1> QED BY <1>1, <1>2

LEMMA CallsTable ==
    ASSUME Orderly, TypeOK, MapInv, TableInv, NEW t \in Threads, NEW op \in Ops, NEW b \in Lba,
           NEW q \in PageNo, NEW v \in Values \cup {Blank}, NEW pc \in {"io", "pick"},
           MayCall(t), Call(t, op, b, q, v, pc), UNCHANGED <<chip, up, ram>>
    PROVE  TableInv'
<1> DEFINE r == [Idle EXCEPT !.pc = pc, !.op = op, !.blk = b, !.pg = q, !.val = v,
                             !.cur = get_mapping_block_index_v2(b)]
<1>1. get_mapping_block_index_v2(b) \in Phys /\ get_mapping_block_index_v2(b) = bb_tbl[b]
  BY MappingType DEF get_mapping_block_index_v2, Orderly
<1>2. r \in Thread /\ r.pc = pc /\ r.blk = b /\ r.cur = bb_tbl[b]
  BY <1>1, InitialTypes DEF Thread, Idle, Labels
<1>3. th' = [th EXCEPT ![t] = r]
  BY DEF Call
<1>4. UNCHANGED <<table, bb_tbl, bmt_tbl, bmt_blk_idx, up>> /\ th[t].pc = "idle" /\ up # "off"
  BY DEF chip, ram, MayCall
<1> HIDE DEF r
<1> QED BY <1>2, <1>3, <1>4, QuietTable DEF Moving

LEMMA IoTable ==
    ASSUME TypeOK, MapInv, TableInv, NEW t \in Threads, io_ok(t) \/ io_flip(t) \/ io_fail(t)
    PROVE  TableInv'
<1>0. /\ th[t] \in Thread /\ th[t].cur \in Phys /\ th[t].blk \in Lba /\ th[t].pc = "io"
      /\ th[t].cur = bb_tbl[th[t].blk] /\ th[t].pc \notin {"idle"} \cup Moving
  <2>1. th[t].pc = "io"
    BY DEF io_ok, io_flip, io_fail
  <2> QED BY <2>1, TypeOKParts DEF Thread, TableInv, Locals, Moving
<1>1. UNCHANGED <<bb_tbl, bmt_tbl, bmt_blk_idx, up>> /\ up # "off"
  BY <1>0, Working DEF io_ok, io_flip, io_fail, ram
<1>2. UNCHANGED table \/ Erase(th[t].cur) \/ FailErase(th[t].cur)
  BY DEF io_ok, io_flip, io_fail, chip
<1>3. \A b \in Phys : table'[b].valid => table'[b] = table[b]
  BY <1>0, <1>2, ErasedTable
<1>4. table'[TableBlock] = table[TableBlock]
  <2>1. th[t].cur # TableBlock
    BY <1>0, <1>1, NotTableBlock
  <2> QED BY <2>1, <1>0, <1>1, <1>2, ErasedElsewhere
<1>5. CASE io_ok(t)
  <2>1. Return(t)
    BY <1>5 DEF io_ok
  <2> QED BY <2>1, <1>0, <1>1, <1>3, <1>4, GotoTable
<1>6. CASE io_fail(t)
  <2>1. Goto(t, "pick")
    BY <1>6 DEF io_fail
  <2> QED BY <2>1, <1>0, <1>1, <1>3, <1>4, GotoTable
<1>7. CASE io_flip(t)
  <2> DEFINE r == [th[t] EXCEPT !.pc = "pick", !.op = "flip"]
  <2>1. r \in Thread /\ r.pc = "pick" /\ r.cur = th[t].cur /\ r.blk = th[t].blk
    BY <1>0 DEF Thread, Labels, Ops
  <2>2. th' = [th EXCEPT ![t] = r]
    BY <1>7, TypeOKParts DEF io_flip
  <2> HIDE DEF r
  <2> QED BY <2>1, <2>2, <1>0, <1>1, <1>3, <1>4, QuietTable DEF Moving
<1> QED BY <1>5, <1>6, <1>7

\* A free block is mapped; the entry of the table keeps its mark.
LEMMA TakeTable ==
    ASSUME TypeOK, MapInv, TableInv, NEW t \in Threads, take_block(t)
    PROVE  TableInv'
<1> DEFINE n == th[t].n
<1>0. /\ th[t] \in Thread /\ n \in PoolIdx /\ n < bmt_blk_idx
      /\ bmt_tbl \in [PoolIdx -> Entry] /\ th \in [Threads -> Thread]
  BY TypeOKParts DEF take_block, MapInv, Available
<1>1. up # "off" /\ \A s \in Threads \ {t} : th[s].pc = "idle"
  BY Working DEF take_block
<1>2. /\ bmt_blk_idx \in PoolIdx /\ n # bmt_blk_idx /\ bmt_tbl[n].block # TableBlock
  <2>1. /\ bmt_blk_idx \in PoolIdx /\ PoolIdx \subseteq Nat
        /\ \A i \in PoolIdx : i < bmt_blk_idx => bmt_tbl[i].block # TableBlock
    BY <1>1, NotTableBlock, Constants
  <2> HIDE DEF n
  <2>2. n # bmt_blk_idx
    BY <1>0, <2>1
  <2>3. bmt_tbl[n].block # TableBlock
    BY <1>0, <2>1
  <2> QED BY <2>1, <2>2, <2>3
<1>3. /\ bmt_tbl' = [bmt_tbl EXCEPT ![n].mapped = NORMAL_MAPPED]
      /\ UNCHANGED <<table, up, bmt_blk_idx>>
      /\ th' = [th EXCEPT ![t].pc = "rerase", ![t].new = bmt_tbl[n].block]
  BY DEF take_block, chip
<1>4. /\ \A i \in PoolIdx : bmt_tbl'[i].block = bmt_tbl[i].block
      /\ \A i \in PoolIdx \ {n} : bmt_tbl'[i].mapped = bmt_tbl[i].mapped
      /\ bmt_tbl'[n].mapped = NORMAL_MAPPED
  BY <1>0, <1>3 DEF Entry
<1>5. TableBlock' = TableBlock
  BY <1>2, <1>3, <1>4 DEF TableBlock
<1>6. /\ th'[t].pc = "rerase" /\ th'[t].new # TableBlock
      /\ \A s \in Threads \ {t} : th'[s] = th[s]
  BY <1>0, <1>2, <1>3 DEF Thread
<1>7. OnlyTable'
  <2>1. Located(bmt_tbl, bmt_blk_idx) /\ \A b \in Phys : table[b].valid => b = TableBlock
    BY <1>1 DEF TableInv, OnlyTable
  <2>2. 0..bmt_blk_idx \subseteq PoolIdx
    BY <1>2, SizeAssumption DEF PoolIdx
  <2>3. Located(bmt_tbl', bmt_blk_idx')
    BY <2>1, <2>2, <1>2, <1>3, <1>4 DEF Located, NORMAL_MAPPED, BMT_MAPPED
  <2> QED BY <2>1, <2>3, <1>3, <1>5 DEF OnlyTable
<1>8. FlashTable'
  BY <1>3 DEF TableInv, FlashTable, Located
<1>9. Saved'
  BY <1>6 DEF Saved, Moving
<1>10. Locals'
  BY <1>1, <1>5, <1>6 DEF Locals
<1> QED BY <1>7, <1>8, <1>9, <1>10 DEF TableInv

LEMMA RemapTable ==
    ASSUME Orderly, TypeOK, MapInv, TableInv, NEW t \in Threads,
           find_valid_block_in_pool(t) \/ remap_erase(t) \/ remap_copy(t)
             \/ markbad_old(t) \/ repair_copy(t)
    PROVE  TableInv'
<1>0. /\ th[t] \in Thread /\ th[t].new \in Phys /\ th[t].blk \in Lba /\ th \in [Threads -> Thread]
      /\ th[t].pc # "idle"
      /\ UNCHANGED <<bb_tbl, bmt_tbl, bmt_blk_idx, up>>
  BY TypeOKParts DEF Thread, ram, find_valid_block_in_pool, remap_erase, remap_copy,
                     markbad_old, repair_copy
<1>a. up # "off" /\ table \in [Phys -> Table] /\ TableBlock \in Phys
  BY <1>0, Working, NotTableBlock, TypeOKParts
<1>1. CASE find_valid_block_in_pool(t)
  <2>0. UNCHANGED table /\ th[t].pc = "pick" /\ th[t].pc \notin {"idle"} \cup Moving
    BY <1>1 DEF find_valid_block_in_pool, chip, Moving
  <2>1. CASE th[t].blk \in Range /\ Available # {}
    <3> DEFINE m == CHOOSE i \in Available : \A j \in Available : i <= j
    <3>1. m \in PoolIdx
      BY <2>1, FirstAvailable DEF Available
    <3>2. th' = [th EXCEPT ![t].pc = "take", ![t].n = m]
      BY <1>1, <2>1 DEF find_valid_block_in_pool
    <3> HIDE DEF m
    <3> DEFINE r == [th[t] EXCEPT !.pc = "take", !.n = m]
    <3>3. r \in Thread /\ r.pc = "take" /\ r.cur = th[t].cur /\ r.blk = th[t].blk
      BY <1>0, <3>1 DEF Thread, Labels
    <3>4. th' = [th EXCEPT ![t] = r]
      BY <3>2, <1>0
    <3>5. th[t].cur = bb_tbl[th[t].blk]
      BY <2>0 DEF TableInv, Locals
    <3> HIDE DEF r
    <3> QED BY <1>0, <1>a, <2>0, <3>3, <3>4, <3>5, QuietTable DEF Moving
  <2>2. CASE ~ (th[t].blk \in Range /\ Available # {})
    <3>1. Goto(t, "mark") \/ Return(t)
      BY <1>1, <2>2 DEF find_valid_block_in_pool, NotRemapped
    <3> QED BY <1>0, <2>0, <3>1, GotoTable
  <2> QED BY <2>1, <2>2
<1>2. CASE remap_erase(t)
  <2> DEFINE r == [th[t] EXCEPT !.pc = "rcopy"]
  <2>1. r \in Thread /\ r.pc = "rcopy" /\ th' = [th EXCEPT ![t] = r]
    BY <1>0, <1>2 DEF remap_erase, Goto, Thread, Labels
  <2>2. \A c \in Phys : table'[c].valid => table'[c] = table[c]
    BY <1>0, <1>2, ErasedTable DEF remap_erase
  <2> HIDE DEF r
  <2> QED BY <1>0, <1>a, <2>1, <2>2, QuietTable DEF Moving
<1>3. CASE remap_copy(t)
  <2> DEFINE r == [th[t] EXCEPT !.pc = "uerase", !.n = bmt_blk_idx]
  <2>1. bmt_blk_idx \in PoolIdx \cup {-1, FATAL}
    BY TypeOKParts
  <2>2. r \in Thread /\ r.pc = "uerase" /\ r.n = bmt_blk_idx
    BY <1>0, <2>1 DEF Thread, Labels
  <2>3. th' = [th EXCEPT ![t] = r] /\ UNCHANGED table
    BY <1>3, <1>0 DEF remap_copy
  <2> HIDE DEF r
  <2> QED BY <1>0, <1>a, <2>2, <2>3, QuietTable DEF Moving
<1>4. CASE markbad_old(t) \/ repair_copy(t)
  <2>1. Return(t) /\ th[t].pc \notin {"idle"} \cup Moving
    BY <1>4 DEF markbad_old, repair_copy, Moving
  <2>2. UNCHANGED table \/ table' = [table EXCEPT ![bb_tbl[th[t].blk]] = NoTable]
    BY <1>0, <1>4 DEF markbad_old, repair_copy, get_mapping_block_index_v2, Orderly
  <2>3. bb_tbl[th[t].blk] # TableBlock /\ ~ NoTable.valid
    BY <1>0, <1>a, NotTableBlock DEF NoTable
  <2>4. /\ \A c \in Phys : table'[c].valid => table'[c] = table[c]
        /\ table'[TableBlock] = table[TableBlock]
    BY <1>a, <2>2, <2>3
  <2> QED BY <1>0, <2>1, <2>4, GotoTable
<1> QED BY <1>1, <1>2, <1>3, <1>4

\* A call that is repeated goes to the block that is mapped now.
LEMMA RetryRecord ==
    ASSUME TypeOK, NEW t \in Threads, Retry(t)
    PROVE  /\ \A s \in Threads \ {t} : th'[s] = th[s]
           /\ \/ th'[t] = Idle
              \/ /\ th'[t].pc = "io" /\ th'[t].cur = get_mapping_block_index_v2(th[t].blk)
                 /\ th'[t].op = th[t].op /\ th'[t].blk = th[t].blk
                 /\ th'[t].pg = th[t].pg /\ th'[t].val = th[t].val
<1>1. th[t] \in Thread /\ th \in [Threads -> Thread]
  BY TypeOKParts
<1>2. CASE th' = [th EXCEPT ![t] = Idle]
  BY <1>1, <1>2
<1> DEFINE c == get_mapping_block_index_v2(th[t].blk)  k == th[t].retry + 1
           r == [th[t] EXCEPT !.pc = "io", !.retry = k, !.new = 0, !.n = 0, !.cur = c]
<1>3. CASE th' = [th EXCEPT ![t] = r]
  <2> HIDE DEF c, k
  <2>1. /\ r.pc = "io" /\ r.cur = c /\ r.op = th[t].op /\ r.blk = th[t].blk
        /\ r.pg = th[t].pg /\ r.val = th[t].val
    BY <1>1 DEF Thread
  <2> HIDE DEF r
  <2>2. th'[t] = r /\ \A s \in Threads \ {t} : th'[s] = th[s]
    BY <1>1, <1>3
  <2> QED BY <2>1, <2>2 DEF c
<1> QED BY <1>2, <1>3 DEF Retry, Return

\* upload_bmt erases the block of the table and writes it again.
LEMMA UploadTable ==
    ASSUME Orderly, TypeOK, InPool, MapInv, TableInv, TableWritable, NEW t \in Threads,
           upload_fatal(t) \/ upload_erase(t) \/ upload_write(t)
    PROVE  TableInv'
<1>0. /\ th[t] \in Thread /\ th \in [Threads -> Thread] /\ table \in [Phys -> Table]
      /\ th[t].pc \in {"uerase", "uwrite"} /\ th[t].pc # "idle"
  BY TypeOKParts DEF upload_fatal, upload_erase, upload_write
<1>1. /\ up # "off" /\ \A s \in Threads \ {t} : th[s].pc = "idle"
      /\ th[t].n = bmt_blk_idx /\ bmt_tbl[th[t].n].block = TableBlock
  BY <1>0, Working DEF TableInv, Locals, TableBlock
<1>2. /\ bmt_blk_idx \in PoolIdx /\ bmt_blk_idx # 0 /\ TableBlock \in Phys /\ TableBlock \notin Weak
      /\ Located(bmt_tbl, bmt_blk_idx)
      /\ \A b \in Phys : table[b].valid => b = TableBlock
  BY <1>1, NotTableBlock DEF TableWritable, TableInv, OnlyTable
<1>3. CASE upload_fatal(t)
  BY <1>1, <1>2, <1>3 DEF upload_fatal, NoSpace, Located, BMT_MAPPED, NORMAL_MAPPED
<1>4. CASE upload_erase(t)
  <2> DEFINE r == [th[t] EXCEPT !.pc = "uwrite"]
  <2>1. Erase(TableBlock) /\ Goto(t, "uwrite") /\ UNCHANGED <<up, ram>>
    BY <1>1, <1>2, <1>4 DEF upload_erase, Fails
  <2>2. r \in Thread /\ r.pc = "uwrite" /\ r.n = bmt_blk_idx /\ th' = [th EXCEPT ![t] = r]
    BY <2>1, <1>0, <1>1 DEF Goto, Thread, Labels
  <2>3. \A c \in Phys : table'[c].valid => table'[c] = table[c]
    BY <1>2, <2>1, ErasedTable
  <2>4. UNCHANGED <<bb_tbl, bmt_tbl, bmt_blk_idx, up>>
    BY <2>1 DEF ram
  <2> HIDE DEF r
  <2> QED BY <1>1, <2>2, <2>3, <2>4, QuietTable DEF Moving
<1>5. CASE upload_write(t)
  <2> DEFINE w == [valid |-> TRUE, bb |-> bb_tbl, bmt |-> bmt_tbl]
  <2>1. table' = [table EXCEPT ![TableBlock] = w] /\ Uploaded(t, bmt_blk_idx)
    BY <1>1, <1>2, <1>5 DEF upload_write, Fails
  <2>2. up' = "on" /\ UNCHANGED <<bb_tbl, bmt_tbl, bmt_blk_idx>> /\ TableBlock' = TableBlock
    BY <2>1 DEF Uploaded, TableBlock
  <2>3. w.valid /\ w.bb = bb_tbl /\ w.bmt = bmt_tbl
    OBVIOUS
  <2> HIDE DEF w
  <2>4. table'[TableBlock] = w /\ \A c \in Phys \ {TableBlock} : table'[c] = table[c]
    BY <2>1, <1>0, <1>2
  <2>5. OnlyTable'
    BY <1>2, <2>2, <2>4 DEF OnlyTable, Located
  <2>6. FlashTable'
    <3>1. \A c \in Phys : table'[c].valid => c = TableBlock
      BY <1>2, <2>4
    <3>2. Located(table'[TableBlock].bmt, bmt_blk_idx) /\ table'[TableBlock].bmt[bmt_blk_idx].block = TableBlock
      BY <1>2, <2>3, <2>4 DEF TableBlock
    <3>3. \A c \in Phys : table'[c].valid =>
            /\ c \notin Weak
            /\ \E i \in PoolIdx \ {0} : Located(table'[c].bmt, i) /\ table'[c].bmt[i].block = c
      BY <1>2, <3>1, <3>2
    <3>4. \A a, b \in Phys : table'[a].valid /\ table'[b].valid => a = b
      BY <3>1
    <3> QED BY <3>3, <3>4 DEF FlashTable, Located
  <2>7. Saved'
    BY <2>2, <2>3, <2>4 DEF Saved
  <2>8. Locals'
    <3>1. \A s \in Threads \ {t} : th'[s].pc = "idle"
      BY <2>1, <1>0, <1>1 DEF Uploaded, Retry, Goto, Return
    <3>2. /\ th'[t].pc \in {"idle", "io", "mark", "fixup"}
          /\ th'[t].pc = "io" => th'[t].cur = get_mapping_block_index_v2(th[t].blk) /\ th'[t].blk = th[t].blk
      <4>1. Retry(t) \/ Goto(t, "mark") \/ Goto(t, "fixup") \/ Return(t)
        BY <2>1 DEF Uploaded
      <4>2. Idle.pc = "idle"
        BY DEF Idle
      <4>3. CASE Retry(t)
        BY <4>2, <4>3, RetryRecord
      <4>4. CASE Goto(t, "mark") \/ Goto(t, "fixup")
        BY <4>4, <1>0 DEF Goto, Thread
      <4>5. CASE Return(t)
        BY <4>2, <4>5, <1>0 DEF Return
      <4> QED BY <4>1, <4>3, <4>4, <4>5
    <3>3. get_mapping_block_index_v2(th[t].blk) = bb_tbl'[th[t].blk]
      BY <1>0, <2>2 DEF Thread, get_mapping_block_index_v2, Orderly
    <3> QED BY <3>1, <3>2, <3>3 DEF Locals
  <2> QED BY <2>5, <2>6, <2>7, <2>8 DEF TableInv
<1> QED BY <1>3, <1>4, <1>5

\* Nothing of bmtd is left, the flash is as it was.
LEMMA ForgetTable ==
    ASSUME TableInv, Forget, UNCHANGED table
    PROVE  TableInv'
<1>1. up' = "off" /\ \A t \in Threads : th'[t].pc = "idle"
  BY DEF Forget, Idle
<1>2. FlashTable'
  BY DEF TableInv, FlashTable, Located
<1> QED BY <1>1, <1>2 DEF TableInv, OnlyTable, Saved, Locals

\* If the flash holds a table, init_v2 finds it, whichever weak blocks it cannot read.
LEMMA TableFound ==
    ASSUME TypeOK, TableInv, NEW F \in Unreadable, NEW b \in Phys, table[b].valid
    PROVE  /\ FoundBlock(F) = b /\ get_bmt_index(table[b].bmt) \in PoolIdx \ {0}
           /\ Located(table[b].bmt, get_bmt_index(table[b].bmt))
           /\ table[b].bmt[get_bmt_index(table[b].bmt)].block = b
<1>1. PICK i \in PoolIdx \ {0} : Located(table[b].bmt, i) /\ table[b].bmt[i].block = b
  BY DEF TableInv, FlashTable
<1>2. get_bmt_index(table[b].bmt) = i
  BY <1>1, LocatedIndex
<1>3. b \notin F
  BY DEF TableInv, FlashTable, Unreadable
<1>4. i \in 0..i
  BY <1>1, Constants
<1>5. pool_lba <= b
  BY <1>1, <1>4 DEF Located
<1>6. \A c \in Phys : table[c].valid => c = b
  BY DEF TableInv, FlashTable
<1>7. FoundBlock(F) = b
  BY <1>3, <1>5, <1>6, FoundOnly
<1> QED BY <1>1, <1>2, <1>7

LEMMA LoadTable ==
    ASSUME TypeOK, MapInv, TableInv, init_load
    PROVE  TableInv'
<1>1. PICK F \in Unreadable : LET b == FoundBlock(F) IN
         /\ b # 0 /\ bb_tbl' = table[b].bb /\ bmt_tbl' = table[b].bmt
         /\ bmt_blk_idx' = get_bmt_index(table[b].bmt)
  BY DEF init_load
<1> DEFINE b == FoundBlock(F)
<1>2. b \in Phys /\ table[b].valid
  BY <1>1, FoundValid
<1>3. up = "off" /\ up' = "on" /\ UNCHANGED <<table, th>>
  BY DEF init_load, chip
<1>4. bb_tbl' = table[b].bb /\ bmt_tbl' = table[b].bmt /\ bmt_blk_idx' = get_bmt_index(table[b].bmt)
  BY <1>1
<1> HIDE DEF b
<1>5. Located(bmt_tbl', bmt_blk_idx') /\ TableBlock' = b
  BY <1>2, <1>4, TableFound DEF TableBlock
<1>6. OnlyTable'
  BY <1>2, <1>3, <1>5 DEF OnlyTable, TableInv, FlashTable
<1>7. FlashTable'
  BY <1>3 DEF TableInv, FlashTable, Located
<1>8. Saved'
  BY <1>2, <1>3, <1>4, <1>5 DEF Saved
<1>9. Locals'
  BY <1>3 DEF Locals, MapInv
<1> QED BY <1>6, <1>7, <1>8, <1>9 DEF TableInv

\* The chip is scanned only when it holds no table.
LEMMA NothingFound ==
    ASSUME TypeOK, TableInv, NEW t \in Threads, init_scan(t)
    PROVE  \A b \in Phys : ~ table[b].valid
<1>0. PICK F \in Unreadable : FoundBlock(F) = 0 \/ get_bmt_index(table[FoundBlock(F)].bmt) = 0
  BY DEF init_scan
<1>1. ASSUME NEW b \in Phys, table[b].valid PROVE FALSE
  <2>1. FoundBlock(F) = b /\ get_bmt_index(table[b].bmt) # 0
    BY <1>1, TableFound
  <2>2. b = 0
    BY <1>0, <2>1
  <2>3. PICK i \in PoolIdx \ {0} : Located(table[b].bmt, i) /\ table[b].bmt[i].block = b
    BY <1>1 DEF TableInv, FlashTable
  <2>4. i \in 0..i
    BY <2>3, Constants
  <2> QED BY <2>2, <2>3, <2>4 DEF Located
<1> QED BY <1>1

LEMMA ScanTable ==
    ASSUME TypeOK, MapInv, TableInv, NEW t \in Threads, init_scan(t)
    PROVE  TableInv'
<1>0. PICK F \in Unreadable :
         \E bb \in [Lba -> Phys] :
              /\ ScannedBb(bb, marked \cup F)
              /\ \E po \in [PoolIdx -> Phys] :
                   /\ ScannedPool(po, bb[pool_lba - 1] + 1, marked \cup F)
                   /\ LastIdx(po) >= 0
                   /\ bmt_tbl' = [i \in PoolIdx |-> [block |-> po[i],
                          mapped |-> IF i = LastIdx(po) THEN BMT_MAPPED ELSE NO_MAPPED]]
                   /\ bmt_blk_idx' = LastIdx(po)
                   /\ th' = [th EXCEPT ![t] = [Idle EXCEPT !.pc = "uerase", !.op = "attach",
                                                           !.n = LastIdx(po)]]
  BY Zenon DEF init_scan
<1>1. PICK bb \in [Lba -> Phys], po \in [PoolIdx -> Phys] :
         /\ ScannedBb(bb, marked \cup F)
         /\ ScannedPool(po, bb[pool_lba - 1] + 1, marked \cup F)
         /\ LastIdx(po) >= 0
         /\ bmt_tbl' = [i \in PoolIdx |-> [block |-> po[i],
                mapped |-> IF i = LastIdx(po) THEN BMT_MAPPED ELSE NO_MAPPED]]
         /\ bmt_blk_idx' = LastIdx(po)
         /\ th' = [th EXCEPT ![t] = [Idle EXCEPT !.pc = "uerase", !.op = "attach",
                                                 !.n = LastIdx(po)]]
  BY <1>0, Zenon
<1>2. up = "off" /\ up' = "init" /\ UNCHANGED table
  BY DEF init_scan, chip
<1>3. \A b \in Phys : ~ table[b].valid
  BY NothingFound
<1>4. \A i \in PoolIdx : /\ bmt_tbl'[i].block = po[i]
                         /\ bmt_tbl'[i].mapped = IF i = LastIdx(po) THEN BMT_MAPPED ELSE NO_MAPPED
  BY <1>1
<1>5. Located(bmt_tbl', bmt_blk_idx')
  BY <1>1, <1>4, ScanLocated
<1>6. OnlyTable' /\ FlashTable' /\ Saved'
  BY <1>2, <1>3, <1>5 DEF OnlyTable, FlashTable, Saved
<1>7. Locals'
  <2>1. /\ th'[t].pc = "uerase" /\ th'[t].n = bmt_blk_idx'
        /\ \A s \in Threads \ {t} : th'[s].pc = "idle"
    BY <1>1, <1>2, TypeOKParts DEF MapInv, Idle
  <2> QED BY <2>1 DEF Locals
<1> QED BY <1>6, <1>7 DEF TableInv

LEMMA InitTable == Init => TypeOK /\ InPool /\ MapInv /\ TableInv
<1> SUFFICES ASSUME Init PROVE MapInv /\ TableInv
  BY InitTypeOK
<1>1. up = "off" /\ (\A t \in Threads : th[t].pc = "idle") /\ \A b \in Phys : ~ table[b].valid
  BY DEF Init, Idle, NoTable
<1>2. MapInv
  BY <1>1 DEF MapInv, Alone
<1> QED BY <1>1, <1>2 DEF TableInv, OnlyTable, FlashTable, Saved, Locals

LEMMA NextTable ==
    Orderly /\ TypeOK /\ InPool /\ MapInv /\ TableInv /\ TableWritable /\ [Next]_vars => TableInv'
<1> SUFFICES ASSUME Orderly, TypeOK, InPool, MapInv, TableInv, TableWritable, [Next]_vars
             PROVE  TableInv'
  OBVIOUS
<1>0. 1 \in PageNo /\ Logical \subseteq Lba
  BY Constants
<1>1. CASE UNCHANGED vars
  BY <1>1 DEF vars, TableInv, OnlyTable, FlashTable, Saved, Locals, Located, TableBlock
<1>2. ASSUME NEW t \in Threads, NEW b \in Logical, NEW q \in PageNo, mtk_bmt_read(t, b, q)
      PROVE  TableInv'
  BY <1>0, <1>2, CallsTable DEF mtk_bmt_read, Ops, ram
<1>3. ASSUME NEW t \in Threads, NEW b \in Logical, NEW q \in PageNo, NEW v \in Values,
             mtk_bmt_write(t, b, q, v)
      PROVE  TableInv'
  BY <1>0, <1>3, CallsTable DEF mtk_bmt_write, Ops, ram
<1>4. ASSUME NEW t \in Threads, NEW b \in Logical,
             \/ mtk_bmt_mtd_erase(t, b) \/ mtk_bmt_block_isbad(t, b) \/ mtk_bmt_block_markbad(t, b)
      PROVE  TableInv'
  BY <1>0, <1>4, CallsTable DEF mtk_bmt_mtd_erase, mtk_bmt_block_isbad, mtk_bmt_block_markbad, Ops, ram
<1>5. ASSUME NEW t \in Threads, NEW b \in DebugBlocks,
             \/ mtk_bmt_debug_mark_bad(t, b) \/ mtk_bmt_debug_mark_good(t, b)
             \/ mtk_bmt_debug_repair(t, b) \/ mtk_bmt_debug_v2(t)
      PROVE  TableInv'
  BY <1>5 DEF Orderly, mtk_bmt_debug_mark_bad, mtk_bmt_debug_mark_good, mtk_bmt_debug_repair,
              mtk_bmt_debug_v2
<1>6. ASSUME NEW t \in Threads, mtk_bmt_debug_v2(t) PROVE TableInv'
  BY <1>6 DEF Orderly, mtk_bmt_debug_v2
<1>7. ASSUME NEW t \in Threads, Step(t) PROVE TableInv'
  BY <1>7, IoTable, TakeTable, RemapTable, UploadTable DEF Step
<1>8. ASSUME NEW t \in Threads, init_scan(t) PROVE TableInv'
  BY <1>8, ScanTable
<1>9. CASE init_load
  BY <1>9, LoadTable
<1>10. CASE mtk_bmt_detach \/ crash
  BY <1>10, ForgetTable DEF mtk_bmt_detach, crash, chip
<1> QED BY <1>1, <1>2, <1>3, <1>4, <1>5, <1>6, <1>7, <1>8, <1>9, <1>10 DEF Next

\* When no call is under way the flash holds the table of the memory.
LEMMA TableInvPersistent == TypeOK /\ MapInv /\ TableInv => Persistent
<1> SUFFICES ASSUME TypeOK, MapInv, TableInv, up = "on", \A t \in Threads : th[t].pc = "idle"
             PROVE  LET b == FoundBlock({}) IN
                      /\ b # 0
                      /\ table[b].bb = bb_tbl /\ table[b].bmt = bmt_tbl
                      /\ get_bmt_index(table[b].bmt) = bmt_blk_idx
  BY DEF Persistent
<1>1. table[TableBlock].valid /\ table[TableBlock].bb = bb_tbl /\ table[TableBlock].bmt = bmt_tbl
  BY DEF TableInv, Saved, Moving
<1>2. TableBlock \in Phys /\ TableBlock # 0 /\ bmt_blk_idx \in PoolIdx
  BY NotTableBlock
<1>3. {} \in Unreadable
  BY DEF Unreadable
<1>4. FoundBlock({}) = TableBlock
  BY <1>1, <1>2, <1>3, TableFound
<1>5. get_bmt_index(bmt_tbl) = bmt_blk_idx
  BY LocatedIndex DEF TableInv, OnlyTable
<1> QED BY <1>1, <1>2, <1>4, <1>5, Zenon

\* As long as the block of the table can be written, the table that the next
\* attach will find is the one in memory whenever no call is under way: no
\* remap, erasure or restart, and no loss of power between erasing the table
\* and writing it, leaves an older table behind or loses the current one.
THEOREM TableReachesFlash == Orderly => (Spec /\ []TableWritable => []Persistent)
<1> SUFFICES ASSUME Orderly PROVE Spec /\ []TableWritable => []Persistent
  OBVIOUS
<1>1. Init => TypeOK /\ InPool /\ MapInv /\ TableInv
  BY InitTable
<1>2. TypeOK /\ InPool /\ MapInv /\ TableInv /\ TableWritable /\ [Next]_vars
        => (TypeOK /\ InPool /\ MapInv /\ TableInv)'
  BY NextTypeOK, NextMap, NextTable
<1>3. TypeOK /\ InPool /\ MapInv /\ TableInv => Persistent
  BY TableInvPersistent
<1> QED BY <1>1, <1>2, <1>3, PTL DEF Spec

-----------------------------------------------------------------------------
(***************************************************************************)
(* A block that was replaced stays out of use.                             *)
(***************************************************************************)

\* The blocks of the pool are good from the factory and stay so.
SoundPool == \A b \in Phys : pool_lba <= b => b \notin Weak /\ \A S \in InitBad : b \notin S

\* Neither a mapped block nor one that may still be handed out was replaced.
NoBad(bb, bmt, bad) ==
    /\ \A b \in Lba : bb[b] \notin bad
    /\ \A i \in PoolIdx : bmt[i].block # 0 /\ bmt[i].mapped = NO_MAPPED => bmt[i].block \notin bad

\* That holds for memory and, while the layer is detached, for the flash; a
\* chip without a table has never been used.
ReplacedInv ==
    /\ up # "off" => bmt_blk_idx # 0 /\ NoBad(bb_tbl, bmt_tbl, replaced)
    /\ up = "off" => \A b \in Phys : table[b].valid => NoBad(table[b].bb, table[b].bmt, replaced)
    /\ up = "off" /\ (\A b \in Phys : ~ table[b].valid) => replaced = {} /\ marked \in InitBad

\* Behind the logical blocks nothing but the mark of a pool block is looked at.
LEMMA SoundWritable == SoundPool /\ TypeOK /\ MapInv /\ TableInv /\ ReplacedInv => TableWritable
<1> SUFFICES ASSUME SoundPool, TypeOK, MapInv, TableInv, ReplacedInv, up # "off"
             PROVE  bmt_blk_idx # 0 /\ TableBlock \notin Weak
  BY DEF TableWritable
<1>1. bmt_blk_idx \in PoolIdx /\ TableBlock \in Phys /\ TableBlock # 0
  BY NotTableBlock
<1>2. pool_lba <= TableBlock
  BY <1>1 DEF TableInv, OnlyTable, Located, TableBlock
<1> QED BY <1>1, <1>2 DEF SoundPool, ReplacedInv

\* find_valid_block stays where it is on a good block.
LEMMA FindHere ==
    ASSUME NEW b \in Phys, NEW bd, b \notin bd
    PROVE  find_valid_block(b, bd) = b
<1> DEFINE C == {c \in b..(b + bb_max) : Good(c, bd)}
<1>1. b \in Nat /\ bb_max \in Nat
  BY SizeAssumption, LimitAssumption DEF Phys
<1>2. b \in C /\ (\A d \in C : b <= d) /\ C \subseteq Nat
  BY <1>1 DEF Good
<1>3. find_valid_block(b, bd) = CHOOSE c \in C : \A d \in C : c <= d
  BY <1>2 DEF find_valid_block
<1> HIDE DEF C
<1>4. \A c \in C : (\A d \in C : c <= d) => c = b
  BY <1>1, <1>2
<1>5. \E c \in C : \A d \in C : c <= d
  BY <1>2
<1> QED BY <1>3, <1>4, <1>5

\* A sound pool has a block besides the one of the table.
LEMMA ScanRoom ==
    ASSUME NEW bd, \A c \in Phys : pool_lba <= c => c \notin bd,
           NEW bb \in [Lba -> Phys], ScannedBb(bb, bd), bb[pool_lba - 1] + 1 < total_blks - 2,
           NEW po \in [PoolIdx -> Phys], ScannedPool(po, bb[pool_lba - 1] + 1, bd),
           LastIdx(po) >= 0
    PROVE  LastIdx(po) # 0
<1> DEFINE pba == bb[pool_lba - 1] + 1  last == bb[pool_lba - 1]
<1>1. pool_lba - 1 \in Lba /\ pool_lba \in Nat /\ Phys \subseteq Nat /\ total_blks \in Nat /\ 2 < pool_lba
  BY SizeAssumption DEF Lba, Phys
<1>2. last \in Nat /\ pool_lba - 1 <= last
  BY <1>1, ScannedBbAhead
<1>3. pba \in Nat /\ pool_lba <= pba
  <2> HIDE DEF last
  <2>1. last + 1 \in Nat /\ pool_lba <= last + 1
    BY <1>1, <1>2
  <2> QED BY <2>1 DEF last
<1>4. ScannedPool(po, pba, bd) /\ pba < total_blks - 2
  OBVIOUS
<1> HIDE DEF pba, last
<1>5. /\ pba \in Phys /\ pba + 1 \in Phys /\ pool_lba <= pba + 1 /\ pba # 0 /\ pba + 1 # 0
      /\ 0 \in PoolIdx /\ 1 \in PoolIdx
  BY <1>1, <1>3, <1>4 DEF Phys, PoolIdx
<1>6. find_valid_block(pba, bd) = pba
  BY <1>3, <1>5, FindHere
<1>7. find_valid_block(pba + 1, bd) = pba + 1
  BY <1>5, FindHere
<1>8. po[0] = pba
  BY <1>4, <1>5, <1>6 DEF ScannedPool
<1>9. po[1] = pba + 1
  <2>1. po[1] = IF po[0] = 0 THEN 0 ELSE find_valid_block(po[0] + 1, bd)
    BY <1>4, <1>5 DEF ScannedPool
  <2> QED BY <2>1, <1>5, <1>7, <1>8
<1>10. \A j \in PoolIdx : LastIdx(po) < j => po[j] = 0
  BY LastOfPool
<1> QED BY <1>5, <1>9, <1>10

\* A step that leaves bmtd alone while the layer is attached.
LEMMA QuietReplaced ==
    ASSUME ReplacedInv, up # "off", up' # "off",
           UNCHANGED <<bb_tbl, bmt_tbl, bmt_blk_idx, replaced>>
    PROVE  ReplacedInv'
BY DEF ReplacedInv, NoBad

\* The block that is replaced is mapped no more, and the pool does not have it.
LEMMA TakeReplaced ==
    ASSUME TypeOK, MapInv, TableInv, ReplacedInv, NEW t \in Threads, take_block(t)
    PROVE  ReplacedInv'
<1> DEFINE n == th[t].n  b == th[t].blk  x == bmt_tbl[n].block  c == th[t].cur
<1>0. /\ b \in Lba /\ n \in PoolIdx /\ n \in Available
      /\ bmt_tbl \in [PoolIdx -> Entry] /\ bb_tbl \in [Lba -> Phys]
      /\ c = bb_tbl[b]
  BY TypeOKParts DEF Thread, take_block, MapInv, Available, TableInv, Locals
<1>1. up # "off"
  BY Working DEF take_block
<1>2. GoodTable(bb_tbl, bmt_tbl) /\ NoBad(bb_tbl, bmt_tbl, replaced) /\ bmt_blk_idx # 0
  BY <1>1 DEF MapInv, ReplacedInv
<1>3. /\ bmt_tbl' = [bmt_tbl EXCEPT ![n].mapped = NORMAL_MAPPED]
      /\ bb_tbl' = [bb_tbl EXCEPT ![b] = x]
      /\ replaced' = replaced \cup {c}
      /\ UNCHANGED <<up, bmt_blk_idx>>
  BY DEF take_block
<1>4. x # 0 /\ bmt_tbl[n].mapped = NO_MAPPED
  BY <1>0 DEF Available
<1> HIDE DEF n, b, x, c
<1>5. /\ \A i \in PoolIdx : bmt_tbl'[i].block = bmt_tbl[i].block
      /\ \A i \in PoolIdx \ {n} : bmt_tbl'[i].mapped = bmt_tbl[i].mapped
      /\ bmt_tbl'[n].mapped = NORMAL_MAPPED
      /\ bb_tbl'[b] = x
      /\ \A a \in Lba \ {b} : bb_tbl'[a] = bb_tbl[a]
  BY <1>0, <1>3 DEF Entry
<1>6. x # c /\ x \notin replaced
  BY <1>0, <1>2, <1>4 DEF GoodTable, NoBad, NO_MAPPED, NORMAL_MAPPED, x
<1>7. \A a \in Lba : bb_tbl'[a] \notin replaced'
  BY <1>0, <1>2, <1>3, <1>5, <1>6 DEF GoodTable, NoBad
<1>8. ASSUME NEW i \in PoolIdx, bmt_tbl'[i].block # 0, bmt_tbl'[i].mapped = NO_MAPPED
      PROVE  bmt_tbl'[i].block \notin replaced'
  <2>1. i # n /\ bmt_tbl[i].block # 0 /\ bmt_tbl[i].mapped = NO_MAPPED
    BY <1>5, <1>8 DEF NO_MAPPED, NORMAL_MAPPED
  <2>2. bmt_tbl[i].block # c
    BY <1>0, <1>2, <2>1 DEF GoodTable, NO_MAPPED, NORMAL_MAPPED
  <2> QED BY <1>2, <1>3, <1>5, <2>1, <2>2 DEF NoBad
<1> QED BY <1>1, <1>2, <1>3, <1>7, <1>8 DEF ReplacedInv, NoBad

LEMMA ScanReplaced ==
    ASSUME SoundPool, TypeOK, TableInv, ReplacedInv, NEW t \in Threads, init_scan(t)
    PROVE  ReplacedInv'
<1>0. PICK F \in Unreadable :
         \E bb \in [Lba -> Phys] :
              /\ ScannedBb(bb, marked \cup F)
              /\ bb[pool_lba - 1] + 1 < total_blks - 2
              /\ \E po \in [PoolIdx -> Phys] :
                   /\ ScannedPool(po, bb[pool_lba - 1] + 1, marked \cup F)
                   /\ LastIdx(po) >= 0
                   /\ bmt_blk_idx' = LastIdx(po)
  BY Zenon DEF init_scan
<1>1. up = "off" /\ up' = "init" /\ UNCHANGED <<table, replaced>>
  BY DEF init_scan, chip
<1>2. replaced = {} /\ marked \in InitBad
  BY <1>1, NothingFound DEF ReplacedInv
<1>3. F \subseteq Weak
  BY DEF Unreadable
<1>4. \A c \in Phys : pool_lba <= c => c \notin marked \cup F
  BY <1>2, <1>3 DEF SoundPool
<1>5. bmt_blk_idx' # 0
  <2> DEFINE bd == marked \cup F
  <2>1. PICK bb \in [Lba -> Phys], po \in [PoolIdx -> Phys] :
          /\ ScannedBb(bb, bd)
          /\ bb[pool_lba - 1] + 1 < total_blks - 2
          /\ ScannedPool(po, bb[pool_lba - 1] + 1, bd)
          /\ LastIdx(po) >= 0
          /\ bmt_blk_idx' = LastIdx(po)
    BY <1>0, Zenon
  <2>2. \A c \in Phys : pool_lba <= c => c \notin bd
    BY <1>4
  <2> HIDE DEF bd
  <2> QED BY <2>1, <2>2, ScanRoom
<1> QED BY <1>1, <1>2, <1>5 DEF ReplacedInv, NoBad

LEMMA LoadReplaced ==
    ASSUME TypeOK, TableInv, ReplacedInv, init_load
    PROVE  ReplacedInv'
<1>1. PICK F \in Unreadable : LET b == FoundBlock(F) IN
         /\ b # 0 /\ get_bmt_index(table[b].bmt) # 0
         /\ bb_tbl' = table[b].bb /\ bmt_tbl' = table[b].bmt
         /\ bmt_blk_idx' = get_bmt_index(table[b].bmt)
  BY DEF init_load
<1>2. FoundBlock(F) \in Phys /\ table[FoundBlock(F)].valid
  BY <1>1, FoundValid
<1>3. up = "off" /\ up' = "on" /\ UNCHANGED replaced
  BY DEF init_load
<1>4. NoBad(bb_tbl', bmt_tbl', replaced) /\ bmt_blk_idx' # 0
  BY <1>1, <1>2, <1>3 DEF ReplacedInv
<1> QED BY <1>3, <1>4 DEF ReplacedInv

LEMMA DetachReplaced ==
    ASSUME TypeOK, MapInv, TableInv, ReplacedInv, mtk_bmt_detach
    PROVE  ReplacedInv'
<1>1. up = "on" /\ up' = "off" /\ UNCHANGED <<table, replaced>> /\ \A t \in Threads : th[t].pc = "idle"
  BY DEF mtk_bmt_detach, Forget, chip
<1>2. /\ table[TableBlock].valid /\ table[TableBlock].bb = bb_tbl /\ table[TableBlock].bmt = bmt_tbl
      /\ \A b \in Phys : table[b].valid => b = TableBlock
      /\ TableBlock \in Phys
  BY <1>1, NotTableBlock DEF TableInv, Saved, OnlyTable, Moving
<1>3. NoBad(bb_tbl, bmt_tbl, replaced)
  BY <1>1 DEF ReplacedInv
<1>4. \A b \in Phys : table[b].valid => NoBad(table[b].bb, table[b].bmt, replaced)
  BY <1>2, <1>3
<1> QED BY <1>1, <1>2, <1>4 DEF ReplacedInv

\* The steps of a thread other than take_block.
LEMMA StepKeeps ==
    ASSUME TypeOK, MapInv, TableInv, TableWritable, NEW t \in Threads, Step(t), ~ take_block(t)
    PROVE  up # "off" /\ up' # "off" /\ UNCHANGED <<bb_tbl, bmt_tbl, bmt_blk_idx, replaced>>
<1>1. th[t].pc # "idle"
  <2>1. CASE io_ok(t) \/ io_flip(t) \/ io_fail(t)
    BY <2>1 DEF io_ok, io_flip, io_fail
  <2>2. CASE find_valid_block_in_pool(t) \/ remap_erase(t) \/ remap_copy(t)
    BY <2>2 DEF find_valid_block_in_pool, remap_erase, remap_copy
  <2>3. CASE upload_fatal(t) \/ upload_erase(t) \/ upload_write(t)
    BY <2>3 DEF upload_fatal, upload_erase, upload_write
  <2>4. CASE markbad_old(t) \/ repair_copy(t)
    BY <2>4 DEF markbad_old, repair_copy
  <2> QED BY <2>1, <2>2, <2>3, <2>4 DEF Step
<1>2. up # "off"
  BY <1>1, Working
<1>3. CASE \/ io_ok(t) \/ io_flip(t) \/ io_fail(t) \/ find_valid_block_in_pool(t)
           \/ remap_erase(t) \/ remap_copy(t) \/ markbad_old(t) \/ repair_copy(t)
  BY <1>2, <1>3 DEF io_ok, io_flip, io_fail, find_valid_block_in_pool, remap_erase, remap_copy,
                    markbad_old, repair_copy, ram
<1>4. CASE upload_fatal(t) \/ upload_erase(t) \/ upload_write(t)
  <2>1. /\ th[t].n = bmt_blk_idx /\ bmt_tbl[th[t].n].block = TableBlock
        /\ bmt_blk_idx \in PoolIdx /\ TableBlock \notin Weak
        /\ bmt_tbl[bmt_blk_idx].mapped # NORMAL_MAPPED
    BY <1>2, <1>4, NotTableBlock DEF TableInv, Locals, OnlyTable, Located, TableWritable, TableBlock,
         upload_fatal, upload_erase, upload_write, BMT_MAPPED, NORMAL_MAPPED
  <2>2. CASE upload_fatal(t)
    BY <2>1, <2>2 DEF upload_fatal, NoSpace
  <2>3. CASE upload_erase(t)
    BY <1>2, <2>1, <2>3 DEF upload_erase, Fails, ram
  <2>4. CASE upload_write(t)
    BY <1>2, <2>1, <2>4 DEF upload_write, Fails, Uploaded
  <2> QED BY <1>4, <2>2, <2>3, <2>4
<1> QED BY <1>3, <1>4 DEF Step

LEMMA InitReplaced == Init => ReplacedInv
<1> SUFFICES ASSUME Init PROVE ReplacedInv
  OBVIOUS
<1>1. up = "off" /\ replaced = {} /\ marked \in InitBad /\ \A b \in Phys : ~ table[b].valid
  BY DEF Init, NoTable
<1> QED BY <1>1 DEF ReplacedInv

LEMMA NextReplaced ==
    ASSUME Orderly, SoundPool, "crash" \notin Env, TypeOK, MapInv, TableInv, TableWritable,
           ReplacedInv, [Next]_vars
    PROVE  ReplacedInv'
<1>1. CASE UNCHANGED vars
  BY <1>1 DEF vars, ReplacedInv, NoBad
<1>2. ASSUME NEW t \in Threads, NEW b \in Logical,
             \/ \E q \in PageNo : mtk_bmt_read(t, b, q) \/ \E v \in Values : mtk_bmt_write(t, b, q, v)
             \/ mtk_bmt_mtd_erase(t, b) \/ mtk_bmt_block_isbad(t, b) \/ mtk_bmt_block_markbad(t, b)
      PROVE  ReplacedInv'
  <2>1. up = "on" /\ UNCHANGED <<up, bb_tbl, bmt_tbl, bmt_blk_idx, replaced>>
    BY <1>2 DEF mtk_bmt_read, mtk_bmt_write, mtk_bmt_mtd_erase, mtk_bmt_block_isbad,
                mtk_bmt_block_markbad, MayCall, ram
  <2> QED BY <2>1, QuietReplaced
<1>3. ASSUME NEW t \in Threads, NEW b \in DebugBlocks,
             \/ mtk_bmt_debug_mark_bad(t, b) \/ mtk_bmt_debug_mark_good(t, b)
             \/ mtk_bmt_debug_repair(t, b)
      PROVE  FALSE
  BY <1>3 DEF Orderly, mtk_bmt_debug_mark_bad, mtk_bmt_debug_mark_good, mtk_bmt_debug_repair
<1>4. ASSUME NEW t \in Threads, mtk_bmt_debug_v2(t) PROVE FALSE
  BY <1>4 DEF Orderly, mtk_bmt_debug_v2
<1>5. ASSUME NEW t \in Threads, Step(t) PROVE ReplacedInv'
  BY <1>5, TakeReplaced, StepKeeps, QuietReplaced
<1>6. ASSUME NEW t \in Threads, init_scan(t) PROVE ReplacedInv'
  BY <1>6, ScanReplaced
<1>7. CASE init_load
  BY <1>7, LoadReplaced
<1>8. CASE mtk_bmt_detach
  BY <1>8, DetachReplaced
<1>9. CASE crash
  BY <1>9 DEF crash
<1> QED BY <1>1, <1>2, <1>3, <1>4, <1>5, <1>6, <1>7, <1>8, <1>9 DEF Next

\* If the pool is sound and the power stays on, a block that was replaced
\* because an access failed or a user marked it is never mapped again, neither
\* by a later remap nor by the table that a later attach takes over.
THEOREM ReplacedBlocksStayOut ==
    Orderly /\ SoundPool /\ "crash" \notin Env => (Spec => []BadStaysOut)
<1> SUFFICES ASSUME Orderly, SoundPool, "crash" \notin Env PROVE Spec => []BadStaysOut
  OBVIOUS
<1> DEFINE I == TypeOK /\ InPool /\ MapInv /\ TableInv /\ ReplacedInv
<1>1. Init => I
  BY InitTable, InitReplaced
<1>2. I /\ [Next]_vars => I'
  BY SoundWritable, NextTypeOK, NextMap, NextTable, NextReplaced
<1>3. I => BadStaysOut
  BY Constants DEF ReplacedInv, NoBad, BadStaysOut
<1> HIDE DEF I
<1> QED BY <1>1, <1>2, <1>3, PTL DEF Spec

\* If the pool is sound and the power stays on, the block of the table can
\* always be written, so that the table in memory is the one on the flash
\* whenever no call is under way.
THEOREM SoundPoolKeepsTable ==
    Orderly /\ SoundPool /\ "crash" \notin Env => (Spec => []Persistent)
<1> SUFFICES ASSUME Orderly, SoundPool, "crash" \notin Env PROVE Spec => []Persistent
  OBVIOUS
<1> DEFINE I == TypeOK /\ InPool /\ MapInv /\ TableInv /\ ReplacedInv
<1>1. Init => I
  BY InitTable, InitReplaced
<1>2. I /\ [Next]_vars => I'
  BY SoundWritable, NextTypeOK, NextMap, NextTable, NextReplaced
<1>3. I => Persistent
  BY TableInvPersistent
<1> HIDE DEF I
<1> QED BY <1>1, <1>2, <1>3, PTL DEF Spec

-----------------------------------------------------------------------------
(***************************************************************************)
(* Users read what they have written.                                      *)
(***************************************************************************)

\* The users of a block, expecting u, are satisfied by the content d.
Match(u, d) == \A q \in PageNo : u[q] = Unknown \/ u[q] = d[q]

\* Between the new mapping and the end of the copy the data is in the old
\* block, which nobody is mapped to; the new one is a pool block, erased first.
CopyData(r, u, d, bb) ==
    r.pc \in {"rerase", "rcopy"} =>
      /\ r.blk \in Logical => Match(u[r.blk], d[r.cur])
      /\ r.new = bb[r.blk] /\ pool_lba <= r.new
      /\ \A b \in Lba : bb[b] # r.cur
      /\ r.pc = "rcopy" => d[r.new] = BlankBlock

\* A write has an erased page before it and none that is written behind it; an
\* erasure leaves nothing to expect.
CallData(r, u, d, bb) ==
    r.pc \notin {"idle", "mark"} /\ r.blk \in Logical =>
      /\ r.op = "write" =>
           /\ u[r.blk][r.pg] = Unknown
           /\ \A q \in PageNo : r.pg < q => u[r.blk][q] = Blank
           /\ r.pc \in {"io", "uerase", "uwrite"} => d[bb[r.blk]][r.pg] = Blank
      /\ r.op = "erase" => \A q \in PageNo : u[r.blk][q] = Unknown

ThreadData(r, u, d, bb) ==
    r.op # "repair" /\ r.pc # "fixup" /\ CopyData(r, u, d, bb) /\ CallData(r, u, d, bb)

\* Every block whose data is not being moved holds what its users expect, in
\* memory's mapping and, while detached, in the one of the flash; a chip
\* without a table is blank.
DataInv ==
    /\ up # "off" => \A b \in Logical :
         (\A t \in Threads : th[t].pc \in {"rerase", "rcopy"} => th[t].blk # b) =>
           Match(user[b], nand[bb_tbl[b]])
    /\ up = "off" => \A c \in Phys, b \in Logical :
         table[c].valid => Match(user[b], nand[table[c].bb[b]])
    /\ up = "off" /\ (\A c \in Phys : ~ table[c].valid) =>
         nand = [b \in Phys |-> BlankBlock] /\ user = [b \in Logical |-> BlankBlock]
    /\ \A t \in Threads : ThreadData(th[t], user, nand, bb_tbl)

\* The types that the steps below need.
LEMMA DataTypes ==
    ASSUME TypeOK
    PROVE  /\ nand \in [Phys -> [PageNo -> Content]]
           /\ user \in [Logical -> [PageNo -> Values \cup {Blank, Unknown}]]
           /\ bb_tbl \in [Lba -> Phys] /\ th \in [Threads -> Thread] /\ Logical \subseteq Lba
BY TypeOKParts, Constants

\* A thread that does nothing asks for nothing.
LEMMA IdleData ==
    ASSUME NEW r, r.pc = "idle", r.op # "repair"
    PROVE  \A u, d, bb : ThreadData(r, u, d, bb)
BY DEF ThreadData, CopyData, CallData

\* A step of thread t, the only one at work, while the layer is attached.
LEMMA DataStep ==
    ASSUME TypeOK, DataInv, NEW t \in Threads, NEW r, th' = [th EXCEPT ![t] = r],
           \A s \in Threads \ {t} : th[s].pc = "idle",
           up' # "off",
           ThreadData(r, user', nand', bb_tbl'),
           \A b \in Logical : ~ (r.pc \in {"rerase", "rcopy"} /\ r.blk = b) =>
             Match(user'[b], nand'[bb_tbl'[b]])
    PROVE  DataInv'
<1>0. th'[t] = r /\ \A s \in Threads \ {t} : th'[s] = th[s]
  BY TypeOKParts
<1>1. \A s \in Threads : ThreadData(th'[s], user', nand', bb_tbl')
  <2>1. ASSUME NEW s \in Threads \ {t} PROVE ThreadData(th'[s], user', nand', bb_tbl')
    <3>1. th[s].pc = "idle" /\ th[s].op # "repair"
      BY DEF DataInv, ThreadData
    <3> QED BY <1>0, <2>1, <3>1, IdleData
  <2> QED BY <1>0, <2>1
<1>2. \A b \in Logical :
        (\A s \in Threads : th'[s].pc \in {"rerase", "rcopy"} => th'[s].blk # b) =>
          Match(user'[b], nand'[bb_tbl'[b]])
  BY <1>0
<1> QED BY <1>1, <1>2 DEF DataInv

\* What the invariant says of the thread that is at work.
LEMMA DataFacts ==
    ASSUME TypeOK, MapInv, DataInv, NEW t \in Threads, th[t].pc # "idle"
    PROVE  /\ up # "off" /\ \A s \in Threads \ {t} : th[s].pc = "idle"
           /\ th[t] \in Thread /\ th[t].op # "repair" /\ th[t].pc # "fixup"
           /\ CopyData(th[t], user, nand, bb_tbl) /\ CallData(th[t], user, nand, bb_tbl)
           /\ \A b \in Logical : ~ (th[t].pc \in {"rerase", "rcopy"} /\ th[t].blk = b) =>
                Match(user[b], nand[bb_tbl[b]])
<1>1. up # "off" /\ \A s \in Threads \ {t} : th[s].pc = "idle"
  BY Working
<1>2. \A b \in Logical :
         (\A s \in Threads : th[s].pc \in {"rerase", "rcopy"} => th[s].blk # b) =>
           Match(user[b], nand[bb_tbl[b]])
  BY <1>1 DEF DataInv
<1>3. ASSUME NEW b \in Logical, ~ (th[t].pc \in {"rerase", "rcopy"} /\ th[t].blk = b)
      PROVE  \A s \in Threads : th[s].pc \in {"rerase", "rcopy"} => th[s].blk # b
  BY <1>1, <1>3
<1>4. ThreadData(th[t], user, nand, bb_tbl) /\ th[t] \in Thread
  BY TypeOKParts DEF DataInv
<1> QED BY <1>1, <1>2, <1>3, <1>4 DEF ThreadData

\* A step that changes neither data nor mapping.
LEMMA QuietData ==
    ASSUME TypeOK, MapInv, DataInv, NEW t \in Threads, NEW r, th' = [th EXCEPT ![t] = r],
           th[t].pc \notin {"idle", "rerase", "rcopy"}, up' # "off",
           UNCHANGED <<nand, user, bb_tbl>>,
           r.pc \notin {"rerase", "rcopy", "fixup"}, r.op # "repair",
           \/ r.pc = "idle"
           \/ r.pc = "mark"
           \/ r.op \notin {"write", "erase"}
           \/ /\ r.op = th[t].op /\ r.blk = th[t].blk /\ r.pg = th[t].pg /\ th[t].pc # "mark"
              /\ r.pc \in {"io", "uerase", "uwrite"} => th[t].pc \in {"io", "uerase", "uwrite"}
    PROVE  DataInv'
<1>1. /\ \A s \in Threads \ {t} : th[s].pc = "idle"
      /\ \A b \in Logical : Match(user[b], nand[bb_tbl[b]])
      /\ CallData(th[t], user, nand, bb_tbl)
  BY DataFacts
<1>2. CopyData(r, user, nand, bb_tbl)
  BY DEF CopyData
<1>3. CallData(r, user, nand, bb_tbl)
  BY <1>1 DEF CallData
<1>4. ThreadData(r, user', nand', bb_tbl')
  BY <1>2, <1>3 DEF ThreadData
<1>5. \A b \in Logical : ~ (r.pc \in {"rerase", "rcopy"} /\ r.blk = b) =>
             Match(user'[b], nand'[bb_tbl'[b]])
  BY <1>1
<1> QED BY <1>1, <1>4, <1>5, DataStep

-----------------------------------------------------------------------------
\* A call starts on block b; the expectations u of the others stay.
LEMMA CallsData ==
    ASSUME Orderly, TypeOK, MapInv, DataInv, NEW t \in Threads, NEW b \in Logical,
           \/ \E q \in PageNo : mtk_bmt_read(t, b, q) \/ \E v \in Values : mtk_bmt_write(t, b, q, v)
           \/ mtk_bmt_mtd_erase(t, b) \/ mtk_bmt_block_isbad(t, b) \/ mtk_bmt_block_markbad(t, b)
    PROVE  DataInv'
<1>0. /\ nand \in [Phys -> [PageNo -> Content]]
      /\ user \in [Logical -> [PageNo -> Values \cup {Blank, Unknown}]]
      /\ bb_tbl \in [Lba -> Phys] /\ b \in Lba
  BY DataTypes
<1>1. /\ up = "on" /\ th[t].pc = "idle" /\ UNCHANGED <<up, nand, bb_tbl>>
      /\ \A s \in Threads : th[s].pc = "idle"
  BY DEF mtk_bmt_read, mtk_bmt_write, mtk_bmt_mtd_erase, mtk_bmt_block_isbad,
         mtk_bmt_block_markbad, MayCall, Orderly, chip, ram
<1>2. \A a \in Logical : Match(user[a], nand[bb_tbl[a]])
  BY <1>1 DEF DataInv
<1>3. ASSUME NEW op \in {"read", "isbad", "markbad"}, NEW q, NEW pc \in {"io", "pick"},
             Call(t, op, b, q, Blank, pc), UNCHANGED user
      PROVE  DataInv'
  <2> DEFINE r == [Idle EXCEPT !.pc = pc, !.op = op, !.blk = b, !.pg = q, !.val = Blank,
                               !.cur = get_mapping_block_index_v2(b)]
  <2>1. th' = [th EXCEPT ![t] = r] /\ r.pc = pc /\ r.op = op
    BY <1>3 DEF Call, Idle
  <2> HIDE DEF r
  <2>2. ThreadData(r, user', nand', bb_tbl')
    BY <1>3, <2>1 DEF ThreadData, CopyData, CallData
  <2> QED BY <1>1, <1>2, <1>3, <2>1, <2>2, DataStep
<1>4. ASSUME NEW q \in PageNo, NEW v \in Values, mtk_bmt_write(t, b, q, v) PROVE DataInv'
  <2> DEFINE r == [Idle EXCEPT !.pc = "io", !.op = "write", !.blk = b, !.pg = q, !.val = v,
                               !.cur = get_mapping_block_index_v2(b)]
  <2>1. th' = [th EXCEPT ![t] = r] /\ r.pc = "io" /\ r.op = "write" /\ r.blk = b /\ r.pg = q
    <3>0. Call(t, "write", b, q, v, "io")
      BY <1>4 DEF mtk_bmt_write
    <3>1. th' = [th EXCEPT ![t] = r]
      BY <3>0 DEF Call
    <3>2. r.pc = "io" /\ r.op = "write" /\ r.blk = b /\ r.pg = q
      BY DEF Idle
    <3> QED BY <3>1, <3>2
  <2> HIDE DEF r
  <2>2. user' = [user EXCEPT ![b][q] = Unknown] /\ \A p \in q..Pages : user[b][p] = Blank
    BY <1>4 DEF mtk_bmt_write
  <2>3. /\ user'[b][q] = Unknown
        /\ \A p \in PageNo \ {q} : user'[b][p] = user[b][p]
        /\ \A a \in Logical \ {b} : user'[a] = user[a]
    BY <1>0, <2>2
  <2>4. q \in q..Pages /\ \A p \in PageNo : q < p => p \in q..Pages /\ p # q
    BY PagesAssumption DEF PageNo
  <2>5. nand[bb_tbl[b]][q] = Blank
    BY <1>2, <2>2, <2>4, ValuesAssumption DEF Match
  <2>6. CallData(r, user', nand, bb_tbl)
    BY <2>1, <2>2, <2>3, <2>4, <2>5 DEF CallData
  <2>7. ThreadData(r, user', nand', bb_tbl')
    BY <1>1, <2>1, <2>6 DEF ThreadData, CopyData
  <2>8. \A a \in Logical : Match(user'[a], nand[bb_tbl[a]])
    BY <1>2, <2>3 DEF Match
  <2> QED BY <1>1, <2>1, <2>7, <2>8, DataStep
<1>5. ASSUME mtk_bmt_mtd_erase(t, b) PROVE DataInv'
  <2> DEFINE r == [Idle EXCEPT !.pc = "io", !.op = "erase", !.blk = b, !.pg = 1, !.val = Blank,
                               !.cur = get_mapping_block_index_v2(b)]
  <2>1. th' = [th EXCEPT ![t] = r] /\ r.pc = "io" /\ r.op = "erase" /\ r.blk = b
    BY <1>5 DEF mtk_bmt_mtd_erase, Call, Idle
  <2> HIDE DEF r
  <2>2. user' = [user EXCEPT ![b] = [q \in PageNo |-> Unknown]]
    BY <1>5 DEF mtk_bmt_mtd_erase
  <2>3. (\A q \in PageNo : user'[b][q] = Unknown) /\ \A a \in Logical \ {b} : user'[a] = user[a]
    BY <1>0, <2>2
  <2>4. ThreadData(r, user', nand', bb_tbl')
    BY <2>1, <2>3 DEF ThreadData, CopyData, CallData
  <2>5. \A a \in Logical : Match(user'[a], nand[bb_tbl[a]])
    BY <1>2, <2>3 DEF Match
  <2> QED BY <1>1, <2>1, <2>4, <2>5, DataStep
<1> QED BY <1>3, <1>4, <1>5 DEF mtk_bmt_read, mtk_bmt_block_isbad, mtk_bmt_block_markbad

\* The access to the chip: what the users expect follows what it does.
LEMMA IoData ==
    ASSUME "readFails" \notin Env, TypeOK, MapInv, TableInv, DataInv, NEW t \in Threads,
           io_ok(t) \/ io_flip(t) \/ io_fail(t)
    PROVE  DataInv'
<1> DEFINE b == th[t].blk  c == th[t].cur  q == th[t].pg  v == th[t].val
<1>0. th[t].pc = "io" /\ UNCHANGED <<up, bb_tbl>>
  BY DEF io_ok, io_flip, io_fail, ram
<1>1. /\ up # "off" /\ \A s \in Threads \ {t} : th[s].pc = "idle"
      /\ th[t] \in Thread /\ th[t].op # "repair" /\ th[t].pc # "fixup"
      /\ CallData(th[t], user, nand, bb_tbl)
      /\ \A a \in Logical : Match(user[a], nand[bb_tbl[a]])
  BY <1>0, DataFacts
<1>2. /\ nand \in [Phys -> [PageNo -> Content]]
      /\ user \in [Logical -> [PageNo -> Values \cup {Blank, Unknown}]]
      /\ bb_tbl \in [Lba -> Phys] /\ th \in [Threads -> Thread] /\ Logical \subseteq Lba
  BY DataTypes
<1>3. /\ b \in Lba /\ c \in Phys /\ q \in PageNo /\ c = bb_tbl[b]
  BY <1>0, <1>1 DEF Thread, TableInv, Locals
<1>4. \A a \in Logical : a # b => bb_tbl[a] # c
  BY <1>1, <1>2, <1>3 DEF MapInv, GoodTable
<1>5. Idle.pc = "idle" /\ Idle.op # "repair"
  BY DEF Idle
<1>6. CASE io_flip(t)
  <2> DEFINE r == [th[t] EXCEPT !.pc = "pick", !.op = "flip"]
  <2>1. r.pc = "pick" /\ r.op = "flip"
    BY <1>1 DEF Thread
  <2>2. th' = [th EXCEPT ![t] = r] /\ UNCHANGED <<nand, user>>
    BY <1>6, <1>2 DEF io_flip, chip
  <2> HIDE DEF r
  <2> QED BY <2>1, <2>2, <1>0, <1>1, QuietData
<1>7. CASE io_ok(t)
  <2>0. th' = [th EXCEPT ![t] = Idle]
    BY <1>7 DEF io_ok, Return
  <2>1. CASE UNCHANGED <<nand, user>>
    BY <2>0, <2>1, <1>0, <1>1, <1>5, QuietData
  <2>2. CASE /\ th[t].op = "write"
             /\ nand' = [nand EXCEPT ![c][q] = Programmed(@, v)]
             /\ user' = [user EXCEPT ![b][q] = v]
    <3> HIDE DEF b, c, q, v
    <3>1. /\ \A a \in Phys \ {c} : nand'[a] = nand[a]
          /\ \A p \in PageNo \ {q} : nand'[c][p] = nand[c][p]
          /\ nand'[c][q] = Programmed(nand[c][q], v)
      BY <2>2, <1>2, <1>3
    <3>2. /\ \A a \in Logical \ {b} : user'[a] = user[a]
          /\ b \in Logical => user'[b][q] = v /\ \A p \in PageNo \ {q} : user'[b][p] = user[b][p]
      BY <2>2, <1>2, <1>3
    <3>3. b \in Logical => nand[c][q] = Blank
      BY <2>2, <1>0, <1>1, <1>3 DEF CallData, b, q
    <3>4. ASSUME NEW a \in Logical PROVE Match(user'[a], nand'[bb_tbl[a]])
      <4>1. CASE a = b
        BY <4>1, <3>1, <3>2, <3>3, <1>1, <1>3 DEF Match, Programmed
      <4>2. CASE a # b
        BY <4>2, <3>1, <3>2, <1>1, <1>2, <1>4
      <4> QED BY <4>1, <4>2
    <3> QED BY <3>4, <2>0, <1>0, <1>1, <1>5, IdleData, DataStep
  <2>3. CASE Erase(c) /\ user' = [user EXCEPT ![b] = BlankBlock]
    <3> HIDE DEF b, c, q, v
    <3>1. nand'[c] = BlankBlock /\ \A a \in Phys \ {c} : nand'[a] = nand[a]
      BY <2>3, <1>2, <1>3 DEF Erase
    <3>2. /\ \A a \in Logical \ {b} : user'[a] = user[a]
          /\ b \in Logical => user'[b] = BlankBlock
      BY <2>3, <1>2
    <3>3. ASSUME NEW a \in Logical PROVE Match(user'[a], nand'[bb_tbl[a]])
      <4>1. CASE a = b
        BY <4>1, <3>1, <3>2, <1>3 DEF Match
      <4>2. CASE a # b
        BY <4>2, <3>1, <3>2, <1>1, <1>2, <1>4
      <4> QED BY <4>1, <4>2
    <3> QED BY <3>3, <2>0, <1>0, <1>1, <1>5, IdleData, DataStep
  <2> QED BY <1>7, <2>1, <2>2, <2>3 DEF io_ok
<1>8. CASE io_fail(t)
  <2> DEFINE r == [th[t] EXCEPT !.pc = "pick"]
  <2>1. r.pc = "pick" /\ r.op = th[t].op /\ r.blk = b /\ r.pg = q
    BY <1>1 DEF Thread
  <2>2. th' = [th EXCEPT ![t] = r]
    BY <1>8, <1>2 DEF io_fail, Goto
  <2> HIDE DEF r
  <2>3. CASE UNCHANGED <<nand, user>>
    BY <2>1, <2>2, <2>3, <1>0, <1>1, QuietData
  <2>4. CASE UNCHANGED user /\ nand' = [nand EXCEPT ![c][q] = Junk] /\ th[t].op = "write"
    <3>0. b \in Logical => user[b][q] = Unknown
      BY <2>4, <1>0, <1>1 DEF CallData
    <3>1. CallData(r, user', nand', bb_tbl')
      BY <2>1, <2>4, <1>0, <1>1 DEF CallData
    <3>2. ThreadData(r, user', nand', bb_tbl')
      BY <2>1, <3>1, <1>1 DEF ThreadData, CopyData
    <3> HIDE DEF b, c, q, v
    <3>3. /\ \A a \in Phys \ {c} : nand'[a] = nand[a]
          /\ \A p \in PageNo \ {q} : nand'[c][p] = nand[c][p]
      BY <2>4, <1>2, <1>3
    <3>4. ASSUME NEW a \in Logical PROVE Match(user'[a], nand'[bb_tbl[a]])
      <4>1. CASE a = b
        BY <4>1, <2>4, <3>0, <3>3, <1>1, <1>3 DEF Match
      <4>2. CASE a # b
        BY <4>2, <2>4, <3>3, <1>1, <1>2, <1>4
      <4> QED BY <4>1, <4>2
    <3> QED BY <2>2, <3>2, <3>4, <1>0, <1>1, DataStep
  <2>5. CASE UNCHANGED user /\ FailErase(c) /\ th[t].op = "erase"
    <3>0. b \in Logical => \A p \in PageNo : user[b][p] = Unknown
      BY <2>5, <1>0, <1>1 DEF CallData
    <3>1. ThreadData(r, user', nand', bb_tbl')
      BY <2>1, <2>5, <3>0 DEF ThreadData, CopyData, CallData
    <3> HIDE DEF b, c, q, v
    <3>2. \A a \in Phys \ {c} : nand'[a] = nand[a]
      BY <2>5, <1>2, <1>3 DEF FailErase
    <3>3. ASSUME NEW a \in Logical PROVE Match(user'[a], nand'[bb_tbl[a]])
      <4>1. CASE a = b
        BY <4>1, <2>5, <3>0 DEF Match
      <4>2. CASE a # b
        BY <4>2, <2>5, <3>2, <1>1, <1>2, <1>4
      <4> QED BY <4>1, <4>2
    <3> QED BY <2>2, <3>1, <3>3, <1>0, <1>1, DataStep
  <2> QED BY <1>8, <2>3, <2>4, <2>5 DEF io_fail, ReadFails
<1> QED BY <1>6, <1>7, <1>8

\* A free block is mapped while the data is still in the old one.
LEMMA TakeData ==
    ASSUME TypeOK, MapInv, TableInv, DataInv, NEW t \in Threads, take_block(t)
    PROVE  DataInv'
<1> DEFINE n == th[t].n  b == th[t].blk  x == bmt_tbl[n].block  c == th[t].cur
           r == [th[t] EXCEPT !.pc = "rerase", !.new = x]
<1>0. th[t].pc = "take"
  BY DEF take_block
<1>1. /\ up # "off" /\ \A s \in Threads \ {t} : th[s].pc = "idle"
      /\ th[t] \in Thread /\ th[t].op # "repair"
      /\ CallData(th[t], user, nand, bb_tbl)
      /\ \A a \in Logical : Match(user[a], nand[bb_tbl[a]])
  BY <1>0, DataFacts
<1>2. /\ bb_tbl \in [Lba -> Phys] /\ th \in [Threads -> Thread] /\ Logical \subseteq Lba
  BY DataTypes
<1>3. /\ b \in Lba /\ c = bb_tbl[b] /\ n \in PoolIdx /\ n \in Available
  BY <1>0, <1>1 DEF Thread, TableInv, Locals, MapInv, Available
<1>4. /\ bb_tbl' = [bb_tbl EXCEPT ![b] = x] /\ UNCHANGED <<up, nand, user>>
      /\ th' = [th EXCEPT ![t] = r]
  BY <1>2 DEF take_block, chip
<1>5. /\ r.pc = "rerase" /\ r.new = x /\ r.blk = b /\ r.cur = c
      /\ r.op = th[t].op /\ r.pg = th[t].pg
  BY <1>1 DEF Thread
<1>6. x # 0 /\ bmt_tbl[n].mapped = NO_MAPPED
  BY <1>3 DEF Available
<1>7. pool_lba <= x
  BY <1>1, <1>3, <1>6 DEF TableInv, OnlyTable, Located
<1>8. GoodTable(bb_tbl, bmt_tbl)
  BY <1>1 DEF MapInv
<1>9. x # c
  BY <1>3, <1>6, <1>8 DEF GoodTable, NO_MAPPED, NORMAL_MAPPED
<1>10. CallData(r, user, nand, bb_tbl')
  <2> HIDE DEF r
  <2> QED BY <1>0, <1>1, <1>5 DEF CallData
<1> HIDE DEF n, b, x, c, r
<1>11. bb_tbl'[b] = x /\ \A a \in Lba \ {b} : bb_tbl'[a] = bb_tbl[a]
  BY <1>2, <1>3, <1>4
<1>12. \A a \in Lba : bb_tbl'[a] # c
  BY <1>3, <1>8, <1>9, <1>11 DEF GoodTable
<1>13. CopyData(r, user, nand, bb_tbl')
  BY <1>1, <1>3, <1>5, <1>7, <1>11, <1>12 DEF CopyData
<1>14. ThreadData(r, user', nand', bb_tbl')
  BY <1>1, <1>4, <1>5, <1>10, <1>13 DEF ThreadData
<1>15. \A a \in Logical : ~ (r.pc \in {"rerase", "rcopy"} /\ r.blk = a) =>
          Match(user'[a], nand'[bb_tbl'[a]])
  BY <1>1, <1>2, <1>4, <1>5, <1>11
<1> QED BY <1>1, <1>4, <1>14, <1>15, DataStep

\* The new block is erased, then the pages that the caller wants are copied.
LEMMA CopyStepData ==
    ASSUME SoundPool, "readFails" \notin Env, TypeOK, MapInv, DataInv, NEW t \in Threads,
           remap_erase(t) \/ remap_copy(t)
    PROVE  DataInv'
<1> DEFINE b == th[t].blk  c == th[t].cur  x == th[t].new
<1>0. th[t].pc \in {"rerase", "rcopy"} /\ UNCHANGED <<up, bb_tbl, user>>
  BY DEF remap_erase, remap_copy, ram
<1>1. /\ up # "off" /\ \A s \in Threads \ {t} : th[s].pc = "idle"
      /\ th[t] \in Thread /\ th[t].op # "repair"
      /\ CallData(th[t], user, nand, bb_tbl) /\ CopyData(th[t], user, nand, bb_tbl)
      /\ \A a \in Logical : b # a => Match(user[a], nand[bb_tbl[a]])
  BY <1>0, DataFacts
<1>2. /\ nand \in [Phys -> [PageNo -> Content]]
      /\ bb_tbl \in [Lba -> Phys] /\ th \in [Threads -> Thread] /\ Logical \subseteq Lba
  BY DataTypes
<1>3. /\ b \in Lba /\ c \in Phys /\ x \in Phys /\ th[t].pg \in PageNo
  BY <1>1 DEF Thread
<1>4. /\ b \in Logical => Match(user[b], nand[c])
      /\ x = bb_tbl[b] /\ pool_lba <= x /\ \A a \in Lba : bb_tbl[a] # c
  BY <1>0, <1>1 DEF CopyData
<1>5. x \notin Weak /\ x # c
  BY <1>3, <1>4 DEF SoundPool
<1>6. \A a \in Logical : a # b => bb_tbl[a] # x
  BY <1>1, <1>2, <1>3, <1>4 DEF MapInv, GoodTable
<1>7. CASE remap_erase(t)
  <2> DEFINE r == [th[t] EXCEPT !.pc = "rcopy"]
  <2>1. Erase(x) /\ th' = [th EXCEPT ![t] = r] /\ th[t].pc = "rerase"
    BY <1>2, <1>5, <1>7 DEF remap_erase, Fails, Goto
  <2>2. /\ r.pc = "rcopy" /\ r.blk = b /\ r.cur = c /\ r.new = x
        /\ r.op = th[t].op /\ r.pg = th[t].pg
    BY <1>1 DEF Thread
  <2> HIDE DEF r
  <2>3. CallData(r, user, nand', bb_tbl)
    BY <1>1, <2>1, <2>2 DEF CallData
  <2> HIDE DEF b, c, x
  <2>4. nand'[x] = BlankBlock /\ \A a \in Phys \ {x} : nand'[a] = nand[a]
    BY <1>2, <1>3, <2>1 DEF Erase
  <2>5. CopyData(r, user, nand', bb_tbl)
    BY <1>3, <1>4, <1>5, <2>2, <2>4 DEF CopyData
  <2>6. ThreadData(r, user', nand', bb_tbl')
    BY <1>0, <1>1, <2>2, <2>3, <2>5 DEF ThreadData
  <2>7. \A a \in Logical : a # b => Match(user[a], nand'[bb_tbl[a]])
    BY <1>1, <1>2, <1>6, <2>4
  <2> QED BY <1>0, <1>1, <2>1, <2>2, <2>6, <2>7, DataStep
<1>8. CASE remap_copy(t)
  <2> DEFINE r == [th[t] EXCEPT !.pc = "uerase", !.n = bmt_blk_idx]  len == copy_len(t)
  <2>1. th' = [th EXCEPT ![t] = r] /\ th[t].pc = "rcopy" /\ bbt_nand_copy(x, c, len)
    BY <1>2, <1>8 DEF remap_copy
  <2>2. /\ r.pc = "uerase" /\ r.blk = b /\ r.op = th[t].op /\ r.pg = th[t].pg
    BY <1>1 DEF Thread
  <2> HIDE DEF r
  <2>3. nand' = [nand EXCEPT ![x] = Copied(x, c, len)]
    BY <1>5, <2>1 DEF bbt_nand_copy, ReadFails, Fails
  <2>4. nand[x] = BlankBlock
    BY <1>1, <2>1 DEF CopyData
  <2>5. \A p \in PageNo : nand'[x][p] = IF p <= len THEN nand[c][p] ELSE Blank
    <3> HIDE DEF b, c, x, len
    <3> QED BY <1>2, <1>3, <2>3, <2>4 DEF Copied, Programmed, BlankBlock
  <2>6. \A a \in Phys \ {x} : nand'[a] = nand[a]
    BY <1>2, <2>3
  <2>7. /\ th[t].op = "write" => len = th[t].pg - 1
        /\ th[t].op \notin {"write", "erase"} => len = Pages
    BY DEF copy_len
  <2>8. \A p \in PageNo : p \in Nat /\ p <= Pages
    BY PagesAssumption DEF PageNo
  <2> HIDE DEF len
  <2>9. ASSUME th[t].op = "write"
        PROVE  CallData(r, user, nand', bb_tbl) /\ (b \in Logical => Match(user[b], nand'[x]))
    <3>1. b \in Logical => user[b][th[t].pg] = Unknown /\ \A p \in PageNo : th[t].pg < p => user[b][p] = Blank
      BY <1>1, <2>1, <2>9 DEF CallData
    <3>2. nand'[x][th[t].pg] = Blank
      BY <1>3, <2>5, <2>7, <2>8, <2>9
    <3>3. CallData(r, user, nand', bb_tbl)
      BY <1>4, <2>2, <2>9, <3>1, <3>2 DEF CallData
    <3>4. ASSUME b \in Logical PROVE Match(user[b], nand'[x])
      <4>1. ASSUME NEW p \in PageNo PROVE user[b][p] = Unknown \/ user[b][p] = nand'[x][p]
        <5>1. CASE p = th[t].pg
          BY <5>1, <3>1, <3>4
        <5>2. CASE th[t].pg < p
          <6>1. ~ (p <= len)
            BY <5>2, <1>3, <2>7, <2>8, <2>9
          <6> QED BY <5>2, <6>1, <2>5, <3>1, <3>4
        <5>3. CASE p < th[t].pg
          <6>1. p <= len
            BY <5>3, <1>3, <2>7, <2>8, <2>9
          <6> QED BY <6>1, <1>4, <2>5, <3>4 DEF Match
        <5> QED BY <5>1, <5>2, <5>3, <1>3, <2>8
      <4> QED BY <4>1 DEF Match
    <3> QED BY <3>3, <3>4
  <2>10. ASSUME th[t].op = "erase"
        PROVE  CallData(r, user, nand', bb_tbl) /\ (b \in Logical => Match(user[b], nand'[x]))
    <3>1. b \in Logical => \A p \in PageNo : user[b][p] = Unknown
      BY <1>1, <2>1, <2>10 DEF CallData
    <3>2. CallData(r, user, nand', bb_tbl)
      BY <2>2, <2>10, <3>1 DEF CallData
    <3>3. b \in Logical => Match(user[b], nand'[x])
      BY <3>1 DEF Match
    <3> QED BY <3>2, <3>3
  <2>11. ASSUME th[t].op \notin {"write", "erase"}
        PROVE  CallData(r, user, nand', bb_tbl) /\ (b \in Logical => Match(user[b], nand'[x]))
    <3>1. CallData(r, user, nand', bb_tbl)
      BY <2>2, <2>11 DEF CallData
    <3>2. \A p \in PageNo : nand'[x][p] = nand[c][p]
      BY <2>5, <2>7, <2>8, <2>11
    <3>3. b \in Logical => Match(user[b], nand'[x])
      BY <1>4, <3>2 DEF Match
    <3> QED BY <3>1, <3>3
  <2>12. CallData(r, user, nand', bb_tbl) /\ (b \in Logical => Match(user[b], nand'[x]))
    BY <2>9, <2>10, <2>11
  <2>13. ThreadData(r, user', nand', bb_tbl')
    BY <1>0, <1>1, <2>2, <2>12 DEF ThreadData, CopyData
  <2>14. ASSUME NEW a \in Logical PROVE Match(user[a], nand'[bb_tbl[a]])
    <3>1. CASE a = b
      BY <3>1, <2>12, <1>4
    <3>2. CASE a # b
      <4>1. bb_tbl[a] # x /\ bb_tbl[a] \in Phys
        BY <3>2, <1>2, <1>6
      <4>2. nand'[bb_tbl[a]] = nand[bb_tbl[a]]
        BY <4>1, <2>6
      <4> QED BY <3>2, <4>2, <1>1
    <3> QED BY <3>1, <3>2
  <2> QED BY <1>0, <1>1, <2>1, <2>13, <2>14, DataStep
<1> QED BY <1>7, <1>8

\* The block of the table is nobody's, and the call goes on where it was.
LEMMA UploadData ==
    ASSUME Orderly, TypeOK, MapInv, TableInv, TableWritable, DataInv, NEW t \in Threads,
           upload_fatal(t) \/ upload_erase(t) \/ upload_write(t)
    PROVE  DataInv'
<1>0. /\ th[t].pc \in {"uerase", "uwrite"} /\ Step(t) /\ ~ take_block(t)
  BY DEF upload_fatal, upload_erase, upload_write, take_block, Step
<1>1. up # "off" /\ up' # "off" /\ UNCHANGED <<bb_tbl, bmt_tbl, bmt_blk_idx>>
  BY <1>0, StepKeeps
<1>2. /\ \A s \in Threads \ {t} : th[s].pc = "idle"
      /\ th[t] \in Thread /\ th[t].op # "repair"
      /\ CallData(th[t], user, nand, bb_tbl)
      /\ \A a \in Logical : Match(user[a], nand[bb_tbl[a]])
  BY <1>0, DataFacts
<1>3. /\ nand \in [Phys -> [PageNo -> Content]]
      /\ bb_tbl \in [Lba -> Phys] /\ th \in [Threads -> Thread] /\ Logical \subseteq Lba
  BY DataTypes
<1>4. /\ th[t].n = bmt_blk_idx /\ bmt_tbl[th[t].n].block = TableBlock
      /\ bmt_blk_idx \in PoolIdx /\ TableBlock \notin Weak /\ TableBlock \in Phys
      /\ bmt_tbl[bmt_blk_idx].mapped # NORMAL_MAPPED
      /\ \A a \in Lba : bb_tbl[a] # TableBlock
  BY <1>0, <1>1, NotTableBlock DEF TableInv, Locals, OnlyTable, Located, TableWritable, TableBlock,
       BMT_MAPPED, NORMAL_MAPPED
<1>5. CASE upload_fatal(t)
  BY <1>4, <1>5 DEF upload_fatal, NoSpace
<1>6. CASE upload_erase(t)
  <2> DEFINE r == [th[t] EXCEPT !.pc = "uwrite"]
  <2>1. Erase(TableBlock) /\ Goto(t, "uwrite") /\ UNCHANGED user
    BY <1>4, <1>6 DEF upload_erase, Fails
  <2>2. th' = [th EXCEPT ![t] = r] /\ r.pc = "uwrite" /\ r.op = th[t].op /\ r.blk = th[t].blk /\ r.pg = th[t].pg
    BY <1>2, <1>3, <2>1 DEF Goto, Thread
  <2> HIDE DEF r
  <2>3. \A a \in Lba : nand'[bb_tbl[a]] = nand[bb_tbl[a]]
    BY <1>3, <1>4, <2>1 DEF Erase
  <2>4. CallData(r, user, nand', bb_tbl)
    BY <1>0, <1>2, <1>3, <2>2, <2>3 DEF CallData
  <2>5. ThreadData(r, user', nand', bb_tbl')
    BY <1>1, <1>2, <2>1, <2>2, <2>4 DEF ThreadData, CopyData
  <2>6. \A a \in Logical : Match(user[a], nand'[bb_tbl[a]])
    BY <1>2, <1>3, <2>3
  <2> QED BY <1>1, <1>2, <2>1, <2>2, <2>5, <2>6, DataStep
<1>7. CASE upload_write(t)
  <2>1. Uploaded(t, bmt_blk_idx) /\ UNCHANGED <<nand, user>>
    BY <1>4, <1>7 DEF upload_write, Fails
  <2>2. Retry(t) \/ Goto(t, "mark") \/ Return(t)
    BY <1>2, <2>1 DEF Uploaded
  <2>3. Idle.pc = "idle" /\ Idle.op # "repair"
    BY DEF Idle
  <2>4. /\ \/ th'[t].pc = "idle" /\ th'[t].op # "repair"
           \/ th'[t].pc = "mark" /\ th'[t].op = th[t].op
           \/ /\ th'[t].pc = "io" /\ th'[t].op = th[t].op /\ th'[t].blk = th[t].blk
              /\ th'[t].pg = th[t].pg
        /\ th' = [th EXCEPT ![t] = th'[t]]
    <3>1. CASE Retry(t)
      <4>1. th' = [th EXCEPT ![t] = th'[t]]
        BY <3>1, <1>3 DEF Retry, Return
      <4> QED BY <3>1, <4>1, <2>3, RetryRecord
    <3>2. CASE Goto(t, "mark")
      BY <3>2, <1>2, <1>3 DEF Goto, Thread
    <3>3. CASE Return(t)
      BY <3>3, <2>3, <1>3 DEF Return
    <3> QED BY <2>2, <3>1, <3>2, <3>3
  <2> QED BY <1>0, <1>1, <1>2, <2>1, <2>4, QuietData
<1> QED BY <1>5, <1>6, <1>7

LEMMA OtherData ==
    ASSUME TypeOK, MapInv, DataInv, NEW t \in Threads,
           find_valid_block_in_pool(t) \/ markbad_old(t) \/ repair_copy(t)
    PROVE  DataInv'
<1>0. th[t].pc \in {"pick", "mark", "fixup"} /\ UNCHANGED <<up, bb_tbl, user>>
  BY DEF find_valid_block_in_pool, markbad_old, repair_copy, ram
<1>1. th[t] \in Thread /\ th \in [Threads -> Thread] /\ th[t].op # "repair" /\ th[t].pc # "fixup" /\ up # "off"
  BY <1>0, DataFacts, DataTypes
<1>2. UNCHANGED nand
  BY <1>1 DEF find_valid_block_in_pool, markbad_old, repair_copy, chip
<1>3. Idle.pc = "idle" /\ Idle.op # "repair"
  BY DEF Idle
<1>4. CASE Return(t)
  <2>1. th' = [th EXCEPT ![t] = Idle]
    BY <1>4 DEF Return
  <2> QED BY <2>1, <1>0, <1>1, <1>2, <1>3, QuietData
<1>5. CASE Goto(t, "mark")
  <2> DEFINE r == [th[t] EXCEPT !.pc = "mark"]
  <2>1. th' = [th EXCEPT ![t] = r] /\ r.pc = "mark" /\ r.op = th[t].op
    BY <1>1, <1>5 DEF Goto, Thread
  <2> HIDE DEF r
  <2> QED BY <2>1, <1>0, <1>1, <1>2, QuietData
<1>6. ASSUME NEW m, th' = [th EXCEPT ![t].pc = "take", ![t].n = m], th[t].pc = "pick" PROVE DataInv'
  <2> DEFINE r == [th[t] EXCEPT !.pc = "take", !.n = m]
  <2>1. th' = [th EXCEPT ![t] = r]
    BY <1>1, <1>6
  <2>2. r.pc = "take" /\ r.op = th[t].op /\ r.blk = th[t].blk /\ r.pg = th[t].pg
    BY <1>1 DEF Thread
  <2> HIDE DEF r
  <2> QED BY <2>1, <2>2, <1>0, <1>1, <1>2, <1>6, QuietData
<1>7. CASE find_valid_block_in_pool(t)
  BY <1>4, <1>5, <1>6, <1>7 DEF find_valid_block_in_pool, NotRemapped
<1>8. CASE markbad_old(t) \/ repair_copy(t)
  BY <1>4, <1>8 DEF markbad_old, repair_copy
<1> QED BY <1>7, <1>8

LEMMA DetachData ==
    ASSUME TypeOK, MapInv, TableInv, DataInv, mtk_bmt_detach
    PROVE  DataInv'
<1>1. /\ up = "on" /\ up' = "off" /\ UNCHANGED <<table, nand, user>>
      /\ th' = [t \in Threads |-> Idle] /\ \A t \in Threads : th[t].pc = "idle"
  BY DEF mtk_bmt_detach, Forget, chip
<1>2. /\ table[TableBlock].valid /\ table[TableBlock].bb = bb_tbl
      /\ \A b \in Phys : table[b].valid => b = TableBlock
      /\ TableBlock \in Phys
  BY <1>1, NotTableBlock DEF TableInv, Saved, OnlyTable, Moving
<1>3. \A b \in Logical : Match(user[b], nand[bb_tbl[b]])
  BY <1>1 DEF DataInv
<1>4. \A c \in Phys, b \in Logical : table'[c].valid => Match(user'[b], nand'[table'[c].bb[b]])
  BY <1>1, <1>2, <1>3
<1>5. \A t \in Threads : ThreadData(th'[t], user', nand', bb_tbl')
  <2>1. Idle.pc = "idle" /\ Idle.op # "repair"
    BY DEF Idle
  <2>2. ThreadData(Idle, user', nand', bb_tbl')
    BY <2>1, IdleData
  <2> QED BY <2>2, <1>1
<1> QED BY <1>1, <1>2, <1>4, <1>5 DEF DataInv

LEMMA LoadData ==
    ASSUME TypeOK, MapInv, TableInv, DataInv, init_load
    PROVE  DataInv'
<1>1. PICK F \in Unreadable : LET b == FoundBlock(F) IN b # 0 /\ bb_tbl' = table[b].bb
  BY DEF init_load
<1>2. FoundBlock(F) \in Phys /\ table[FoundBlock(F)].valid
  BY <1>1, FoundValid
<1>3. up = "off" /\ up' = "on" /\ UNCHANGED <<nand, user, th>>
  BY DEF init_load, chip
<1>4. \A b \in Logical : Match(user'[b], nand'[bb_tbl'[b]])
  BY <1>1, <1>2, <1>3 DEF DataInv
<1>5. ASSUME NEW t \in Threads PROVE ThreadData(th'[t], user', nand', bb_tbl')
  <2>1. th[t].pc = "idle" /\ th[t].op # "repair"
    BY <1>3 DEF MapInv, DataInv, ThreadData
  <2> QED BY <2>1, <1>3, IdleData
<1> QED BY <1>3, <1>4, <1>5 DEF DataInv

LEMMA ScanData ==
    ASSUME TypeOK, MapInv, TableInv, DataInv, NEW t \in Threads, init_scan(t)
    PROVE  DataInv'
<1>1. PICK po : th' = [th EXCEPT ![t] = [Idle EXCEPT !.pc = "uerase", !.op = "attach",
                                                      !.n = LastIdx(po)]]
  BY Zenon DEF init_scan
<1>2. PICK bb \in [Lba -> Phys] : bb_tbl' = bb
  BY DEF init_scan
<1>3. up = "off" /\ up' = "init" /\ UNCHANGED <<nand, user>>
  BY DEF init_scan, chip
<1>4. nand = [b \in Phys |-> BlankBlock] /\ user = [b \in Logical |-> BlankBlock]
  BY <1>3, NothingFound DEF DataInv
<1>5. \A b \in Logical : Match(user'[b], nand'[bb_tbl'[b]])
  BY <1>2, <1>3, <1>4, Constants DEF Match
<1> DEFINE r == [Idle EXCEPT !.pc = "uerase", !.op = "attach", !.n = LastIdx(po)]
<1>6. th' = [th EXCEPT ![t] = r] /\ r.pc = "uerase" /\ r.op = "attach"
  BY <1>1 DEF Idle
<1> HIDE DEF r
<1>7. ThreadData(r, user', nand', bb_tbl')
  BY <1>6 DEF ThreadData, CopyData, CallData
<1>8. \A s \in Threads \ {t} : th[s].pc = "idle"
  BY <1>3 DEF MapInv
<1> QED BY <1>3, <1>5, <1>6, <1>7, <1>8, DataStep

LEMMA NextData ==
    ASSUME Orderly, SoundPool, "crash" \notin Env, "readFails" \notin Env, TypeOK, MapInv, TableInv,
           TableWritable, DataInv, [Next]_vars
    PROVE  DataInv'
<1>1. CASE UNCHANGED vars
  BY <1>1 DEF vars, DataInv
<1>2. ASSUME NEW t \in Threads, NEW b \in Logical,
             \/ \E q \in PageNo : mtk_bmt_read(t, b, q) \/ \E v \in Values : mtk_bmt_write(t, b, q, v)
             \/ mtk_bmt_mtd_erase(t, b) \/ mtk_bmt_block_isbad(t, b) \/ mtk_bmt_block_markbad(t, b)
      PROVE  DataInv'
  BY <1>2, CallsData
<1>3. ASSUME NEW t \in Threads, NEW b \in DebugBlocks,
             \/ mtk_bmt_debug_mark_bad(t, b) \/ mtk_bmt_debug_mark_good(t, b)
             \/ mtk_bmt_debug_repair(t, b)
      PROVE  FALSE
  BY <1>3 DEF Orderly, mtk_bmt_debug_mark_bad, mtk_bmt_debug_mark_good, mtk_bmt_debug_repair
<1>4. ASSUME NEW t \in Threads, mtk_bmt_debug_v2(t) PROVE FALSE
  BY <1>4 DEF Orderly, mtk_bmt_debug_v2
<1>5. ASSUME NEW t \in Threads, Step(t) PROVE DataInv'
  BY <1>5, IoData, TakeData, CopyStepData, UploadData, OtherData DEF Step
<1>6. ASSUME NEW t \in Threads, init_scan(t) PROVE DataInv'
  BY <1>6, ScanData
<1>7. CASE init_load
  BY <1>7, LoadData
<1>8. CASE mtk_bmt_detach
  BY <1>8, DetachData
<1>9. CASE crash
  BY <1>9 DEF crash
<1> QED BY <1>1, <1>2, <1>3, <1>4, <1>5, <1>6, <1>7, <1>8, <1>9 DEF Next

\* If the pool is sound, reads do not fail and the power stays on, what a user
\* has written without an error is what the block holds that the mapping
\* points to, however often writes and erasures fail and blocks are replaced,
\* at whatever page the failure comes, and after every restart.
THEOREM UsersReadWhatTheyWrote ==
    Orderly /\ SoundPool /\ "crash" \notin Env /\ "readFails" \notin Env => (Spec => []Faithful)
<1> SUFFICES ASSUME Orderly, SoundPool, "crash" \notin Env, "readFails" \notin Env
             PROVE  Spec => []Faithful
  OBVIOUS
<1> DEFINE I == TypeOK /\ InPool /\ MapInv /\ TableInv /\ ReplacedInv /\ DataInv
<1>1. Init => I
  <2> SUFFICES ASSUME Init PROVE DataInv
    BY InitTable, InitReplaced
  <2>1. /\ up = "off" /\ (\A b \in Phys : ~ table[b].valid)
        /\ nand = [b \in Phys |-> BlankBlock] /\ user = [b \in Logical |-> BlankBlock]
    BY DEF Init, NoTable
  <2>2. ASSUME NEW t \in Threads PROVE ThreadData(th[t], user, nand, bb_tbl)
    <3>1. th[t].pc = "idle" /\ th[t].op # "repair"
      BY DEF Init, Idle
    <3> QED BY <3>1, IdleData
  <2> QED BY <2>1, <2>2 DEF DataInv
<1>2. I /\ [Next]_vars => I'
  BY SoundWritable, NextTypeOK, NextMap, NextTable, NextReplaced, NextData
<1>3. I => Faithful
  <2> SUFFICES ASSUME I, up = "on", NEW b \in Logical, ~ Busy(b), NEW q \in PageNo
               PROVE  user[b][q] \in {Unknown, nand[Map(b)][q]}
    BY DEF Faithful
  <2>1. Map(b) = bb_tbl[b]
    BY Constants DEF Map, get_mapping_block_index_v2, Orderly
  <2>2. \A t \in Threads : th[t].pc \in {"rerase", "rcopy"} => th[t].blk # b
    BY DEF Busy
  <2>3. Match(user[b], nand[bb_tbl[b]])
    BY <2>2 DEF DataInv
  <2> QED BY <2>1, <2>3 DEF Match
<1> HIDE DEF I
<1> QED BY <1>1, <1>2, <1>3, PTL DEF Spec
=============================================================================
