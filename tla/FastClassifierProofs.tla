------------------------ MODULE FastClassifierProofs ------------------------
(***************************************************************************)
(* Theorems about FastClassifier, for any number of CPUs, tuples, devices, *)
(* conntrack entries and connections, and whatever of Env happens.         *)
(***************************************************************************)
EXTENDS FastClassifier, FiniteSetTheorems, TLAPS

(***************************************************************************)
(* Types and references.                                                   *)
(***************************************************************************)

\* What is in use has a device: connections that were added, rules, and the
\* packets, while they look devices up and then no more.
HasDev ==
    /\ \A i \in Conns : conn[i].st # "unused" => conn[i].dev \in Devs
    /\ \A i \in ht : conn[i].st # "unused"
    /\ \A t \in Tuples : rule[t].on => rule[t].dev \in Devs
    /\ \A c \in Cpus : /\ pk[c].at # "idle" => pk[c].ct \in Cts
                       /\ pk[c].at = "idle" => pk[c].conn = None
                       /\ pk[c].conn # None => conn[pk[c].conn].st # "unused"
                       /\ pk[c].at \in {"create", "insert", "offloaded"} => pk[c].conn \in Conns
                       /\ pk[c].at = "resolve" <=> pk[c].dev # NoDev

RefInv == TypeOK /\ HasDev /\ RefsAccounted

\* Packets that hold d while they look up devices.
Lookups(d) == {c \in Cpus : pk[c].dev = d}

-----------------------------------------------------------------------------

LEMMA AnyTupleType == AnyTuple \in Tuples
BY TuplesAssumption, Zenon DEF AnyTuple

LEMMA RefInvInit == Init => RefInv
<1> SUFFICES ASSUME Init PROVE RefInv
  OBVIOUS
<1>1. 0 \notin Cts /\ 0 \notin Conns
  BY BoundsAssumption DEF Cts, Conns
<1>2. ct \in [Cts -> CtRec] /\ conn \in [Conns -> ConnRec]
  BY AnyTupleType, OffloadAssumption DEF Init, CtRec, ConnRec, None
<1>3. /\ rule \in [Tuples -> [on : BOOLEAN, dev : Devs \cup {NoDev}, mark : {0, 1}]]
      /\ pk \in [Cpus -> PkRec]
  BY DEF Init, NoRule, Idle, PkRec, None
<1>4. TypeOK
  BY <1>2, <1>3 DEF Init, TypeOK
<1>5. HasDev
  BY DEF Init, HasDev, NoRule, Idle, None
<1>6. ASSUME NEW d \in Devs PROVE RulesOn(d) = {} /\ Lookups(d) = {}
  BY NoDevAssumption DEF Init, RulesOn, Lookups, NoRule, Idle
<1>7. ASSUME NEW d \in Devs PROVE refs[d] = Cardinality(RulesOn(d)) + Cardinality(Lookups(d))
  <2>1. refs[d] = 0
    BY DEF Init
  <2>2. Cardinality(RulesOn(d)) = 0 /\ Cardinality(Lookups(d)) = 0
    BY <1>6, FS_EmptySet
  <2> QED BY <2>1, <2>2
<1>8. RefsAccounted
  BY <1>7 DEF RefsAccounted, Lookups
<1> QED BY <1>4, <1>5, <1>8 DEF RefInv

\* The two sets that are counted are finite.
LEMMA CountedFinite ==
    ASSUME NEW d
    PROVE  /\ IsFiniteSet(RulesOn(d)) /\ IsFiniteSet(Lookups(d))
           /\ Cardinality(RulesOn(d)) \in Nat /\ Cardinality(Lookups(d)) \in Nat
<1>1. RulesOn(d) \in SUBSET Tuples /\ Lookups(d) \in SUBSET Cpus
  BY DEF RulesOn, Lookups
<1> QED BY <1>1, FiniteAssumption, FS_Subset, FS_CardinalityType

\* References are unchanged when neither rules nor lookups change.
LEMMA RefsUnchanged ==
    ASSUME RefsAccounted, UNCHANGED <<rule, refs>>, \A c \in Cpus : pk'[c].dev = pk[c].dev
    PROVE  RefsAccounted'
<1>1. \A d \in Devs : RulesOn(d)' = RulesOn(d) /\ Lookups(d)' = Lookups(d)
  BY DEF RulesOn, Lookups
<1> QED BY <1>1 DEF RefsAccounted, Lookups

\* Taking a rule out of the table, whether there was one or not.
LEMMA RuleRemoved ==
    ASSUME RefInv, NEW t \in Tuples, remove_rule(t), \A c \in Cpus : pk'[c].dev = pk[c].dev
    PROVE  /\ rule' \in [Tuples -> [on : BOOLEAN, dev : Devs \cup {NoDev}, mark : {0, 1}]]
           /\ \A u \in Tuples : rule'[u].on => rule'[u].dev \in Devs
           /\ refs' \in [Devs -> Nat]
           /\ RefsAccounted'
<1> USE DEF RefInv
<1>1. /\ rule' = [rule EXCEPT ![t] = NoRule]
      /\ refs' = IF rule[t].on THEN [refs EXCEPT ![rule[t].dev] = @ - 1] ELSE refs
  BY DEF remove_rule
<1>2. /\ rule' \in [Tuples -> [on : BOOLEAN, dev : Devs \cup {NoDev}, mark : {0, 1}]]
      /\ rule'[t] = NoRule /\ \A u \in Tuples : u # t => rule'[u] = rule[u]
  BY <1>1 DEF TypeOK, NoRule
<1>3. \A u \in Tuples : rule'[u].on => rule'[u].dev \in Devs
  BY <1>2 DEF HasDev, NoRule
<1>4. \A d \in Devs : Lookups(d)' = Lookups(d)
  BY DEF Lookups
<1>5. \A d \in Devs : RulesOn(d)' = RulesOn(d) \ {t}
  BY <1>2 DEF RulesOn, NoRule
<1>6. ASSUME NEW d \in Devs
      PROVE  refs'[d] = Cardinality(RulesOn(d)') + Cardinality(Lookups(d)')
  <2>1. refs[d] = Cardinality(RulesOn(d)) + Cardinality(Lookups(d))
    BY DEF RefsAccounted, Lookups
  <2>2. CASE t \in RulesOn(d)
    <3>1. Cardinality(RulesOn(d) \ {t}) = Cardinality(RulesOn(d)) - 1
      BY <2>2, CountedFinite, FS_RemoveElement
    <3>2. refs'[d] = refs[d] - 1
      BY <2>2, <1>1 DEF RulesOn, TypeOK
    <3>3. Cardinality(RulesOn(d)) \in Nat /\ Cardinality(Lookups(d)) \in Nat
      BY CountedFinite
    <3>4. RulesOn(d)' = RulesOn(d) \ {t} /\ Lookups(d)' = Lookups(d)
      BY <1>4, <1>5
    <3> QED BY <2>1, <3>1, <3>2, <3>3, <3>4
  <2>3. CASE t \notin RulesOn(d)
    <3>1. RulesOn(d) \ {t} = RulesOn(d)
      BY <2>3
    <3>2. refs'[d] = refs[d]
      BY <2>3, <1>1 DEF RulesOn, TypeOK, HasDev
    <3> QED BY <2>1, <3>1, <3>2, <1>4, <1>5
  <2> QED BY <2>2, <2>3
<1>7. RefsAccounted'
  BY <1>6 DEF RefsAccounted, Lookups
<1>8. refs' \in [Devs -> Nat]
  <2>1. \A d \in Devs : Cardinality(RulesOn(d) \ {t}) \in Nat
    BY CountedFinite, FS_RemoveElement, FS_CardinalityType
  <2>2. \A d \in Devs : refs'[d] \in Nat
    BY <2>1, <1>4, <1>5, <1>6, CountedFinite
  <2>3. DOMAIN refs' = Devs /\ refs' = [d \in Devs |-> refs'[d]]
    BY <1>1 DEF TypeOK
  <2> QED BY <2>2, <2>3
<1> QED BY <1>2, <1>3, <1>7, <1>8

\* Putting the rule of a connection into the table.
LEMMA RuleCreated ==
    ASSUME RefInv, NEW i \in Conns, conn[i].dev \in Devs, create_rule(i),
           \A c \in Cpus : pk'[c].dev = pk[c].dev
    PROVE  /\ rule' \in [Tuples -> [on : BOOLEAN, dev : Devs \cup {NoDev}, mark : {0, 1}]]
           /\ \A u \in Tuples : rule'[u].on => rule'[u].dev \in Devs
           /\ refs' \in [Devs -> Nat]
           /\ RefsAccounted'
<1> USE DEF RefInv
<1> DEFINE t == conn[i].tup
<1>0. t \in Tuples /\ conn[i].mark \in {0, 1}
  BY DEF TypeOK, ConnRec
<1>1. CASE rule[t].on
  BY <1>1, RefsUnchanged DEF create_rule, TypeOK, HasDev
<1>2. CASE ~rule[t].on
  <2>1. /\ rule' = [rule EXCEPT ![t] = [on |-> TRUE, dev |-> conn[i].dev, mark |-> conn[i].mark]]
        /\ refs' = [refs EXCEPT ![conn[i].dev] = @ + 1]
    BY <1>2 DEF create_rule
  <2>2. /\ rule' \in [Tuples -> [on : BOOLEAN, dev : Devs \cup {NoDev}, mark : {0, 1}]]
        /\ rule'[t].on /\ rule'[t].dev = conn[i].dev
        /\ \A u \in Tuples : u # t => rule'[u] = rule[u]
    BY <2>1, <1>0 DEF TypeOK
  <2>3. refs' \in [Devs -> Nat]
    BY <2>1 DEF TypeOK
  <2>4. \A d \in Devs : Lookups(d)' = Lookups(d)
    BY DEF Lookups
  <2>5. ASSUME NEW d \in Devs
        PROVE  refs'[d] = Cardinality(RulesOn(d)') + Cardinality(Lookups(d)')
    <3>1. refs[d] = Cardinality(RulesOn(d)) + Cardinality(Lookups(d))
      BY DEF RefsAccounted, Lookups
    <3>2. CASE d = conn[i].dev
      <4>1. RulesOn(d)' = RulesOn(d) \cup {t} /\ t \notin RulesOn(d)
        BY <3>2, <2>2, <1>0, <1>2 DEF RulesOn
      <4>2. Cardinality(RulesOn(d) \cup {t}) = Cardinality(RulesOn(d)) + 1
        BY <4>1, CountedFinite, FS_AddElement
      <4>3. refs'[d] = refs[d] + 1
        BY <3>2, <2>1 DEF TypeOK
      <4> QED BY <3>1, <4>1, <4>2, <4>3, <2>4, CountedFinite
    <3>3. CASE d # conn[i].dev
      <4>1. RulesOn(d)' = RulesOn(d)
        BY <3>3, <2>2, <1>0, <1>2 DEF RulesOn
      <4>2. refs'[d] = refs[d]
        BY <3>3, <2>1 DEF TypeOK
      <4> QED BY <3>1, <4>1, <4>2, <2>4
    <3> QED BY <3>2, <3>3
  <2>6. RefsAccounted'
    BY <2>5 DEF RefsAccounted, Lookups
  <2>7. \A u \in Tuples : rule'[u].on => rule'[u].dev \in Devs
    BY <2>2 DEF HasDev
  <2> QED BY <2>2, <2>3, <2>6, <2>7
<1> QED BY <1>1, <1>2

\* A lookup begins or ends.
LEMMA LookupCounted ==
    ASSUME RefInv, NEW c \in Cpus, NEW d \in Devs, UNCHANGED rule, pk' \in [Cpus -> PkRec],
           \A b \in Cpus \ {c} : pk'[b] = pk[b],
           \/ /\ pk[c].dev = NoDev /\ pk'[c].dev = d
              /\ refs' = [refs EXCEPT ![d] = @ + 1]
           \/ /\ pk[c].dev = d /\ pk'[c].dev = NoDev
              /\ refs' = [refs EXCEPT ![d] = @ - 1]
    PROVE  refs' \in [Devs -> Nat] /\ RefsAccounted'
<1> USE DEF RefInv
<1>1. \A e \in Devs : RulesOn(e)' = RulesOn(e)
  BY DEF RulesOn
<1>2. ASSUME NEW e \in Devs
      PROVE  refs'[e] = Cardinality(RulesOn(e)') + Cardinality(Lookups(e)') /\ refs'[e] \in Nat
  <2>0. refs[e] = Cardinality(RulesOn(e)) + Cardinality(Lookups(e))
    BY DEF RefsAccounted, Lookups
  <2>1. /\ IsFiniteSet(Lookups(e)) /\ Cardinality(RulesOn(e)) \in Nat
        /\ Cardinality(Lookups(e)) \in Nat /\ RulesOn(e)' = RulesOn(e)
    BY <1>1, CountedFinite
  <2>2. CASE e # d
    <3>1. Lookups(e)' = Lookups(e)
      BY <2>2, NoDevAssumption DEF Lookups
    <3>2. refs'[e] = refs[e]
      BY <2>2 DEF TypeOK
    <3> QED BY <2>0, <2>1, <3>1, <3>2
  <2>3. CASE e = d /\ pk[c].dev = NoDev /\ pk'[c].dev = d /\ refs' = [refs EXCEPT ![d] = @ + 1]
    <3>1. Lookups(e)' = Lookups(e) \cup {c} /\ c \notin Lookups(e)
      BY <2>3, NoDevAssumption DEF Lookups
    <3>2. Cardinality(Lookups(e)') = Cardinality(Lookups(e)) + 1
      BY <2>1, <3>1, FS_AddElement
    <3>3. refs'[e] = refs[e] + 1
      BY <2>3 DEF TypeOK
    <3> QED BY <2>0, <2>1, <3>2, <3>3
  <2>4. CASE e = d /\ pk[c].dev = d /\ pk'[c].dev = NoDev /\ refs' = [refs EXCEPT ![d] = @ - 1]
    <3>1. Lookups(e)' = Lookups(e) \ {c} /\ c \in Lookups(e)
      BY <2>4, NoDevAssumption DEF Lookups
    <3>2. Cardinality(Lookups(e)') = Cardinality(Lookups(e)) - 1
      BY <2>1, <3>1, FS_RemoveElement
    <3>3. Cardinality(Lookups(e)') \in Nat
      BY <2>1, <3>1, FS_RemoveElement, FS_CardinalityType
    <3>4. refs'[e] = refs[e] - 1
      BY <2>4 DEF TypeOK
    <3> QED BY <2>0, <2>1, <3>2, <3>3, <3>4
  <2> QED BY <2>2, <2>3, <2>4
<1>3. RefsAccounted'
  BY <1>2 DEF RefsAccounted, Lookups
<1>4. DOMAIN refs' = Devs /\ refs' = [e \in Devs |-> refs'[e]]
  BY DEF TypeOK
<1> QED BY <1>2, <1>3, <1>4

\* Steps that leave connections, rules and packets alone.
LEMMA RefInvOutside ==
    ASSUME RefInv, UNCHANGED <<conn, ht, rule, refs, pk>>,
           ct' \in [Cts -> CtRec],
           devst' \in [Devs -> {"up", "downing", "down", "unreg", "freed"}]
    PROVE  RefInv'
<1>1. RefsAccounted'
  BY RefsUnchanged DEF RefInv
<1> QED BY <1>1 DEF RefInv, TypeOK, HasDev

\* Steps that take a rule away, or leave it.
LEMMA RefInvRemove ==
    ASSUME RefInv, NEW t \in Tuples, remove_rule(t), UNCHANGED <<conn, ht, devst, pk>>,
           ct' \in [Cts -> CtRec]
    PROVE  RefInv'
<1>1. /\ rule' \in [Tuples -> [on : BOOLEAN, dev : Devs \cup {NoDev}, mark : {0, 1}]]
      /\ \A u \in Tuples : rule'[u].on => rule'[u].dev \in Devs
      /\ refs' \in [Devs -> Nat] /\ RefsAccounted'
  BY RuleRemoved
<1> QED BY <1>1 DEF RefInv, TypeOK, HasDev

\* One entry changes: the table keeps its type.
LEMMA CtReplaced ==
    ASSUME ct \in [Cts -> CtRec], NEW x \in Cts, NEW r \in CtRec, ct' = [ct EXCEPT ![x] = r]
    PROVE  /\ ct' \in [Cts -> CtRec] /\ ct'[x] = r
           /\ \A y \in Cts : y # x => ct'[y] = ct[y]
OBVIOUS

LEMMA ConnReplaced ==
    ASSUME conn \in [Conns -> ConnRec], NEW i \in Conns, NEW r \in ConnRec,
           conn' = [conn EXCEPT ![i] = r]
    PROVE  /\ conn' \in [Conns -> ConnRec] /\ conn'[i] = r
           /\ \A j \in Conns : j # i => conn'[j] = conn[j]
OBVIOUS

\* Steps that change a mark or a flag of a connection, and conntrack's own state.
LEMMA RefInvFlag ==
    ASSUME RefInv, UNCHANGED <<ht, rule, devst, refs, pk>>,
           ct' \in [Cts -> CtRec], conn' \in [Conns -> ConnRec],
           \A j \in Conns : conn'[j].st = conn[j].st /\ conn'[j].dev = conn[j].dev
    PROVE  RefInv'
<1>1. RefsAccounted'
  BY RefsUnchanged DEF RefInv
<1>2. TypeOK'
  BY DEF RefInv, TypeOK
<1>3. \A b \in Cpus : pk[b].conn \in Conns \cup {None}
  BY DEF RefInv, TypeOK, PkRec
<1>4. ht \subseteq Conns
  BY DEF RefInv, TypeOK
<1>5. HasDev'
  BY <1>3, <1>4 DEF RefInv, HasDev
<1> QED BY <1>1, <1>2, <1>5 DEF RefInv

\* Steps of conntrack and of its events.
LEMMA RefInvEvent ==
    ASSUME RefInv, NEW x \in Cts,
           \/ Event(x) \/ mark_rule(x) \/ ct_expire(x) \/ ct_delete(x) \/ ct_free(x)
           \/ \E t \in Tuples : ct_new(x, t)
    PROVE  RefInv'
<1> USE DEF RefInv
<1>ct. ct \in [Cts -> CtRec]
  BY DEF TypeOK
<1>conn. conn \in [Conns -> ConnRec]
  BY DEF TypeOK
<1>type. /\ ct \in [Cts -> CtRec] /\ conn \in [Conns -> ConnRec] /\ ct[x].tup \in Tuples
         /\ ht \subseteq Conns
         /\ devst \in [Devs -> {"up", "downing", "down", "unreg", "freed"}]
         /\ rule \in [Tuples -> [on : BOOLEAN, dev : Devs \cup {NoDev}, mark : {0, 1}]]
  BY DEF TypeOK, CtRec
<1>1. CASE ct_expire(x) \/ ct_delete(x) \/ ct_free(x) \/ \E t \in Tuples : ct_new(x, t)
  <2>1. ct' \in [Cts -> CtRec]
    <3>1. CASE ct_expire(x) \/ ct_free(x)
      BY <3>1, <1>ct DEF ct_expire, ct_free, CtRec
    <3>2. CASE ct_delete(x)
      <4> DEFINE r == [ct[x] EXCEPT !.st = "dying", !.ev = "conn"]
      <4>1. ct' = [ct EXCEPT ![x] = r]
        BY <3>2 DEF ct_delete
      <4>2. ct[x] \in CtRec
        BY <1>ct
      <4>3. r \in CtRec
        BY <4>2 DEF CtRec
      <4> HIDE DEF r
      <4> QED BY <4>1, <4>3, <1>ct, CtReplaced
    <3>3. CASE \E t \in Tuples : ct_new(x, t)
      <4>1. PICK t \in Tuples : ct_new(x, t)
        BY <3>3
      <4> DEFINE r == [ct[x] EXCEPT !.st = "hashed", !.tup = t]
      <4>2. ct' = [ct EXCEPT ![x] = r]
        BY <4>1 DEF ct_new
      <4>3. ct[x] \in CtRec
        BY <1>ct
      <4>4. r \in CtRec
        BY <4>3 DEF CtRec
      <4> HIDE DEF r
      <4> QED BY <4>2, <4>4, <1>ct, CtReplaced
    <3> QED BY <1>1, <3>1, <3>2, <3>3
  <2> QED BY <1>1, <2>1, <1>type, RefInvOutside DEF ct_expire, ct_delete, ct_free, ct_new
<1>2. CASE mark_rule(x)
  <2>1. ct' \in [Cts -> CtRec]
    BY <1>2, <1>type DEF mark_rule, CtRec
  <2>2. /\ rule' \in [Tuples -> [on : BOOLEAN, dev : Devs \cup {NoDev}, mark : {0, 1}]]
        /\ \A t \in Tuples : rule'[t].on = rule[t].on /\ rule'[t].dev = rule[t].dev
    BY <1>2, <1>type DEF mark_rule
  <2>3. \A d \in Devs : RulesOn(d)' = RulesOn(d) /\ Lookups(d)' = Lookups(d)
    BY <1>2, <2>2 DEF mark_rule, RulesOn, Lookups
  <2>4. RefsAccounted'
    BY <1>2, <2>3 DEF mark_rule, RefsAccounted, Lookups
  <2> QED BY <1>2, <2>1, <2>2, <2>4 DEF mark_rule, TypeOK, HasDev
<1>3. CASE update_mark(x)
  <2>1. ct' \in [Cts -> CtRec]
    <3> DEFINE r == [ct[x] EXCEPT !.marking = FALSE]
    <3>1. ct' = [ct EXCEPT ![x] = r]
      BY <1>3 DEF update_mark
    <3>2. ct[x] \in CtRec
      BY <1>ct
    <3>3. r \in CtRec
      BY <3>2 DEF CtRec
    <3> HIDE DEF r
    <3> QED BY <3>1, <3>3, <1>ct, CtReplaced
  <2>2. /\ conn' \in [Conns -> ConnRec]
        /\ \A i \in Conns : conn'[i].st = conn[i].st /\ conn'[i].dev = conn[i].dev
    <3>1. conn' = [i \in Conns |-> IF i \in find_conn(ct[x].tup)
                                   THEN [conn[i] EXCEPT !.mark = 1] ELSE conn[i]]
      BY <1>3 DEF update_mark, set_mark
    <3>2. ASSUME NEW i \in Conns
          PROVE  conn'[i] \in ConnRec /\ conn'[i].st = conn[i].st /\ conn'[i].dev = conn[i].dev
      <4>1. conn[i] \in ConnRec
        BY <1>conn
      <4>2. conn'[i] = conn[i] \/ conn'[i] = [conn[i] EXCEPT !.mark = 1]
        BY <3>1
      <4> QED BY <4>1, <4>2 DEF ConnRec
    <3>3. conn' = [i \in Conns |-> conn'[i]]
      BY <3>1
    <3> QED BY <3>2, <3>3
  <2>3. UNCHANGED <<ht, rule, devst, refs, pk>>
    BY <1>3 DEF update_mark
  <2> QED BY <2>1, <2>2, <2>3, RefInvFlag
<1>4. CASE destroy_conn(x)
  <2>1. ct' \in [Cts -> CtRec]
    <3> DEFINE r == [ct[x] EXCEPT !.ev = "rule"]
    <3>2. ct' = [ct EXCEPT ![x] = r]
      BY <1>4 DEF destroy_conn
    <3>3. ct[x] \in CtRec
      BY <1>ct
    <3>4. r \in CtRec
      BY <3>3 DEF CtRec
    <3> HIDE DEF r
    <3> QED BY <3>2, <3>4, <1>ct, CtReplaced
  <2>2. /\ conn' \in [Conns -> ConnRec] /\ ht' \subseteq ht
        /\ \A i \in Conns : /\ conn'[i].st = "unused" => conn[i].st = "unused"
                            /\ conn'[i].dev = conn[i].dev
    <3>1. /\ conn' = [i \in Conns |-> IF i \in find_conn(ct[x].tup)
                                      THEN [conn[i] EXCEPT !.st = "freed"] ELSE conn[i]]
          /\ ht' = ht \ find_conn(ct[x].tup)
      BY <1>4 DEF destroy_conn, unhash
    <3>2. ASSUME NEW i \in Conns
          PROVE  /\ conn'[i] \in ConnRec /\ conn'[i].dev = conn[i].dev
                 /\ conn'[i].st = "unused" => conn[i].st = "unused"
      <4>1. conn[i] \in ConnRec
        BY <1>conn
      <4>2. conn'[i] = conn[i] \/ conn'[i] = [conn[i] EXCEPT !.st = "freed"]
        BY <3>1
      <4> QED BY <4>1, <4>2 DEF ConnRec
    <3>3. conn' = [i \in Conns |-> conn'[i]]
      BY <3>1
    <3> QED BY <3>1, <3>2, <3>3
  <2>2a. \A i \in Conns : i \in find_conn(ct[x].tup) => i \in ht
    BY DEF find_conn
  <2>2b. \A i \in Conns : conn'[i].st # "unused" => conn[i].st # "unused"
    BY <1>4, <1>type, <2>2a DEF destroy_conn, HasDev
  <2>3. RefsAccounted'
    BY <1>4, RefsUnchanged DEF destroy_conn
  <2> QED BY <1>4, <2>1, <2>2, <2>2b, <2>3 DEF destroy_conn, TypeOK, HasDev, PkRec
<1>5. CASE destroy_rule(x)
  <2>1. ct' \in [Cts -> CtRec]
    BY <1>5, <1>type, SMTT(30) DEF destroy_rule, CtRec
  <2> QED BY <1>5, <2>1, <1>type, RefInvRemove DEF destroy_rule
<1>6. CASE destroy_done(x)
  <2>1. ct' \in [Cts -> CtRec]
    BY <1>6, <1>type DEF destroy_done, CtRec
  <2> QED BY <1>6, <2>1, <1>type, RefInvOutside DEF destroy_done
<1> QED BY <1>1, <1>2, <1>3, <1>4, <1>5, <1>6 DEF Event

\* A packet goes on, and at most a counter or a flag of a connection changes.
LEMMA RefInvPacket ==
    ASSUME RefInv, NEW c \in Cpus, UNCHANGED <<ct, ht, rule, devst, refs>>,
           conn' \in [Conns -> ConnRec],
           \A i \in Conns : conn'[i].st = conn[i].st /\ conn'[i].dev = conn[i].dev,
           pk' \in [Cpus -> PkRec], \A b \in Cpus \ {c} : pk'[b] = pk[b],
           pk'[c].at # "idle" => pk'[c].ct \in Cts,
           pk'[c].at = "idle" => pk'[c].conn = None,
           pk'[c].conn # None => conn[pk'[c].conn].st # "unused",
           pk'[c].at \in {"create", "insert", "offloaded"} => pk'[c].conn \in Conns,
           pk'[c].at # "resolve" /\ pk[c].dev = NoDev /\ pk'[c].dev = NoDev
    PROVE  RefInv'
<1>1. \A b \in Cpus : pk'[b].dev = pk[b].dev
  OBVIOUS
<1>2. RefsAccounted'
  BY <1>1, RefsUnchanged DEF RefInv
<1>3. TypeOK'
  BY DEF RefInv, TypeOK
<1>4. ASSUME NEW b \in Cpus
      PROVE  /\ pk'[b].at # "idle" => pk'[b].ct \in Cts
             /\ pk'[b].at = "idle" => pk'[b].conn = None
             /\ pk'[b].conn # None => conn'[pk'[b].conn].st # "unused"
             /\ pk'[b].at \in {"create", "insert", "offloaded"} => pk'[b].conn \in Conns
             /\ pk'[b].at = "resolve" <=> pk'[b].dev # NoDev
  <2>1. pk'[b].conn \in Conns \cup {None}
    BY DEF PkRec
  <2>2. CASE b = c
    BY <2>1, <2>2
  <2>3. CASE b # c
    BY <2>1, <2>3 DEF RefInv, HasDev
  <2> QED BY <2>2, <2>3
<1>5. HasDev'
  BY <1>4 DEF RefInv, HasDev, TypeOK
<1> QED BY <1>2, <1>3, <1>5 DEF RefInv

LEMMA RefInvHook ==
    ASSUME RefInv, NEW c \in Cpus, Hook(c) \/ \E x \in Cts : packet(c, x)
    PROVE  RefInv'
<1>ct. ct \in [Cts -> CtRec]
  BY DEF RefInv, TypeOK
<1>conn. conn \in [Conns -> ConnRec] /\ ht \subseteq Conns
  BY DEF RefInv, TypeOK
<1>pk. pk \in [Cpus -> PkRec] /\ pk[c] \in PkRec
  BY DEF RefInv, TypeOK
<1>has. /\ pk[c].at # "idle" => pk[c].ct \in Cts
        /\ pk[c].at = "idle" => pk[c].conn = None
        /\ pk[c].conn # None => conn[pk[c].conn].st # "unused"
        /\ pk[c].at \in {"create", "insert", "offloaded"} => pk[c].conn \in Conns
        /\ pk[c].at = "resolve" <=> pk[c].dev # NoDev
  BY DEF RefInv, HasDev
<1>none. None \notin Cts /\ None \notin Conns
  BY BoundsAssumption DEF None, Cts, Conns
<1>idle. /\ Idle \in PkRec /\ Idle.at = "idle" /\ Idle.conn = None /\ Idle.dev = NoDev
         /\ \A f : f = [pk EXCEPT ![c] = Idle]
                     => f \in [Cpus -> PkRec] /\ f[c] = Idle /\ \A b \in Cpus \ {c} : f[b] = pk[b]
  BY <1>pk DEF Idle, PkRec
<1>1. CASE \E x \in Cts : packet(c, x)
  <2>1. PICK x \in Cts : packet(c, x)
    BY <1>1
  <2>2. /\ pk' \in [Cpus -> PkRec] /\ pk'[c].at = "in" /\ pk'[c].ct = x
        /\ pk'[c].conn = pk[c].conn /\ pk'[c].dev = pk[c].dev
        /\ \A b \in Cpus \ {c} : pk'[b] = pk[b]
    <3>1. pk' = [pk EXCEPT ![c].at = "in", ![c].ct = x]
      BY <2>1 DEF packet
    <3> QED BY <3>1, <1>pk DEF PkRec
  <2>3. pk[c].dev = NoDev /\ pk[c].conn = None
    BY <2>1 DEF packet, Idle
  <2>4. UNCHANGED <<ct, conn, ht, rule, devst, refs>>
    BY <2>1 DEF packet
  <2> QED BY <2>2, <2>3, <2>4, <1>conn, RefInvPacket
<1>2. CASE post_routing_offload(c)
  <2>1. PICK i \in find_conn(ct[pk[c].ct].tup) :
          /\ conn' = [conn EXCEPT ![i].hits = OffloadAt]
          /\ \/ pk' = [pk EXCEPT ![c] = Idle]
             \/ pk' = [pk EXCEPT ![c].at = "create", ![c].conn = i]
    BY <1>2 DEF post_routing_offload
  <2>2. i \in Conns /\ conn[i].st # "unused" /\ pk[c].dev = NoDev /\ pk[c].ct \in Cts
    BY <1>2, <1>conn, <1>has DEF post_routing_offload, find_conn, RefInv, HasDev
  <2>3. /\ conn' \in [Conns -> ConnRec]
        /\ \A j \in Conns : conn'[j].st = conn[j].st /\ conn'[j].dev = conn[j].dev
    BY <2>1, <2>2, <1>conn, OffloadAssumption DEF ConnRec
  <2>4. UNCHANGED <<ct, ht, rule, devst, refs>>
    BY <1>2 DEF post_routing_offload
  <2>5. CASE pk' = [pk EXCEPT ![c] = Idle]
    BY <2>2, <2>3, <2>4, <2>5, <1>idle, RefInvPacket
  <2>6. CASE pk' = [pk EXCEPT ![c].at = "create", ![c].conn = i]
    <3>1. /\ pk' \in [Cpus -> PkRec] /\ pk'[c].at = "create" /\ pk'[c].conn = i
          /\ pk'[c].ct = pk[c].ct /\ pk'[c].dev = pk[c].dev
          /\ \A b \in Cpus \ {c} : pk'[b] = pk[b]
      BY <2>2, <2>6, <1>pk DEF PkRec
    <3> QED BY <2>2, <2>3, <2>4, <3>1, RefInvPacket
  <2> QED BY <2>1, <2>5, <2>6
<1>3. CASE post_routing_found(c)
  <2>1. PICK i \in find_conn(ct[pk[c].ct].tup) :
          /\ conn' = [conn EXCEPT ![i].hits = IF @ < OffloadAt THEN @ + 1 ELSE @]
          /\ pk' = [pk EXCEPT ![c].at = "found", ![c].conn = i]
    BY <1>3 DEF post_routing_found
  <2>2. i \in Conns /\ conn[i].st # "unused" /\ pk[c].dev = NoDev /\ pk[c].ct \in Cts
    BY <1>3, <1>conn, <1>has DEF post_routing_found, find_conn, RefInv, HasDev
  <2>3. /\ conn' \in [Conns -> ConnRec]
        /\ \A j \in Conns : conn'[j].st = conn[j].st /\ conn'[j].dev = conn[j].dev
    BY <2>1, <2>2, <1>conn, OffloadAssumption DEF ConnRec
  <2>4. /\ pk' \in [Cpus -> PkRec] /\ pk'[c].at = "found" /\ pk'[c].conn = i
        /\ pk'[c].ct = pk[c].ct /\ pk'[c].dev = pk[c].dev
        /\ \A b \in Cpus \ {c} : pk'[b] = pk[b]
    BY <2>1, <2>2, <1>pk DEF PkRec
  <2>5. UNCHANGED <<ct, ht, rule, devst, refs>>
    BY <1>3 DEF post_routing_found
  <2> QED BY <2>2, <2>3, <2>4, <2>5, RefInvPacket
<1>4. CASE update_rule(c)
  <2>1. pk' = [pk EXCEPT ![c] = Idle] /\ pk[c].dev = NoDev
        /\ UNCHANGED <<ct, conn, ht, rule, devst, refs>>
    BY <1>4, <1>has DEF update_rule
  <2> QED BY <2>1, <1>idle, <1>conn, RefInvPacket
<1>5. CASE create_rule_check(c)
  <2>1. /\ pk[c].at = "create" /\ UNCHANGED <<ct, conn, ht, rule, devst, refs>>
        /\ \/ pk' = [pk EXCEPT ![c] = Idle]
           \/ pk' = [pk EXCEPT ![c].at = "insert"]
    BY <1>5 DEF create_rule_check
  <2>2. pk[c].dev = NoDev /\ pk[c].ct \in Cts /\ pk[c].conn \in Conns
    BY <2>1, <1>has
  <2>3. CASE pk' = [pk EXCEPT ![c] = Idle]
    BY <2>1, <2>2, <2>3, <1>idle, <1>conn, RefInvPacket
  <2>4. CASE pk' = [pk EXCEPT ![c].at = "insert"]
    <3>1. /\ pk' \in [Cpus -> PkRec] /\ pk'[c].at = "insert" /\ pk'[c].conn = pk[c].conn
          /\ pk'[c].ct = pk[c].ct /\ pk'[c].dev = pk[c].dev
          /\ \A b \in Cpus \ {c} : pk'[b] = pk[b]
      BY <2>4, <1>pk DEF PkRec
    <3> QED BY <2>1, <2>2, <3>1, <1>conn, <1>has, RefInvPacket
  <2> QED BY <2>1, <2>3, <2>4
<1>6. CASE create_rule_insert(c)
  <2>0. pk[c].at = "insert" /\ UNCHANGED <<ct, conn, ht, devst>>
    BY <1>6 DEF create_rule_insert
  <2>1. /\ pk[c].dev = NoDev /\ pk[c].ct \in Cts /\ pk[c].conn \in Conns
        /\ conn[pk[c].conn].dev \in Devs
    BY <2>0, <1>has, <1>none DEF RefInv, HasDev
  <2>2. CASE pk' = [pk EXCEPT ![c] = Idle] /\ UNCHANGED <<rule, refs>>
    BY <2>0, <2>1, <2>2, <1>idle, <1>conn, RefInvPacket
  <2>3. CASE create_rule(pk[c].conn) /\ pk' = [pk EXCEPT ![c].at = "offloaded"]
    <3>1. /\ pk' \in [Cpus -> PkRec] /\ pk'[c].at = "offloaded" /\ pk'[c].conn = pk[c].conn
          /\ pk'[c].ct = pk[c].ct /\ pk'[c].dev = pk[c].dev
          /\ \A b \in Cpus \ {c} : pk'[b] = pk[b]
      BY <2>3, <1>pk DEF PkRec
    <3>2. \A b \in Cpus : pk'[b].dev = pk[b].dev
      BY <3>1
    <3>3. /\ rule' \in [Tuples -> [on : BOOLEAN, dev : Devs \cup {NoDev}, mark : {0, 1}]]
          /\ \A u \in Tuples : rule'[u].on => rule'[u].dev \in Devs
          /\ refs' \in [Devs -> Nat] /\ RefsAccounted'
      BY <2>1, <2>3, <3>2, RuleCreated
    <3>4. TypeOK'
      BY <2>0, <3>1, <3>3 DEF RefInv, TypeOK
    <3>5. HasDev'
      BY <2>0, <2>1, <3>1, <3>3, <1>has DEF RefInv, HasDev
    <3> QED BY <3>3, <3>4, <3>5 DEF RefInv
  <2> QED BY <1>6, <2>2, <2>3 DEF create_rule_insert
<1>7. CASE mark_offloaded(c)
  <2>1. /\ conn' = [conn EXCEPT ![pk[c].conn].offloaded = TRUE]
        /\ pk' = [pk EXCEPT ![c] = Idle] /\ pk[c].at = "offloaded"
        /\ UNCHANGED <<ct, ht, rule, devst, refs>>
    BY <1>7 DEF mark_offloaded
  <2>2. pk[c].dev = NoDev /\ pk[c].conn \in Conns
    BY <2>1, <1>has
  <2>3. /\ conn' \in [Conns -> ConnRec]
        /\ \A j \in Conns : conn'[j].st = conn[j].st /\ conn'[j].dev = conn[j].dev
    <3> DEFINE r == [conn[pk[c].conn] EXCEPT !.offloaded = TRUE]
    <3>1. conn' = [conn EXCEPT ![pk[c].conn] = r]
      BY <2>1
    <3>2. conn[pk[c].conn] \in ConnRec
      BY <2>2, <1>conn
    <3>3. r \in ConnRec /\ r.st = conn[pk[c].conn].st /\ r.dev = conn[pk[c].conn].dev
      BY <3>2 DEF ConnRec
    <3> HIDE DEF r
    <3> QED BY <3>1, <3>3, <2>2, <1>conn, ConnReplaced
  <2>5. /\ pk' \in [Cpus -> PkRec] /\ \A b \in Cpus \ {c} : pk'[b] = pk[b]
        /\ pk'[c].at = "idle" /\ pk'[c].conn = None /\ pk'[c].dev = NoDev
    BY <2>1, <1>idle
  <2>6. UNCHANGED <<ct, ht, rule, devst, refs>>
    BY <2>1
  <2> QED BY <2>2, <2>3, <2>5, <2>6, RefInvPacket
<1>8. CASE \E d \in Devs : post_routing_new(c, d)
  <2>1. PICK d \in Devs : post_routing_new(c, d)
    BY <1>8
  <2>2. /\ pk[c].at = "in" /\ pk[c].dev = NoDev /\ pk[c].ct \in Cts
        /\ UNCHANGED <<ct, conn, ht, rule, devst>>
    BY <2>1, <1>has DEF post_routing_new
  <2>3. CASE pk' = [pk EXCEPT ![c] = Idle] /\ UNCHANGED refs
    BY <2>2, <2>3, <1>idle, <1>conn, RefInvPacket
  <2>4. CASE /\ pk' = [pk EXCEPT ![c].at = "resolve", ![c].dev = d]
             /\ refs' = [refs EXCEPT ![d] = @ + 1]
    <3>1. /\ pk' \in [Cpus -> PkRec] /\ pk'[c].at = "resolve" /\ pk'[c].conn = pk[c].conn
          /\ pk'[c].ct = pk[c].ct /\ pk'[c].dev = d
          /\ \A b \in Cpus \ {c} : pk'[b] = pk[b]
      BY <2>4, <1>pk DEF PkRec
    <3>2. refs' \in [Devs -> Nat] /\ RefsAccounted'
      BY <2>2, <2>4, <3>1, LookupCounted
    <3>3. TypeOK'
      BY <2>2, <3>1, <3>2 DEF RefInv, TypeOK
    <3>4. HasDev'
      BY <2>2, <3>1, <1>has, NoDevAssumption DEF RefInv, HasDev
    <3> QED BY <3>2, <3>3, <3>4 DEF RefInv
  <2> QED BY <2>1, <2>3, <2>4 DEF post_routing_new
<1>9. CASE post_routing_add(c)
  <2>1. /\ pk[c].at = "resolve" /\ pk' = [pk EXCEPT ![c] = Idle]
        /\ refs' = [refs EXCEPT ![pk[c].dev] = @ - 1] /\ UNCHANGED <<ct, rule, devst>>
    BY <1>9 DEF post_routing_add
  <2>2. pk[c].dev \in Devs /\ pk[c].ct \in Cts
    BY <2>1, <1>has, <1>pk DEF PkRec
  <2>3. refs' \in [Devs -> Nat] /\ RefsAccounted'
    BY <2>1, <2>2, <1>idle, LookupCounted
  <2>4. /\ conn' \in [Conns -> ConnRec] /\ ht' \subseteq Conns
        /\ \A i \in Conns : conn'[i].st # "unused" => conn'[i].dev \in Devs
        /\ \A i \in Conns : conn[i].st # "unused" => conn'[i].st # "unused"
        /\ \A i \in ht' : conn'[i].st # "unused"
    <3>1. CASE UNCHANGED <<ht, conn>>
      BY <3>1, <1>conn DEF RefInv, HasDev
    <3>2. CASE \E i \in Conns : add_conn(c, i)
      <4>1. PICK i \in Conns, m \in {0, 1} :
              /\ ht' = ht \cup {i}
              /\ conn' = [conn EXCEPT ![i] =
                    [st |-> "live", tup |-> ct[pk[c].ct].tup, ct |-> pk[c].ct, dev |-> pk[c].dev,
                     mark |-> m, hits |-> 0, offload_permit |-> FALSE, offloaded |-> FALSE]]
        BY <3>2 DEF add_conn
      <4>2. ct[pk[c].ct].tup \in Tuples
        BY <2>2, <1>ct DEF CtRec
      <4> DEFINE r == [st |-> "live", tup |-> ct[pk[c].ct].tup, ct |-> pk[c].ct,
                       dev |-> pk[c].dev, mark |-> m, hits |-> 0,
                       offload_permit |-> FALSE, offloaded |-> FALSE]
      <4>a. conn' = [conn EXCEPT ![i] = r]
        BY <4>1
      <4>c. r \in ConnRec /\ r.st = "live" /\ r.dev = pk[c].dev
        BY <4>2, <2>2, OffloadAssumption DEF ConnRec
      <4> HIDE DEF r
      <4>3. /\ conn' \in [Conns -> ConnRec] /\ conn'[i].st = "live" /\ conn'[i].dev = pk[c].dev
            /\ \A j \in Conns : j # i => conn'[j] = conn[j]
        BY <4>a, <4>c, <1>conn
      <4> QED BY <4>1, <4>3, <2>2, <1>conn DEF RefInv, HasDev
    <3> QED BY <1>9, <3>1, <3>2 DEF post_routing_add
  <2>5. TypeOK'
    BY <2>1, <2>3, <2>4, <1>idle DEF RefInv, TypeOK
  <2>6. ASSUME NEW b \in Cpus
        PROVE  /\ pk'[b].at # "idle" => pk'[b].ct \in Cts
               /\ pk'[b].at = "idle" => pk'[b].conn = None
               /\ pk'[b].conn # None => conn'[pk'[b].conn].st # "unused"
               /\ pk'[b].at \in {"create", "insert", "offloaded"} => pk'[b].conn \in Conns
               /\ pk'[b].at = "resolve" <=> pk'[b].dev # NoDev
    <3>1. CASE b = c
      BY <2>1, <3>1, <1>idle
    <3>2. CASE b # c
      <4>1. pk'[b] = pk[b] /\ pk[b].conn \in Conns \cup {None}
        BY <2>1, <3>2, <1>idle, <1>pk DEF PkRec
      <4> QED BY <4>1, <2>4 DEF RefInv, HasDev
    <3> QED BY <3>1, <3>2
  <2>7. HasDev'
    BY <2>1, <2>4, <2>6 DEF RefInv, HasDev
  <2> QED BY <2>3, <2>5, <2>7 DEF RefInv
<1> QED BY <1>1, <1>2, <1>3, <1>4, <1>5, <1>6, <1>7, <1>8, <1>9 DEF Hook

LEMMA RefInvStep == RefInv /\ [Next]_vars => RefInv'
<1> SUFFICES ASSUME RefInv, [Next]_vars PROVE RefInv'
  OBVIOUS
<1>type. /\ ct \in [Cts -> CtRec]
         /\ devst \in [Devs -> {"up", "downing", "down", "unreg", "freed"}]
  BY DEF RefInv, TypeOK
<1>1. CASE UNCHANGED vars
  BY <1>1, <1>type, RefInvOutside DEF vars
<1>2. ASSUME NEW c \in Cpus, Hook(c) \/ \E x \in Cts : packet(c, x) PROVE RefInv'
  BY <1>2, RefInvHook
<1>3. ASSUME NEW x \in Cts,
             \/ Event(x) \/ mark_rule(x) \/ ct_expire(x) \/ ct_delete(x) \/ ct_free(x)
             \/ \E t \in Tuples : ct_new(x, t)
      PROVE  RefInv'
  BY <1>3, RefInvEvent
<1>4. ASSUME NEW t \in Tuples, sfe_flush_on_find(t) PROVE RefInv'
  BY <1>4, <1>type, RefInvRemove DEF sfe_flush_on_find
<1>5. ASSUME NEW t \in Tuples, offload_genl_msg(t) PROVE RefInv'
  <2>1. PICK i \in find_conn(t) : conn' = [conn EXCEPT ![i].offload_permit = TRUE]
    BY <1>5 DEF offload_genl_msg
  <2>2. UNCHANGED <<ct, ht, rule, devst, refs, pk>>
    BY <1>5 DEF offload_genl_msg
  <2>3. /\ conn' \in [Conns -> ConnRec]
        /\ \A j \in Conns : conn'[j].st = conn[j].st /\ conn'[j].dev = conn[j].dev
    <3>1. i \in Conns /\ conn \in [Conns -> ConnRec]
      BY DEF RefInv, TypeOK, find_conn
    <3> DEFINE r == [conn[i] EXCEPT !.offload_permit = TRUE]
    <3>2. conn' = [conn EXCEPT ![i] = r]
      BY <2>1
    <3>3. conn[i] \in ConnRec
      BY <3>1
    <3>4. r \in ConnRec /\ r.st = conn[i].st /\ r.dev = conn[i].dev
      BY <3>3 DEF ConnRec
    <3> HIDE DEF r
    <3> QED BY <3>1, <3>2, <3>4, ConnReplaced
  <2>4. ct' \in [Cts -> CtRec]
    BY <2>2, <1>type
  <2> QED BY <2>2, <2>3, <2>4, RefInvFlag
<1>6. ASSUME NEW d \in Devs, \E t \in Tuples : device_event_rule(d, t) PROVE RefInv'
  BY <1>6, <1>type, RefInvRemove DEF device_event_rule
<1>7. ASSUME NEW d \in Devs,
             \/ device_event_done(d) \/ netdev_down(d) \/ netdev_up(d)
             \/ netdev_unregister(d) \/ netdev_free(d)
      PROVE  RefInv'
  BY <1>7, <1>type, RefInvOutside
     DEF device_event_done, netdev_down, netdev_up, netdev_unregister, netdev_free
<1> QED BY <1>1, <1>2, <1>3, <1>4, <1>5, <1>6, <1>7 DEF Next, DeviceEvent

\* The types are kept whatever overlaps.
THEOREM ClassifierTypeCorrect == Spec => []TypeOK
<1>1. RefInv => TypeOK
  BY DEF RefInv
<1> QED BY <1>1, RefInvInit, RefInvStep, PTL DEF Spec

\* Every reference to a device is one of a rule in the table or of a packet that
\* looks devices up, whatever overlaps: none is leaked, and none given back
\* twice (sfe_ipv4_create_rule, sfe_ipv4_flush_sfe_ipv4_connection,
\* fast_classifier_post_routing).
THEOREM ReferencesAccounted == Spec => []RefsAccounted
<1>1. RefInv => RefsAccounted
  BY DEF RefInv
<1> QED BY <1>1, RefInvInit, RefInvStep, PTL DEF Spec

-----------------------------------------------------------------------------
(* The table of connections.                                               *)

\* OneConn looks at the table, and at what a connection is for and whether it
\* is live.
LEMMA OneConnSame ==
    ASSUME TypeOK, OneConn, ht' = ht,
           \A i \in Conns : conn'[i].st = conn[i].st /\ conn'[i].tup = conn[i].tup
    PROVE  OneConn'
BY DEF TypeOK, OneConn

\* Taking the connections of an entry out of the table and freeing them leaves
\* none that is freed.
LEMMA OneConnDestroy ==
    ASSUME TypeOK, OneConn, NEW x \in Cts, destroy_conn(x)
    PROVE  OneConn'
<1>1. ht' = ht \ find_conn(ct[x].tup)
  BY DEF destroy_conn, unhash
<1>2. \A i \in Conns : i \notin find_conn(ct[x].tup) => conn'[i] = conn[i]
  BY DEF destroy_conn
<1> QED BY <1>1, <1>2 DEF TypeOK, OneConn

\* A connection is added where no live one is, and for a tuple that has none
\* at that moment.
LEMMA OneConnAdd ==
    ASSUME TypeOK, OneConn, NEW c \in Cpus, NEW i \in Conns, add_conn(c, i)
    PROVE  OneConn'
<1> DEFINE t == ct[pk[c].ct].tup
<1>1. /\ ht' = ht \cup {i} /\ conn[i].st # "live"
      /\ \A j \in ht : conn[j].tup # t
  BY DEF add_conn, is_duplicate, find_conn
<1>2. PICK m \in {0, 1} :
        conn' = [conn EXCEPT ![i] =
                    [st |-> "live", tup |-> t, ct |-> pk[c].ct, dev |-> pk[c].dev, mark |-> m,
                     hits |-> 0, offload_permit |-> FALSE, offloaded |-> FALSE]]
  BY DEF add_conn
<1>3. conn \in [Conns -> ConnRec] /\ ht \subseteq Conns
  BY DEF TypeOK
<1>4. /\ conn'[i].st = "live" /\ conn'[i].tup = t
      /\ \A j \in Conns : j # i => conn'[j] = conn[j]
  BY <1>2, <1>3
<1>5. \A j \in ht : j # i /\ j \in Conns /\ conn'[j] = conn[j]
  BY <1>1, <1>3, <1>4 DEF OneConn
<1> HIDE DEF t
<1> QED BY <1>1, <1>4, <1>5 DEF OneConn

LEMMA OneConnHook ==
    ASSUME RefInv, OneConn, NEW c \in Cpus, Hook(c) \/ \E x \in Cts : packet(c, x)
    PROVE  OneConn'
<1>type. TypeOK /\ conn \in [Conns -> ConnRec]
  BY DEF RefInv, TypeOK
<1>1. CASE \/ \E x \in Cts : packet(c, x)
           \/ update_rule(c) \/ create_rule_check(c) \/ create_rule_insert(c)
           \/ \E d \in Devs : post_routing_new(c, d)
  <2>1. UNCHANGED <<ht, conn>>
    BY <1>1 DEF packet, update_rule, create_rule_check, create_rule_insert, post_routing_new
  <2> QED BY <2>1, <1>type, OneConnSame
<1>2. CASE post_routing_offload(c) \/ post_routing_found(c)
  <2>1. PICK i, h : ht' = ht /\ conn' = [conn EXCEPT ![i].hits = h]
    BY <1>2 DEF post_routing_offload, post_routing_found
  <2>2. \A j \in Conns : conn'[j].st = conn[j].st /\ conn'[j].tup = conn[j].tup
    BY <2>1, <1>type DEF ConnRec
  <2> QED BY <2>1, <2>2, <1>type, OneConnSame
<1>3. CASE mark_offloaded(c)
  <2>1. ht' = ht /\ conn' = [conn EXCEPT ![pk[c].conn].offloaded = TRUE]
    BY <1>3 DEF mark_offloaded
  <2>2. \A j \in Conns : conn'[j].st = conn[j].st /\ conn'[j].tup = conn[j].tup
    BY <2>1, <1>type DEF ConnRec
  <2> QED BY <2>1, <2>2, <1>type, OneConnSame
<1>4. CASE post_routing_add(c)
  <2>1. CASE UNCHANGED <<ht, conn>>
    BY <2>1, <1>type, OneConnSame
  <2>2. CASE \E i \in Conns : add_conn(c, i)
    BY <2>2, <1>type, OneConnAdd
  <2> QED BY <1>4, <2>1, <2>2 DEF post_routing_add
<1> QED BY <1>1, <1>2, <1>3, <1>4 DEF Hook

LEMMA OneConnStep == RefInv /\ OneConn /\ [Next]_vars => OneConn'
<1> SUFFICES ASSUME RefInv, OneConn, [Next]_vars PROVE OneConn'
  OBVIOUS
<1>type. TypeOK /\ conn \in [Conns -> ConnRec] /\ ht \subseteq Conns
  BY DEF RefInv, TypeOK
<1>1. CASE UNCHANGED <<ht, conn>>
  BY <1>1, <1>type, OneConnSame
<1>2. ASSUME NEW c \in Cpus, Hook(c) \/ \E x \in Cts : packet(c, x) PROVE OneConn'
  BY <1>2, OneConnHook
<1>3. ASSUME NEW x \in Cts, destroy_conn(x) PROVE OneConn'
  BY <1>3, <1>type, OneConnDestroy
<1>4. ASSUME NEW x \in Cts, update_mark(x) PROVE OneConn'
  <2>1. ht' = ht /\ conn' = [i \in Conns |-> IF i \in find_conn(ct[x].tup)
                                             THEN [conn[i] EXCEPT !.mark = 1] ELSE conn[i]]
    BY <1>4 DEF update_mark, set_mark
  <2>2. ASSUME NEW i \in Conns PROVE conn'[i].st = conn[i].st /\ conn'[i].tup = conn[i].tup
    <3>1. conn[i] \in ConnRec
      BY <1>type
    <3>2. conn'[i] = conn[i] \/ conn'[i] = [conn[i] EXCEPT !.mark = 1]
      BY <2>1
    <3> QED BY <3>1, <3>2 DEF ConnRec
  <2> QED BY <2>1, <2>2, <1>type, OneConnSame
<1>5. ASSUME NEW t \in Tuples, offload_genl_msg(t) PROVE OneConn'
  <2>1. PICK i : ht' = ht /\ conn' = [conn EXCEPT ![i].offload_permit = TRUE]
    BY <1>5 DEF offload_genl_msg
  <2>2. \A j \in Conns : conn'[j].st = conn[j].st /\ conn'[j].tup = conn[j].tup
    BY <2>1, <1>type DEF ConnRec
  <2> QED BY <2>1, <2>2, <1>type, OneConnSame
<1>6. ASSUME NEW x \in Cts,
             \/ destroy_rule(x) \/ destroy_done(x) \/ mark_rule(x) \/ ct_expire(x)
             \/ ct_delete(x) \/ ct_free(x) \/ \E t \in Tuples : ct_new(x, t)
      PROVE  UNCHANGED <<ht, conn>>
  BY <1>6 DEF destroy_rule, destroy_done, mark_rule, ct_expire, ct_delete, ct_free, ct_new
<1>7. ASSUME NEW t \in Tuples, sfe_flush_on_find(t) PROVE UNCHANGED <<ht, conn>>
  BY <1>7 DEF sfe_flush_on_find
<1>8. ASSUME NEW d \in Devs,
             \/ DeviceEvent(d) \/ netdev_down(d) \/ netdev_up(d)
             \/ netdev_unregister(d) \/ netdev_free(d)
      PROVE  UNCHANGED <<ht, conn>>
  BY <1>8 DEF DeviceEvent, device_event_rule, device_event_done, netdev_down, netdev_up,
              netdev_unregister, netdev_free
<1>9. CASE UNCHANGED vars
  BY <1>1, <1>9 DEF vars
<1> QED BY <1>1, <1>2, <1>3, <1>4, <1>5, <1>6, <1>7, <1>8, <1>9 DEF Next, Event

\* The table has at most one connection for a tuple and no freed one, whatever
\* overlaps: fast_classifier_add_conn looks again under the lock, so two packets
\* that both found no connection do not both add theirs, and the destroy event
\* unlinks what it frees in the same section.
THEOREM OneConnection == Spec => []OneConn
<1>1. Init => OneConn
  BY DEF Init, OneConn
<1>2. RefInv /\ OneConn /\ [Next]_vars => (RefInv /\ OneConn)'
  BY RefInvStep, OneConnStep
<1> QED BY <1>1, <1>2, RefInvInit, PTL DEF Spec

=============================================================================
