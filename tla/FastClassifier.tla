--------------------------- MODULE FastClassifier ---------------------------
(***************************************************************************)
(* fast-classifier and the table of rules of the forwarding engine it      *)
(* feeds (package/qca/shortcut-fe).  Packets that leave the box are        *)
(* counted per connection; a connection with enough of them, or one user   *)
(* space asked for, gets a rule in the engine, which then forwards its     *)
(* packets past the network stack.  Conntrack is the owner of connections: *)
(* its events change the mark of a rule and take connection and rule away. *)
(*                                                                         *)
(* There are two tables, each with a lock of its own: sfe_connections_lock *)
(* for the connections, si->lock for the rules.  A section under one of    *)
(* them is an action; between two of them anything else may run, and the   *)
(* pointers taken in the first are used in the second.                     *)
(*                                                                         *)
(* Env says what else happens:                                             *)
(*   "overlap"  conntrack destroys a connection while a packet of it is in *)
(*              the hook: the packet's reference keeps the entry, not the  *)
(*              connection, and no lock orders the two                     *)
(*   "unreg"    devices that are down are unregistered                     *)
(***************************************************************************)
EXTENDS Integers, FiniteSets

CONSTANTS Cpus,       \* CPUs that have packets in the post routing hook
          Tuples,     \* tuples in the original direction
          Devs,       \* devices the connections leave by
          NoDev,
          MaxCts,     \* bound: conntrack entries that are ever created
          MaxConns,   \* bound: places a struct sfe_connection can have
          OffloadAt,  \* offload_at_pkts
          Env         \* see above

ASSUME NoDevAssumption   == NoDev \notin Devs
ASSUME TuplesAssumption  == Tuples # {}
ASSUME FiniteAssumption  == IsFiniteSet(Cpus) /\ IsFiniteSet(Tuples)
ASSUME BoundsAssumption  == MaxCts \in Nat /\ MaxConns \in Nat
ASSUME OffloadAssumption == OffloadAt \in Nat \ {0}
ASSUME EnvAssumption     == Env \subseteq {"overlap", "unreg"}

Cts   == 1..MaxCts
Conns == 1..MaxConns
None  == 0

\* States of an entry that is in conntrack's hash.
Tracked == {"hashed", "expired", "dying"}

VARIABLES
    ct,     \* ct[x]: a conntrack entry; marking and ev: its events in delivery
    conn,   \* conn[i]: a struct sfe_connection with its sic
    ht,     \* fc_conn_ht: the connections in the hash table
    rule,   \* rule[t]: the rule of the engine for tuple t
    devst,  \* devst[d]: how far d is from being gone
    refs,   \* refs[d]: references to d that rules and packets hold
    pk      \* pk[c]: the packet CPU c has in hand

vars == <<ct, conn, ht, rule, devst, refs, pk>>

NoRule   == [on |-> FALSE, dev |-> NoDev, mark |-> 0]
Idle     == [at |-> "idle", ct |-> None, conn |-> None, dev |-> NoDev]
AnyTuple == CHOOSE t \in Tuples : TRUE

CtRec   == [st : {"unused", "hashed", "expired", "dying", "dead", "freed"}, tup : Tuples,
            ev : {"none", "conn", "rule", "done"}, marking : BOOLEAN]
ConnRec == [st : {"unused", "live", "freed"}, tup : Tuples, ct : Cts \cup {None},
            dev : Devs \cup {NoDev}, mark : {0, 1}, hits : 0..OffloadAt,
            offload_permit : BOOLEAN, offloaded : BOOLEAN]
PkRec   == [at : {"idle", "in", "found", "create", "insert", "offloaded", "resolve"},
            ct : Cts \cup {None}, conn : Conns \cup {None}, dev : Devs \cup {NoDev}]

TypeOK ==
    /\ ct \in [Cts -> CtRec]
    /\ conn \in [Conns -> ConnRec]
    /\ ht \subseteq Conns
    /\ rule \in [Tuples -> [on : BOOLEAN, dev : Devs \cup {NoDev}, mark : {0, 1}]]
    /\ devst \in [Devs -> {"up", "downing", "down", "unreg", "freed"}]
    /\ refs \in [Devs -> Nat]
    /\ pk \in [Cpus -> PkRec]

Init ==
    /\ ct = [x \in Cts |-> [st |-> "unused", tup |-> AnyTuple, ev |-> "none",
                            marking |-> FALSE]]
    /\ conn = [i \in Conns |-> [st |-> "unused", tup |-> AnyTuple, ct |-> None,
                                dev |-> NoDev, mark |-> 0, hits |-> 0,
                                offload_permit |-> FALSE, offloaded |-> FALSE]]
    /\ ht = {}
    /\ rule = [t \in Tuples |-> NoRule]
    /\ devst = [d \in Devs |-> "up"]
    /\ refs = [d \in Devs |-> 0]
    /\ pk = [c \in Cpus |-> Idle]

(***************************************************************************)
(* Conntrack, as the hook and the events see it.  A tuple has one entry in *)
(* the hash; it is freed when no packet and no event refers to it any more.*)
(***************************************************************************)

ct_new(x, t) ==
    /\ ct[x].st = "unused" /\ \A y \in 1..(x - 1) : ct[y].st # "unused"
    /\ \A y \in Cts : ct[y].tup = t => ct[y].st \notin Tracked
    /\ ct' = [ct EXCEPT ![x].st = "hashed", ![x].tup = t]
    /\ UNCHANGED <<conn, ht, rule, devst, refs, pk>>

ct_free(x) ==
    /\ ct[x].st = "dead" /\ ~ct[x].marking /\ \A c \in Cpus : pk[c].ct # x
    /\ ct' = [ct EXCEPT ![x].st = "freed"]
    /\ UNCHANGED <<conn, ht, rule, devst, refs, pk>>

\* A packet of a confirmed entry is on its way to the hook.
packet(c, x) ==
    /\ pk[c] = Idle /\ ct[x].st = "hashed"
    /\ pk' = [pk EXCEPT ![c].at = "in", ![c].ct = x]
    /\ UNCHANGED <<ct, conn, ht, rule, devst, refs>>

\* Its time is over, or it is deleted: no packet finds it any more.
ct_expire(x) ==
    /\ ct[x].st = "hashed"
    /\ ct' = [ct EXCEPT ![x].st = "expired"]
    /\ UNCHANGED <<conn, ht, rule, devst, refs, pk>>

(***************************************************************************)
(* The rules of the engine: every operator is one section under si->lock.  *)
(***************************************************************************)

RulesOn(d) == {t \in Tuples : rule[t].on /\ rule[t].dev = d}

\* A rule leaves the table; flushing it gives its devices back.
remove_rule(t) ==
    /\ rule' = [rule EXCEPT ![t] = NoRule]
    /\ refs' = IF rule[t].on THEN [refs EXCEPT ![rule[t].dev] = @ - 1] ELSE refs

\* Mutant: the rule does not hold its device.
create_rule_unheld(i) ==
    /\ rule' = [rule EXCEPT ![conn[i].tup] =
                    [on |-> TRUE, dev |-> conn[i].dev, mark |-> conn[i].mark]]
    /\ UNCHANGED refs

\* Mutant: the rule is written over, its device not released.
create_rule_over(i) ==
    /\ rule' = [rule EXCEPT ![conn[i].tup] =
                    [on |-> TRUE, dev |-> conn[i].dev, mark |-> conn[i].mark]]
    /\ refs' = [refs EXCEPT ![conn[i].dev] = @ + 1]

\* A rule that exists already stays (-EADDRINUSE).
create_rule(i) ==
    IF rule[conn[i].tup].on THEN UNCHANGED <<rule, refs>>
    ELSE /\ rule' = [rule EXCEPT ![conn[i].tup] =
                        [on |-> TRUE, dev |-> conn[i].dev, mark |-> conn[i].mark]]
         /\ refs' = [refs EXCEPT ![conn[i].dev] = @ + 1]

\* A packet the engine may not forward takes the rule away: fragments, IP
\* options, a small TTL, too large for the device, TCP flags.
sfe_flush_on_find(t) ==
    /\ rule[t].on
    /\ remove_rule(t)
    /\ UNCHANGED <<ct, conn, ht, devst, pk>>

(***************************************************************************)
(* fast_classifier_post_routing.                                           *)
(***************************************************************************)

\* fast_classifier_find_conn: the entries of the hash table for t.
find_conn(t) == {i \in ht : conn[i].tup = t}

\* The connection is known, counted, and due.  update_protocol reads its
\* conntrack entry and may find that the connection is closing.
post_routing_offload(c) ==
    /\ pk[c].at = "in"
    /\ \E i \in find_conn(ct[pk[c].ct].tup) :
        /\ ~conn[i].offloaded
        /\ conn[i].offload_permit \/ conn[i].hits + 1 >= OffloadAt
        /\ conn' = [conn EXCEPT ![i].hits = OffloadAt]
        /\ \/ pk' = [pk EXCEPT ![c] = Idle]
           \/ pk' = [pk EXCEPT ![c].at = "create", ![c].conn = i]
    /\ UNCHANGED <<ct, ht, rule, devst, refs>>

\* The connection is known, and either offloaded or not due yet.
post_routing_found(c) ==
    /\ pk[c].at = "in"
    /\ \E i \in find_conn(ct[pk[c].ct].tup) :
        /\ conn[i].offloaded \/ ~(conn[i].offload_permit \/ conn[i].hits + 1 >= OffloadAt)
        /\ conn' = [conn EXCEPT ![i].hits = IF @ < OffloadAt THEN @ + 1 ELSE @]
        /\ pk' = [pk EXCEPT ![c].at = "found", ![c].conn = i]
    /\ UNCHANGED <<ct, ht, rule, devst, refs>>

\* After the unlock: reads conn->offloaded and refreshes the TCP windows of
\* the rule, which are not modelled.
update_rule(c) ==
    /\ pk[c].at = "found"
    /\ pk' = [pk EXCEPT ![c] = Idle]
    /\ UNCHANGED <<ct, conn, ht, rule, devst, refs>>

\* sfe_ipv4_create_rule looks at the devices before it takes the lock; what
\* is left of a freed one may say either.
create_rule_check(c) ==
    LET d == conn[pk[c].conn].dev
    IN  /\ pk[c].at = "create"
        /\ \/ devst[d] \notin {"unreg"} /\ pk' = [pk EXCEPT ![c].at = "insert"]
           \/ devst[d] \in {"unreg", "freed"} /\ pk' = [pk EXCEPT ![c] = Idle]
        /\ UNCHANGED <<ct, conn, ht, rule, devst, refs>>

\* The section under the lock; without memory no rule is made.
create_rule_insert(c) ==
    /\ pk[c].at = "insert"
    /\ \/ /\ create_rule(pk[c].conn)
          /\ pk' = [pk EXCEPT ![c].at = "offloaded"]
       \/ /\ ~rule[conn[pk[c].conn].tup].on
          /\ pk' = [pk EXCEPT ![c] = Idle]
          /\ UNCHANGED <<rule, refs>>
    /\ UNCHANGED <<ct, conn, ht, devst>>

\* The connection is marked, without a lock.
mark_offloaded(c) ==
    /\ pk[c].at = "offloaded"
    /\ conn' = [conn EXCEPT ![pk[c].conn].offloaded = TRUE]
    /\ pk' = [pk EXCEPT ![c] = Idle]
    /\ UNCHANGED <<ct, ht, rule, devst, refs>>

\* The connection is not known: find the devices, holding them meanwhile.
\* The route of the packet may name one that is going down.  When the first
\* lookup fails the packet just passes.
post_routing_new(c, d) ==
    /\ pk[c].at = "in"
    /\ find_conn(ct[pk[c].ct].tup) = {}
    /\ \/ /\ devst[d] \in {"up", "downing", "down"}
          /\ pk' = [pk EXCEPT ![c].at = "resolve", ![c].dev = d]
          /\ refs' = [refs EXCEPT ![d] = @ + 1]
       \/ /\ pk' = [pk EXCEPT ![c] = Idle]
          /\ UNCHANGED refs
    /\ UNCHANGED <<ct, conn, ht, rule, devst>>

\* Mutant: the first look at the table is relied upon.
is_duplicate_not(t) == FALSE

is_duplicate(t) == find_conn(t) # {}

\* fast_classifier_add_conn, which looks again, under the lock.  The new
\* structure may get the place of one that was freed.  The mark is that of
\* the packet.
add_conn(c, i) ==
    LET t == ct[pk[c].ct].tup
    IN  /\ conn[i].st # "live" /\ \A j \in 1..(i - 1) : conn[j].st # "unused"
        /\ ~is_duplicate(t)
        /\ ht' = ht \cup {i}
        /\ \E mark \in {0, 1} :
               conn' = [conn EXCEPT ![i] =
                   [st |-> "live", tup |-> t, ct |-> pk[c].ct, dev |-> pk[c].dev, mark |-> mark,
                    hits |-> 0, offload_permit |-> FALSE, offloaded |-> FALSE]]

\* A lookup that fails, no memory, or a connection that another packet has
\* added: nothing is kept.  The devices are released in any case, and the
\* connection keeps the pointers to them.
post_routing_add(c) ==
    /\ pk[c].at = "resolve"
    /\ \/ \E i \in Conns : add_conn(c, i)
       \/ UNCHANGED <<ht, conn>>
    /\ refs' = [refs EXCEPT ![pk[c].dev] = @ - 1]
    /\ pk' = [pk EXCEPT ![c] = Idle]
    /\ UNCHANGED <<ct, rule, devst>>

\* fast_classifier_offload_genl_msg: user space asks for a connection.
offload_genl_msg(t) ==
    \E i \in find_conn(t) :
        /\ conn' = [conn EXCEPT ![i].offload_permit = TRUE]
        /\ UNCHANGED <<ct, ht, rule, devst, refs, pk>>

(***************************************************************************)
(* fast_classifier_conntrack_event.                                        *)
(***************************************************************************)

\* IPCT_MARK with a mark that is not zero, which is reported while packets of
\* the entry are in the hook, and may still be when it is destroyed: first the
\* rule ...
mark_rule(x) ==
    /\ ct[x].st \in {"hashed", "expired"} /\ ~ct[x].marking
    /\ rule' = [rule EXCEPT ![ct[x].tup].mark = IF rule[ct[x].tup].on THEN 1 ELSE 0]
    /\ ct' = [ct EXCEPT ![x].marking = TRUE]
    /\ UNCHANGED <<conn, ht, devst, refs, pk>>

set_mark(t) == conn' = [i \in Conns |-> IF i \in find_conn(t) THEN [conn[i] EXCEPT !.mark = 1]
                                                            ELSE conn[i]]

\* ... then the connection (fast_classifier_update_mark).
update_mark(x) ==
    /\ ct[x].marking
    /\ set_mark(ct[x].tup)
    /\ ct' = [ct EXCEPT ![x].marking = FALSE]
    /\ UNCHANGED <<ht, rule, devst, refs, pk>>

\* nf_ct_delete reports IPCT_DESTROY.
ct_delete(x) ==
    /\ ct[x].st = "expired"
    /\ "overlap" \in Env \/ \A c \in Cpus : pk[c].ct # x
    /\ ct' = [ct EXCEPT ![x].st = "dying", ![x].ev = "conn"]
    /\ UNCHANGED <<conn, ht, rule, devst, refs, pk>>

unhash(I) == ht' = ht \ I

\* The connection is taken out of the table and freed ...
destroy_conn(x) ==
    LET I == find_conn(ct[x].tup)
    IN  /\ ct[x].ev = "conn"
        /\ unhash(I)
        /\ conn' = [i \in Conns |-> IF i \in I THEN [conn[i] EXCEPT !.st = "freed"]
                                             ELSE conn[i]]
        /\ ct' = [ct EXCEPT ![x].ev = "rule"]
        /\ UNCHANGED <<rule, devst, refs, pk>>

\* Mutant: the rule is left to the engine.
destroy_rule_not(x) ==
    /\ ct[x].ev = "rule"
    /\ ct' = [ct EXCEPT ![x].ev = "done"]
    /\ UNCHANGED <<conn, ht, rule, devst, refs, pk>>

\* ... then its rule ...
destroy_rule(x) ==
    /\ ct[x].ev = "rule"
    /\ remove_rule(ct[x].tup)
    /\ ct' = [ct EXCEPT ![x].ev = "done"]
    /\ UNCHANGED <<conn, ht, devst, pk>>

\* ... and the entry leaves the hash.
destroy_done(x) ==
    /\ ct[x].ev = "done"
    /\ ct' = [ct EXCEPT ![x].st = "dead", ![x].ev = "none"]
    /\ UNCHANGED <<conn, ht, rule, devst, refs, pk>>

(***************************************************************************)
(* Devices.  NETDEV_DOWN destroys the rules of the device, one at a time.  *)
(***************************************************************************)

netdev_down(d) ==
    /\ devst[d] = "up"
    /\ devst' = [devst EXCEPT ![d] = "downing"]
    /\ UNCHANGED <<ct, conn, ht, rule, refs, pk>>

device_event_rule(d, t) ==
    /\ devst[d] = "downing" /\ t \in RulesOn(d)
    /\ remove_rule(t)
    /\ UNCHANGED <<ct, conn, ht, devst, pk>>

device_event_done(d) ==
    /\ devst[d] = "downing" /\ RulesOn(d) = {}
    /\ devst' = [devst EXCEPT ![d] = "down"]
    /\ UNCHANGED <<ct, conn, ht, rule, refs, pk>>

netdev_up(d) ==
    /\ devst[d] = "down"
    /\ devst' = [devst EXCEPT ![d] = "up"]
    /\ UNCHANGED <<ct, conn, ht, rule, refs, pk>>

netdev_unregister(d) ==
    /\ devst[d] = "down" /\ "unreg" \in Env
    /\ devst' = [devst EXCEPT ![d] = "unreg"]
    /\ UNCHANGED <<ct, conn, ht, rule, refs, pk>>

netdev_free(d) ==
    /\ devst[d] = "unreg" /\ refs[d] = 0
    /\ devst' = [devst EXCEPT ![d] = "freed"]
    /\ UNCHANGED <<ct, conn, ht, rule, refs, pk>>

Hook(c) ==
    \/ post_routing_offload(c) \/ post_routing_found(c) \/ update_rule(c)
    \/ create_rule_check(c) \/ create_rule_insert(c) \/ mark_offloaded(c)
    \/ post_routing_add(c) \/ \E d \in Devs : post_routing_new(c, d)

Event(x) == update_mark(x) \/ destroy_conn(x) \/ destroy_rule(x) \/ destroy_done(x)

DeviceEvent(d) == device_event_done(d) \/ \E t \in Tuples : device_event_rule(d, t)

Next ==
    \/ \E c \in Cpus : Hook(c) \/ \E x \in Cts : packet(c, x)
    \/ \E x \in Cts : \/ Event(x) \/ mark_rule(x) \/ ct_expire(x) \/ ct_delete(x) \/ ct_free(x)
                      \/ \E t \in Tuples : ct_new(x, t)
    \/ \E t \in Tuples : sfe_flush_on_find(t) \/ offload_genl_msg(t)
    \/ \E d \in Devs : \/ DeviceEvent(d) \/ netdev_down(d) \/ netdev_up(d)
                       \/ netdev_unregister(d) \/ netdev_free(d)

\* A packet gets through the hook, a callback to its end, and a connection
\* ends some day; devices do not have to.
Spec ==
    /\ Init /\ [][Next]_vars
    /\ \A c \in Cpus : WF_vars(Hook(c))
    /\ \A x \in Cts : /\ WF_vars(Event(x)) /\ WF_vars(ct_free(x))
                        /\ WF_vars(ct_expire(x)) /\ WF_vars(ct_delete(x))
    /\ \A d \in Devs : WF_vars(DeviceEvent(d)) /\ WF_vars(netdev_free(d))

(***************************************************************************)
(* Properties.                                                             *)
(***************************************************************************)

\* The table has live connections only, and one for a tuple: what a packet
\* found in it before it looked up the devices is stale when it adds its own.
OneConn ==
    \A i \in ht : conn[i].st = "live" /\ \A j \in ht : conn[i].tup = conn[j].tup => i = j

\* References are those of the rules and of the packets looking up devices.
RefsAccounted ==
    \A d \in Devs : refs[d] = Cardinality(RulesOn(d))
                              + Cardinality({c \in Cpus : pk[c].dev = d})

\* A device that is unregistered is released, although rules may be made for
\* it after NETDEV_DOWN was handled: they end with their connections.
DeviceGoes == \A d \in Devs : devst[d] = "unreg" ~> devst[d] = "freed"

=============================================================================
