------------------------------- MODULE Trelay -------------------------------
(***************************************************************************)
(* trelay (package/kernel/trelay): the trivial Ethernet relay.  A relay    *)
(* joins two net devices: what one of them receives is transmitted on the  *)
(* other one.  Relays are made by writing to the debugfs file "add", go    *)
(* away when their file "remove" was written and some such file is closed, *)
(* when a device of theirs is unregistered, and with the module.           *)
(*                                                                         *)
(* Everything that changes the list of relays runs under the RTNL mutex;   *)
(* `lock' is the section that holds it.  What runs beside it: frames, as   *)
(* RCU readers, the writes to "remove", which take no lock, and the end of *)
(* the unregistration of a device, which waits for its references.         *)
(***************************************************************************)
EXTENDS Integers, Sequences, FiniteSets

CONSTANTS Devs,        \* net devices
          NoDev,       \* a null device pointer
          Names,       \* names of relays
          MaxRelays,   \* bound: relays that are ever allocated
          Files,       \* open file descriptions of "remove" files
          Cpus,        \* CPUs that receive frames
          Lines,       \* what somebody writes to "add": name, device, device
          Hotplug,     \* devices that may be unregistered
          OtherDevs,   \* devices that a bridge or the like may take
          PreemptRcu   \* CONFIG_PREEMPT_RCU: a task may not wait for a
                       \* grace period inside its own read-side section

ASSUME NoDevAssumption   == NoDev \notin Devs
ASSUME NamesAssumption   == Names # {}
ASSUME LinesAssumption   == Lines \subseteq Names \X Devs \X Devs
ASSUME OtherAssumption   == OtherDevs \subseteq Devs /\ Hotplug \subseteq Devs
ASSUME RelaysAssumption  == MaxRelays \in Nat
ASSUME PreemptAssumption == PreemptRcu \in BOOLEAN

Relays  == 1..MaxRelays  \* struct trelay objects
NoRelay == 0             \* a null relay pointer

VARIABLES
    loaded,       \* "yes", "exit": its notifier is gone, "no"
    trelay_devs,  \* the list of relays
    tr,           \* tr[r]: the fields of relay r, and what became of it
    debugfs,      \* relays whose file "remove" can be opened and entered
    file,         \* file[f]: a relay and what is being done with its file
    devst,        \* devst[d]: how far the unregistration of d has come
    refs,         \* refs[d]: references of trelay to d
    handler,      \* handler[d]: the rx_handler of d
    peer,         \* peer[d]: its rx_handler_data
    frame,        \* frame[c]: the frame CPU c is processing
    lock          \* the section that holds RTNL

vars == <<loaded, trelay_devs, tr, debugfs, file, devst, refs, handler, peer,
          frame, lock>>

RelayRec == [st : {"unused", "live", "freed"}, name : Names, dev1 : Devs \cup {NoDev},
             dev2 : Devs \cup {NoDev}, to_remove : BOOLEAN]
FileRec  == [at : {"shut", "open", "writing", "closing"}, r : Relays \cup {NoRelay}]
FrameRec == [at : {"idle", "handle", "xmit"}, dev : Devs \cup {NoDev}]

(* op: who holds RTNL.  step: where it is; rest: the relays the loop has   *)
(* still to visit; r: the relay, d: the device at hand; gp: the CPUs the   *)
(* grace period waits for.                                                 *)
LockRec == [op : {"none", "add", "close", "unreg", "exit"},
            step : {"loop", "debugfs", "sync1", "sync2", "reg2", "undo", "flush"},
            rest : Seq(Relays), r : Relays \cup {NoRelay},
            d : Devs \cup {NoDev}, gp : SUBSET Cpus]

Idle    == [at |-> "idle", dev |-> NoDev]
Shut    == [at |-> "shut", r |-> NoRelay]
Free    == [op |-> "none", step |-> "loop", rest |-> <<>>, r |-> NoRelay,
            d |-> NoDev, gp |-> {}]

TypeOK ==
    /\ loaded \in {"yes", "exit", "no"}
    /\ trelay_devs \in Seq(Relays)
    /\ tr \in [Relays -> RelayRec]
    /\ debugfs \subseteq Relays
    /\ file \in [Files -> FileRec]
    /\ devst \in [Devs -> {"listed", "unlisted", "freed"}]
    /\ refs \in [Devs -> Nat]
    /\ handler \in [Devs -> {"none", "trelay", "other"}]
    /\ peer \in [Devs -> Devs \cup {NoDev}]
    /\ frame \in [Cpus -> FrameRec]
    /\ lock \in LockRec

Init ==
    /\ loaded = "yes"
    /\ trelay_devs = <<>>
    /\ tr = [r \in Relays |-> [st |-> "unused", name |-> CHOOSE n \in Names : TRUE,
                               dev1 |-> NoDev, dev2 |-> NoDev, to_remove |-> FALSE]]
    /\ debugfs = {}
    /\ file = [f \in Files |-> Shut]
    /\ devst = [d \in Devs |-> "listed"]
    /\ refs = [d \in Devs |-> 0]
    /\ handler = [d \in Devs |-> "none"]
    /\ peer = [d \in Devs |-> NoDev]
    /\ frame = [c \in Cpus |-> Idle]
    /\ lock = Free

Listed == {trelay_devs[i] : i \in DOMAIN trelay_devs}

\* CPUs inside an RCU read-side section: the ones a grace period waits for.
Readers == {c \in Cpus : frame[c].at # "idle"}

(***************************************************************************)
(* Frames.                                                                 *)
(***************************************************************************)

\* __netif_receive_skb_core finds our handler on the device.
frame_begin(c, d) ==
    /\ frame[c] = Idle
    /\ devst[d] = "listed"
    /\ handler[d] = "trelay"
    /\ frame' = [frame EXCEPT ![c] = [at |-> "handle", dev |-> d]]
    /\ UNCHANGED <<loaded, trelay_devs, tr, debugfs, file, devst, refs, handler, peer, lock>>

\* The CPU leaves its read-side section.
rcu_done(c) ==
    /\ frame' = [frame EXCEPT ![c] = Idle]
    /\ lock' = [lock EXCEPT !.gp = @ \ {c}]

\* trelay_handle_frame up to dev_queue_xmit: 802.1X frames pass, and
\* all frames when there is no peer.
trelay_handle_frame(c) ==
    /\ frame[c].at = "handle"
    /\ \/ rcu_done(c)
       \/ /\ peer[frame[c].dev] # NoDev
          /\ frame' = [frame EXCEPT ![c] = [at |-> "xmit", dev |-> peer[@.dev]]]
          /\ UNCHANGED lock
    /\ UNCHANGED <<loaded, trelay_devs, tr, debugfs, file, devst, refs, handler, peer>>

frame_xmit(c) ==
    /\ frame[c].at = "xmit"
    /\ rcu_done(c)
    /\ UNCHANGED <<loaded, trelay_devs, tr, debugfs, file, devst, refs, handler, peer>>

(***************************************************************************)
(* The file "remove".  A write runs between debugfs_file_get, which fails  *)
(* once the file was removed, and debugfs_file_put.                        *)
(***************************************************************************)

trelay_open(f, r) ==
    /\ loaded = "yes" /\ file[f] = Shut /\ r \in debugfs
    /\ file' = [file EXCEPT ![f] = [at |-> "open", r |-> r]]
    /\ UNCHANGED <<loaded, trelay_devs, tr, debugfs, devst, refs, handler, peer, frame, lock>>

write_enter(f) ==
    /\ file[f].at = "open" /\ file[f].r \in debugfs
    /\ file' = [file EXCEPT ![f].at = "writing"]
    /\ UNCHANGED <<loaded, trelay_devs, tr, debugfs, devst, refs, handler, peer, frame, lock>>

trelay_remove_write(f) ==
    /\ file[f].at = "writing"
    /\ tr' = [tr EXCEPT ![file[f].r].to_remove = TRUE]
    /\ file' = [file EXCEPT ![f].at = "open"]
    /\ UNCHANGED <<loaded, trelay_devs, debugfs, devst, refs, handler, peer, frame, lock>>

\* The last reference to the file goes; release waits for RTNL.
close_file(f) ==
    /\ file[f].at = "open"
    /\ file' = [file EXCEPT ![f] = [at |-> "closing", r |-> NoRelay]]
    /\ UNCHANGED <<loaded, trelay_devs, tr, debugfs, devst, refs, handler, peer, frame, lock>>

trelay_remove_release(f) ==
    /\ file[f].at = "closing"
    /\ lock.op = "none"
    /\ lock' = [Free EXCEPT !.op = "close", !.rest = trelay_devs]
    /\ file' = [file EXCEPT ![f] = Shut]
    /\ UNCHANGED <<loaded, trelay_devs, tr, debugfs, devst, refs, handler, peer, frame>>

(***************************************************************************)
(* trelay_do_remove, called with RTNL held.                                *)
(***************************************************************************)

\* The list s without r, which is on it.
list_del(s, r) ==
    LET i == CHOOSE i \in DOMAIN s : s[i] = r
    IN  [k \in 1..(Len(s) - 1) |-> IF k < i THEN s[k] ELSE s[k + 1]]

\* Mutant: the file stays until the relay is gone.
remove_begin_late(r) ==
    /\ trelay_devs' = list_del(trelay_devs, r)
    /\ UNCHANGED debugfs

\* list_del, and the file can no longer be entered.
remove_begin(r) ==
    /\ trelay_devs' = list_del(trelay_devs, r)
    /\ debugfs' = debugfs \ {r}

\* debugfs_remove_recursive waits for the writes that are in the file.
no_writer(r) == \A f \in Files : ~(file[f].at = "writing" /\ file[f].r = r)

\* Mutant: the reference to dev1 is not given back.
put_devs_one(r) == refs' = [refs EXCEPT ![tr[r].dev2] = @ - 1]

put_devs(r) == refs' = [d \in Devs |-> IF d \in {tr[r].dev1, tr[r].dev2} THEN refs[d] - 1
                                                                        ELSE refs[d]]

\* Then the references are dropped, and dev1's handler with a grace period.
do_remove_put ==
    /\ lock.step = "debugfs" /\ no_writer(lock.r)
    /\ put_devs(lock.r)
    /\ handler' = [handler EXCEPT ![tr[lock.r].dev1] = "none"]
    /\ lock' = [lock EXCEPT !.step = "sync1", !.gp = Readers]
    /\ UNCHANGED <<loaded, trelay_devs, tr, debugfs, file, devst, peer, frame>>

do_remove_sync1 ==
    /\ lock.step = "sync1" /\ lock.gp = {}
    /\ peer' = [peer EXCEPT ![tr[lock.r].dev1] = NoDev]
    /\ handler' = [handler EXCEPT ![tr[lock.r].dev2] = "none"]
    /\ lock' = [lock EXCEPT !.step = "sync2", !.gp = Readers]
    /\ UNCHANGED <<loaded, trelay_devs, tr, debugfs, file, devst, refs, frame>>

do_remove_free ==
    /\ lock.step = "sync2" /\ lock.gp = {}
    /\ peer' = [peer EXCEPT ![tr[lock.r].dev2] = NoDev]
    /\ tr' = [tr EXCEPT ![lock.r].st = "freed"]
    /\ lock' = [lock EXCEPT !.step = "loop", !.r = NoRelay]
    /\ UNCHANGED <<loaded, trelay_devs, debugfs, file, devst, refs, handler, frame>>

(***************************************************************************)
(* The sections that remove relays: closing a file removes the ones with   *)
(* to_remove, unregistration the one of the device, exit all.              *)
(***************************************************************************)

\* Mutant: only the relay at the head of the list is looked at.
condemned_head(r) ==
    \/ lock.op = "close" /\ tr[r].to_remove /\ lock.rest = trelay_devs
    \/ lock.op = "unreg" /\ lock.d \in {tr[r].dev1, tr[r].dev2}
    \/ lock.op = "exit"

\* Mutant: the module leaves the relays as they are.
condemned_not_exit(r) ==
    \/ lock.op = "close" /\ tr[r].to_remove
    \/ lock.op = "unreg" /\ lock.d \in {tr[r].dev1, tr[r].dev2}

condemned(r) ==
    \/ lock.op = "close" /\ tr[r].to_remove
    \/ lock.op = "unreg" /\ lock.d \in {tr[r].dev1, tr[r].dev2}
    \/ lock.op = "exit"

\* trelay_find stops at the first relay of the device; the loops go on.
loop_remove ==
    LET r == Head(lock.rest)
    IN  /\ lock.op \in {"close", "unreg", "exit"} /\ lock.step = "loop" /\ lock.rest # <<>>
        /\ condemned(r)
        /\ remove_begin(r)
        /\ lock' = [lock EXCEPT !.step = "debugfs", !.r = r,
                                !.rest = IF lock.op = "unreg" THEN <<>> ELSE Tail(@)]
        /\ UNCHANGED <<loaded, tr, file, devst, refs, handler, peer, frame>>

loop_skip ==
    /\ lock.op \in {"close", "unreg", "exit"} /\ lock.step = "loop" /\ lock.rest # <<>>
    /\ ~condemned(Head(lock.rest))
    /\ lock' = [lock EXCEPT !.rest = Tail(@)]
    /\ UNCHANGED <<loaded, trelay_devs, tr, debugfs, file, devst, refs, handler, peer, frame>>

rtnl_unlock ==
    /\ lock.op \in {"close", "unreg", "exit"} /\ lock.step = "loop" /\ lock.rest = <<>>
    /\ lock' = Free
    /\ UNCHANGED <<loaded, trelay_devs, tr, debugfs, file, devst, refs, handler, peer, frame>>

\* unregister_netdevice: off the list, then no frame of the device is left,
\* then the notifiers, tr_device_event among them.
unregister_begin(d) ==
    /\ lock.op = "none" /\ d \in Hotplug /\ devst[d] = "listed" /\ handler[d] # "other"
    /\ devst' = [devst EXCEPT ![d] = "unlisted"]
    /\ lock' = [Free EXCEPT !.op = "unreg", !.step = "flush", !.d = d, !.gp = Readers]
    /\ UNCHANGED <<loaded, trelay_devs, tr, debugfs, file, refs, handler, peer, frame>>

\* Mutant: the event is not acted upon.
tr_device_event_none == lock' = [lock EXCEPT !.step = "loop", !.rest = <<>>]

tr_device_event ==
    lock' = [lock EXCEPT !.step = "loop", !.rest = IF loaded = "yes" THEN trelay_devs ELSE <<>>]

unregister_notify ==
    /\ lock.step = "flush" /\ lock.gp = {}
    /\ tr_device_event
    /\ UNCHANGED <<loaded, trelay_devs, tr, debugfs, file, devst, refs, handler, peer, frame>>

\* netdev_run_todo, after RTNL was given up: wait for the references.
netdev_run_todo(d) ==
    /\ devst[d] = "unlisted" /\ ~(lock.op = "unreg" /\ lock.d = d) /\ refs[d] = 0
    /\ devst' = [devst EXCEPT ![d] = "freed"]
    /\ UNCHANGED <<loaded, trelay_devs, tr, debugfs, file, refs, handler, peer, frame, lock>>

\* trelay_exit.  Open files pin the module.  unregister_netdevice_notifier
\* shows us every device as unregistered, under RTNL; then the list is
\* emptied once more.
trelay_exit ==
    /\ loaded = "yes" /\ lock.op = "none"
    /\ \A f \in Files : file[f] = Shut
    /\ loaded' = "exit"
    /\ lock' = [Free EXCEPT !.op = "exit", !.rest = trelay_devs]
    /\ UNCHANGED <<trelay_devs, tr, debugfs, file, devst, refs, handler, peer, frame>>

trelay_exit_rest ==
    /\ loaded = "exit" /\ lock.op = "none"
    /\ loaded' = "no"
    /\ lock' = [Free EXCEPT !.op = "exit", !.rest = trelay_devs]
    /\ UNCHANGED <<trelay_devs, tr, debugfs, file, devst, refs, handler, peer, frame>>

trelay_init ==
    /\ loaded = "no" /\ lock.op = "none"
    /\ loaded' = "yes"
    /\ UNCHANGED <<trelay_devs, tr, debugfs, file, devst, refs, handler, peer, frame, lock>>

(***************************************************************************)
(* trelay_do_add, for a write to "add" that parses.  A name that exists, a *)
(* device that does not and a first device with another handler end it     *)
(* before anything has changed.                                            *)
(***************************************************************************)

do_add_begin(r, n, d1, d2) ==
    /\ loaded = "yes" /\ lock.op = "none" /\ tr[r].st = "unused"
    /\ \A x \in 1..(r - 1) : tr[x].st # "unused"
    /\ \A x \in Listed : tr[x].name # n
    /\ devst[d1] = "listed" /\ devst[d2] = "listed"
    /\ handler[d1] = "none"
    /\ handler' = [handler EXCEPT ![d1] = "trelay"]
    /\ peer' = [peer EXCEPT ![d1] = d2]
    /\ tr' = [tr EXCEPT ![r] = [st |-> "live", name |-> n, dev1 |-> d1, dev2 |-> d2,
                                to_remove |-> FALSE]]
    /\ lock' = [Free EXCEPT !.op = "add", !.step = "reg2", !.r = r]
    /\ UNCHANGED <<loaded, trelay_devs, debugfs, file, devst, refs, frame>>

\* Mutant: no references are taken.
hold_devs_none(r) == UNCHANGED refs

hold_devs(r) == refs' = [d \in Devs |-> IF d \in {tr[r].dev1, tr[r].dev2} THEN refs[d] + 1
                                                                         ELSE refs[d]]

\* Mutant: the second device is taken although it has a handler.
busy_never(d) == FALSE

busy(d) == handler[d] # "none"

do_add_finish ==
    LET r == lock.r
    IN  /\ lock.step = "reg2" /\ ~busy(tr[r].dev2)
        /\ handler' = [handler EXCEPT ![tr[r].dev2] = "trelay"]
        /\ peer' = [peer EXCEPT ![tr[r].dev2] = tr[r].dev1]
        /\ hold_devs(r)
        /\ trelay_devs' = Append(trelay_devs, r)
        /\ debugfs' = debugfs \cup {r}
        /\ lock' = Free
        /\ UNCHANGED <<loaded, tr, file, devst, frame>>

\* The second device is busy: take the handler of the first one off again.
do_add_busy ==
    /\ lock.step = "reg2" /\ busy(tr[lock.r].dev2)
    /\ handler' = [handler EXCEPT ![tr[lock.r].dev1] = "none"]
    /\ lock' = [lock EXCEPT !.step = "undo", !.gp = Readers]
    /\ UNCHANGED <<loaded, trelay_devs, tr, debugfs, file, devst, refs, peer, frame>>

do_add_undo ==
    /\ lock.step = "undo" /\ lock.gp = {} /\ ~PreemptRcu
    /\ peer' = [peer EXCEPT ![tr[lock.r].dev1] = NoDev]
    /\ tr' = [tr EXCEPT ![lock.r].st = "freed"]
    /\ lock' = Free
    /\ UNCHANGED <<loaded, trelay_devs, debugfs, file, devst, refs, handler, frame>>

\* A bridge or the like takes a device, and lets it go again.
other_handler(d) ==
    /\ lock.op = "none" /\ devst[d] = "listed" /\ d \in OtherDevs
    /\ \/ handler[d] = "none"  /\ handler' = [handler EXCEPT ![d] = "other"]
       \/ handler[d] = "other" /\ handler' = [handler EXCEPT ![d] = "none"]
    /\ UNCHANGED <<loaded, trelay_devs, tr, debugfs, file, devst, refs, peer, frame, lock>>

Section ==
    \/ do_remove_put \/ do_remove_sync1 \/ do_remove_free
    \/ loop_remove \/ loop_skip \/ rtnl_unlock \/ unregister_notify
    \/ do_add_finish \/ do_add_busy \/ do_add_undo

Next ==
    \/ Section
    \/ \E c \in Cpus : trelay_handle_frame(c) \/ frame_xmit(c)
                       \/ \E d \in Devs : frame_begin(c, d)
    \/ \E f \in Files : \/ write_enter(f) \/ trelay_remove_write(f)
                        \/ close_file(f) \/ trelay_remove_release(f)
                        \/ \E r \in Relays : trelay_open(f, r)
    \/ \E d \in Devs : unregister_begin(d) \/ netdev_run_todo(d) \/ other_handler(d)
    \/ \E r \in Relays, l \in Lines : do_add_begin(r, l[1], l[2], l[3])
    \/ trelay_exit \/ trelay_exit_rest \/ trelay_init

\* The holder of RTNL goes on when it can; frames, writes and the wait for
\* the references of a device come to their end.  A closed file gets RTNL at
\* last (a mutex, SF); nobody has to open, write, add, or unload.
Spec ==
    /\ Init /\ [][Next]_vars
    /\ WF_vars(Section)
    /\ \A c \in Cpus : WF_vars(trelay_handle_frame(c)) /\ WF_vars(frame_xmit(c))
    /\ \A f \in Files : WF_vars(trelay_remove_write(f)) /\ SF_vars(trelay_remove_release(f))
    /\ \A d \in Devs : WF_vars(netdev_run_todo(d))

(***************************************************************************)
(* Properties.                                                             *)
(***************************************************************************)

\* A frame is transmitted on a device that exists.  trelay_do_remove drops
\* the references to both devices before it takes the handlers off and
\* waits; what keeps the devices is that RTNL is held all the while.
PeerAlive ==
    \A c \in Cpus : frame[c].at = "xmit" =>
        devst[frame[c].dev] # "freed"

\* No write to a file "remove" works on a relay that was freed ("ensure that
\* the debugfs file is removed to prevent dangling pointer").
FileAlive == \A f \in Files : file[f].at = "writing" => tr[file[f].r].st = "live"

\* While nobody is changing relays, the receive handlers, the peers they
\* point at and the references all say the same as the list: a device has
\* our handler exactly when one relay has it, its peer is the other end.
Consistent ==
    lock.op = "none" =>
        \A d \in Devs :
            LET on == {r \in Listed : d \in {tr[r].dev1, tr[r].dev2}}
            IN  /\ Cardinality(on) <= 1
                /\ refs[d] = Cardinality(on)
                /\ handler[d] = "trelay" <=> on # {}
                /\ \A r \in on : /\ {d, peer[d]} = {tr[r].dev1, tr[r].dev2}
                                 /\ d # peer[d]
                                 /\ devst[d] = "listed"

\* Once exit has given up RTNL no CPU runs the code of the module.
Unloadable ==
    loaded = "no" /\ lock.op = "none" => trelay_devs = <<>> /\ Readers = {} /\ debugfs = {}

\* The unregistration of a device is never held up by a relay for good.
DeviceGoes == \A d \in Devs : devst[d] = "unlisted" ~> devst[d] = "freed"

\* A relay that was told to go, and whose file was closed after that, goes.
ClosedGoes ==
    \A f \in Files, r \in Relays :
        file[f].at = "closing" /\ r \in Listed /\ tr[r].to_remove ~> r \notin Listed

=============================================================================
