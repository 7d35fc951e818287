---------------------------- MODULE TrelayProofs ----------------------------
(***************************************************************************)
(* Theorems about Trelay, for any number of devices, relays, files and     *)
(* CPUs.                                                                   *)
(***************************************************************************)
EXTENDS Trelay, FiniteSetTheorems, TLAPS

\* As much of the types as the argument needs.
Shape ==
    /\ tr \in [Relays -> RelayRec]
    /\ file \in [Files -> FileRec]
    /\ lock = [op |-> lock.op, step |-> lock.step, rest |-> lock.rest, r |-> lock.r,
               d |-> lock.d, gp |-> lock.gp]

\* A file that can be entered belongs to a relay that exists.
EnterLive == \A r \in debugfs : r \in Relays /\ tr[r].st = "live"

\* A write is in a file that can still be entered, or in that of the relay
\* whose removal waits for it.
WriteHeld ==
    \A f \in Files : file[f].at = "writing" =>
        /\ file[f].r \in Relays
        /\ file[f].r \in debugfs \/ (lock.step = "debugfs" /\ lock.r = file[f].r)

\* The relay that is being made or removed cannot be entered, and once the
\* wait is over nobody is in its file.
SectionAlone ==
    /\ lock.step \in {"debugfs", "sync1", "sync2", "reg2", "undo"} => lock.r \notin debugfs
    /\ lock.step \in {"sync1", "sync2", "reg2", "undo"} => no_writer(lock.r)
    /\ lock.step = "reg2" => lock.r \in Relays /\ tr[lock.r].st = "live"

\* While RTNL is free there is no section to be in the middle of.
Busy == lock.op = "none" => lock.step = "loop"

FileInv == Shape /\ EnterLive /\ WriteHeld /\ SectionAlone /\ Busy /\ FileAlive

LEMMA FileInvInit == Init => FileInv
<1> SUFFICES ASSUME Init PROVE FileInv
  OBVIOUS
<1>1. (CHOOSE n \in Names : TRUE) \in Names
  BY NamesAssumption, Zenon
<1>2. Shape
  BY <1>1 DEF Init, Shape, RelayRec, FileRec, Shut, Free, NoRelay
<1>3. EnterLive /\ WriteHeld /\ FileAlive
  BY DEF Init, EnterLive, WriteHeld, FileAlive, Shut
<1>4. SectionAlone
  BY DEF Init, SectionAlone, Free
<1>5. Busy
  BY DEF Init, Busy, Free
<1> QED BY <1>5, <1>2, <1>3, <1>4 DEF FileInv

\* What touches neither relays, files nor the section.
LEMMA FileInvUnchanged ==
    ASSUME FileInv, UNCHANGED <<tr, debugfs, file, lock>>
    PROVE  FileInv'
BY DEF FileInv, Shape, EnterLive, WriteHeld, SectionAlone, FileAlive, no_writer, Busy

\* What only changes the rest, the device or the grace period of the section.
LEMMA FileInvSameStep ==
    ASSUME FileInv, UNCHANGED <<tr, debugfs, file>>,
           lock' = [op |-> lock.op, step |-> lock.step, rest |-> lock'.rest, r |-> lock.r,
                    d |-> lock'.d, gp |-> lock'.gp]
    PROVE  FileInv'
BY DEF FileInv, Shape, EnterLive, WriteHeld, SectionAlone, FileAlive, no_writer, Busy

\* A section starts, ends, or goes back to its loop, nobody being waited for.
LEMMA FileInvToLoop ==
    ASSUME FileInv, UNCHANGED <<tr, debugfs, file>>, lock.step # "debugfs",
           lock'.step \in {"loop", "flush"}, lock'.op = "none" => lock'.step = "loop",
           lock' = [op |-> lock'.op, step |-> lock'.step, rest |-> lock'.rest, r |-> lock'.r,
                    d |-> lock'.d, gp |-> lock'.gp]
    PROVE  FileInv'
BY DEF FileInv, Shape, EnterLive, WriteHeld, SectionAlone, FileAlive, no_writer, Busy

\* A relay is freed once nobody is in its file.
LEMMA FileInvFreed ==
    ASSUME FileInv, UNCHANGED <<debugfs, file>>, lock.step \in {"sync2", "undo"},
           tr' = [tr EXCEPT ![lock.r].st = "freed"],
           lock'.step = "loop",
           lock' = [op |-> lock'.op, step |-> lock'.step, rest |-> lock'.rest, r |-> lock'.r,
                    d |-> lock'.d, gp |-> lock'.gp]
    PROVE  FileInv'
<1> USE DEF FileInv
<1>1. lock.r \notin debugfs /\ no_writer(lock.r)
  BY DEF SectionAlone
<1>2. tr' \in [Relays -> RelayRec] /\ \A x \in Relays : x # lock.r => tr'[x] = tr[x]
  BY DEF Shape, RelayRec
<1>3. Shape'
  BY <1>2 DEF Shape
<1>4. EnterLive'
  BY <1>1, <1>2 DEF EnterLive
<1>5. WriteHeld' /\ SectionAlone' /\ Busy'
  BY DEF WriteHeld, SectionAlone, Busy
<1>6. FileAlive'
  BY <1>1, <1>2, <1>4 DEF FileAlive, WriteHeld, EnterLive, no_writer
<1> QED BY <1>3, <1>4, <1>5, <1>6

LEMMA FileInvStep == FileInv /\ [Next]_vars => FileInv'
<1> SUFFICES ASSUME FileInv, [Next]_vars PROVE FileInv'
  OBVIOUS
<1>shape. /\ tr \in [Relays -> RelayRec] /\ file \in [Files -> FileRec]
          /\ lock = [op |-> lock.op, step |-> lock.step, rest |-> lock.rest, r |-> lock.r,
                     d |-> lock.d, gp |-> lock.gp]
  BY DEF FileInv, Shape
<1>1. CASE UNCHANGED vars
  BY <1>1, FileInvUnchanged DEF vars
<1>2. ASSUME NEW c \in Cpus, NEW d \in Devs, frame_begin(c, d) PROVE FileInv'
  BY <1>2, FileInvUnchanged DEF frame_begin
<1>3. ASSUME NEW c \in Cpus, rcu_done(c), UNCHANGED <<tr, debugfs, file>> PROVE FileInv'
  BY <1>3, <1>shape, FileInvSameStep DEF rcu_done
<1>4. ASSUME NEW c \in Cpus, trelay_handle_frame(c) \/ frame_xmit(c) PROVE FileInv'
  BY <1>3, <1>4, FileInvUnchanged DEF trelay_handle_frame, frame_xmit
<1>5. ASSUME NEW f \in Files, NEW r \in Relays, trelay_open(f, r) PROVE FileInv'
  <2>1. file' = [file EXCEPT ![f] = [at |-> "open", r |-> r]] /\ UNCHANGED <<tr, debugfs, lock>>
    BY <1>5 DEF trelay_open
  <2>2. file' \in [Files -> FileRec]
    BY <2>1, <1>shape DEF FileRec
  <2> QED BY <2>1, <2>2, <1>shape
          DEF FileInv, Shape, EnterLive, WriteHeld, SectionAlone, FileAlive, no_writer, Busy
<1>6. ASSUME NEW f \in Files, write_enter(f) PROVE FileInv'
  <2>1. file[f].r \in debugfs /\ file' = [file EXCEPT ![f].at = "writing"]
        /\ UNCHANGED <<tr, debugfs, lock>>
    BY <1>6 DEF write_enter
  <2>2. file' \in [Files -> FileRec] /\ file'[f].r = file[f].r
        /\ \A g \in Files : g # f => file'[g] = file[g]
    BY <2>1, <1>shape DEF FileRec
  <2>3. Shape' /\ EnterLive'
    BY <2>1, <2>2 DEF FileInv, Shape, EnterLive
  <2>4. WriteHeld' /\ FileAlive'
    BY <2>1, <2>2 DEF FileInv, EnterLive, WriteHeld, FileAlive
  <2>5. SectionAlone'
    BY <2>1, <2>2 DEF FileInv, SectionAlone, no_writer
  <2>6. Busy'
    BY <2>1 DEF FileInv, Busy
  <2> QED BY <2>3, <2>4, <2>5, <2>6 DEF FileInv
<1>7. ASSUME NEW f \in Files, trelay_remove_write(f) PROVE FileInv'
  <2>1. /\ tr' = [tr EXCEPT ![file[f].r].to_remove = TRUE]
        /\ file' = [file EXCEPT ![f].at = "open"] /\ UNCHANGED <<debugfs, lock>>
    BY <1>7 DEF trelay_remove_write
  <2>2. /\ file' \in [Files -> FileRec] /\ file'[f].at = "open"
        /\ \A g \in Files : g # f => file'[g] = file[g]
    BY <2>1, <1>shape DEF FileRec
  <2>3. tr' \in [Relays -> RelayRec] /\ \A x \in Relays : tr'[x].st = tr[x].st
    BY <2>1, <1>shape DEF RelayRec
  <2>4. Shape' /\ EnterLive' /\ WriteHeld' /\ SectionAlone' /\ Busy'
    BY <2>1, <2>2, <2>3
       DEF FileInv, Shape, EnterLive, WriteHeld, SectionAlone, no_writer, Busy
  <2>5. ASSUME NEW g \in Files, file'[g].at = "writing" PROVE tr'[file'[g].r].st = "live"
    <3>1. g # f /\ file'[g] = file[g]
      BY <2>2, <2>5
    <3>2. file[g].r \in Relays /\ tr[file[g].r].st = "live"
      BY <3>1, <2>5 DEF FileInv, FileAlive, WriteHeld
    <3> QED BY <3>1, <3>2, <2>3
  <2> QED BY <2>4, <2>5 DEF FileInv, FileAlive
<1>8. ASSUME NEW f \in Files, close_file(f) PROVE FileInv'
  <2>1. file' = [file EXCEPT ![f] = [at |-> "closing", r |-> NoRelay]]
        /\ UNCHANGED <<tr, debugfs, lock>>
    BY <1>8 DEF close_file
  <2>2. file' \in [Files -> FileRec]
    BY <2>1, <1>shape DEF FileRec
  <2> QED BY <2>1, <2>2, <1>shape
          DEF FileInv, Shape, EnterLive, WriteHeld, SectionAlone, FileAlive, no_writer, Busy
<1>9. ASSUME NEW f \in Files, trelay_remove_release(f) PROVE FileInv'
  <2>1. file' = [file EXCEPT ![f] = Shut] /\ UNCHANGED <<tr, debugfs>>
    BY <1>9 DEF trelay_remove_release
  <2>2. file' \in [Files -> FileRec] /\ file'[f] = Shut
        /\ \A g \in Files : g # f => file'[g] = file[g]
    BY <2>1, <1>shape DEF FileRec, Shut
  <2>3. lock'.step = "loop"
        /\ lock' = [op |-> lock'.op, step |-> lock'.step, rest |-> lock'.rest, r |-> lock'.r,
                    d |-> lock'.d, gp |-> lock'.gp]
    BY <1>9 DEF trelay_remove_release, Free
  <2>4. lock.step # "debugfs"
    BY <1>9 DEF trelay_remove_release, FileInv, Busy
  <2> QED BY <2>1, <2>2, <2>3, <2>4, <1>shape
          DEF FileInv, Shape, EnterLive, WriteHeld, SectionAlone, FileAlive, no_writer, Shut, Busy
<1>10. ASSUME loop_remove PROVE FileInv'
  <2>1. PICK r : /\ lock.step = "loop" /\ debugfs' = debugfs \ {r} /\ UNCHANGED <<tr, file>>
                 /\ lock'.step = "debugfs" /\ lock'.r = r /\ lock'.op = lock.op
                 /\ lock' = [op |-> lock'.op, step |-> lock'.step, rest |-> lock'.rest,
                             r |-> lock'.r, d |-> lock'.d, gp |-> lock'.gp]
                 /\ lock.op # "none"
    BY <1>10, <1>shape DEF loop_remove, remove_begin
  <2> QED BY <2>1 DEF FileInv, Shape, EnterLive, WriteHeld, SectionAlone, FileAlive, Busy
<1>11. ASSUME do_remove_put PROVE FileInv'
  <2>1. /\ lock.step = "debugfs" /\ no_writer(lock.r) /\ UNCHANGED <<tr, file, debugfs>>
        /\ lock' = [op |-> lock.op, step |-> "sync1", rest |-> lock.rest, r |-> lock.r,
                    d |-> lock.d, gp |-> lock'.gp]
    BY <1>11, <1>shape DEF do_remove_put
  <2> QED BY <2>1 DEF FileInv, Shape, EnterLive, WriteHeld, SectionAlone, FileAlive, no_writer, Busy
<1>12. ASSUME do_remove_sync1 PROVE FileInv'
  <2>1. /\ lock.step = "sync1" /\ UNCHANGED <<tr, file, debugfs>>
        /\ lock' = [op |-> lock.op, step |-> "sync2", rest |-> lock.rest, r |-> lock.r,
                    d |-> lock.d, gp |-> lock'.gp]
    BY <1>12, <1>shape DEF do_remove_sync1
  <2> QED BY <2>1 DEF FileInv, Shape, EnterLive, WriteHeld, SectionAlone, FileAlive, no_writer, Busy
<1>13. ASSUME do_remove_free PROVE FileInv'
  BY <1>13, <1>shape, FileInvFreed DEF do_remove_free, FileInv, Busy
<1>14. ASSUME do_add_undo PROVE FileInv'
  BY <1>14, <1>shape, FileInvFreed DEF do_add_undo, Free
<1>15. ASSUME loop_skip PROVE FileInv'
  BY <1>15, <1>shape, FileInvSameStep DEF loop_skip
<1>16. ASSUME rtnl_unlock \/ trelay_exit \/ trelay_exit_rest
              \/ unregister_notify \/ \E d \in Devs : unregister_begin(d) PROVE FileInv'
  <2> DEFINE ToLoop ==
               /\ UNCHANGED <<tr, debugfs, file>> /\ lock.step # "debugfs"
               /\ lock'.step \in {"loop", "flush"}
               /\ lock'.op = "none" => lock'.step = "loop"
               /\ lock' = [op |-> lock'.op, step |-> lock'.step, rest |-> lock'.rest,
                           r |-> lock'.r, d |-> lock'.d, gp |-> lock'.gp]
  <2>1. CASE rtnl_unlock
    <3>1. ToLoop
      BY <2>1 DEF rtnl_unlock, Free
    <3> QED BY <3>1, FileInvToLoop
  <2>2. CASE trelay_exit \/ trelay_exit_rest
    <3>1. ToLoop
      BY <2>2 DEF trelay_exit, trelay_exit_rest, Free, FileInv, Busy
    <3> QED BY <3>1, FileInvToLoop
  <2>3. CASE unregister_notify
    <3>1. PICK rest : lock' = [op |-> lock.op, step |-> "loop", rest |-> rest, r |-> lock.r,
                               d |-> lock.d, gp |-> lock.gp]
      BY <2>3, <1>shape DEF unregister_notify, tr_device_event
    <3>2. lock.step = "flush" /\ UNCHANGED <<tr, debugfs, file>>
      BY <2>3 DEF unregister_notify
    <3>3. lock'.op = lock.op /\ lock'.step = "loop"
      BY <3>1
    <3>4. ToLoop
      BY <3>1, <3>2, <3>3
    <3> QED BY <3>4, FileInvToLoop
  <2>4. CASE \E d \in Devs : unregister_begin(d)
    <3>1. PICK d \in Devs : unregister_begin(d)
      BY <2>4
    <3>2. lock' = [op |-> "unreg", step |-> "flush", rest |-> <<>>, r |-> NoRelay, d |-> d,
                   gp |-> Readers]
      BY <3>1 DEF unregister_begin, Free
    <3>3. ToLoop
      BY <3>1, <3>2 DEF unregister_begin, FileInv, Busy
    <3> QED BY <3>3, FileInvToLoop
  <2> QED BY <1>16, <2>1, <2>2, <2>3, <2>4
<1>17. ASSUME trelay_init \/ \E d \in Devs : netdev_run_todo(d) \/ other_handler(d) PROVE FileInv'
  BY <1>17, FileInvUnchanged DEF trelay_init, netdev_run_todo, other_handler
<1>18. ASSUME NEW r \in Relays, NEW l \in Lines, do_add_begin(r, l[1], l[2], l[3]) PROVE FileInv'
  <2>1. /\ lock.op = "none" /\ tr[r].st = "unused" /\ UNCHANGED <<debugfs, file>>
        /\ tr' = [tr EXCEPT ![r] = [st |-> "live", name |-> l[1], dev1 |-> l[2], dev2 |-> l[3],
                                    to_remove |-> FALSE]]
        /\ lock' = [op |-> "add", step |-> "reg2", rest |-> <<>>, r |-> r, d |-> NoDev, gp |-> {}]
    BY <1>18 DEF do_add_begin, Free
  <2>2. l[1] \in Names /\ l[2] \in Devs /\ l[3] \in Devs
    BY LinesAssumption
  <2>3. /\ tr' \in [Relays -> RelayRec] /\ tr'[r].st = "live"
        /\ \A x \in Relays : x # r => tr'[x] = tr[x]
    BY <2>1, <2>2, <1>shape DEF RelayRec
  <2>4. r \notin debugfs /\ no_writer(r)
    BY <2>1 DEF FileInv, EnterLive, FileAlive, no_writer
  <2>5. Shape' /\ EnterLive' /\ Busy' /\ FileAlive'
    BY <2>1, <2>3, <2>4 DEF FileInv, Shape, EnterLive, FileAlive, no_writer, WriteHeld, Busy
  <2>6. WriteHeld'
    BY <2>1 DEF FileInv, WriteHeld, Busy
  <2>7. SectionAlone'
    BY <2>1, <2>3, <2>4 DEF SectionAlone, no_writer
  <2> QED BY <2>5, <2>6, <2>7 DEF FileInv
<1>19. ASSUME do_add_finish PROVE FileInv'
  <2>1. /\ lock.step = "reg2" /\ UNCHANGED <<tr, file>> /\ debugfs' = debugfs \cup {lock.r}
        /\ lock' = Free
    BY <1>19 DEF do_add_finish
  <2> QED BY <2>1 DEF FileInv, Shape, EnterLive, WriteHeld, SectionAlone, FileAlive, no_writer,
                      Free, Busy
<1>20. ASSUME do_add_busy PROVE FileInv'
  <2>1. /\ lock.step = "reg2" /\ UNCHANGED <<tr, file, debugfs>>
        /\ lock' = [op |-> lock.op, step |-> "undo", rest |-> lock.rest, r |-> lock.r,
                    d |-> lock.d, gp |-> lock'.gp]
    BY <1>20, <1>shape DEF do_add_busy
  <2> QED BY <2>1 DEF FileInv, Shape, EnterLive, WriteHeld, SectionAlone, FileAlive, no_writer, Busy
<1> QED
  BY <1>1, <1>2, <1>4, <1>5, <1>6, <1>7, <1>8, <1>9, <1>10, <1>11, <1>12, <1>13, <1>14, <1>15,
     <1>16, <1>17, <1>18, <1>19, <1>20 DEF Next, Section

\* No write to a file "remove" ever works on a relay that was freed, however
\* writes, closes, unregistrations and unloading interleave (trelay_remove_write
\* against trelay_do_remove).
THEOREM FilesNeverDangle == Spec => []FileAlive
<1>1. FileInv => FileAlive
  BY DEF FileInv
<1> QED BY <1>1, FileInvInit, FileInvStep, PTL DEF Spec

(***************************************************************************)
(* The list, the receive handlers, the peers and the references.  Between  *)
(* two sections they agree; inside one they disagree by what the section   *)
(* has still to do, and the frames that may be under way are the ones the  *)
(* grace period waits for.                                                 *)
(***************************************************************************)

Devices(r) == {tr[r].dev1, tr[r].dev2}

Elems(s) == {s[i] : i \in DOMAIN s}

Distinct(s) == \A i, j \in DOMAIN s : s[i] = s[j] => i = j

\* A relay with two devices of its own.
Joins(r) == /\ r \in Relays /\ tr[r].st = "live"
            /\ tr[r].dev1 \in Devs /\ tr[r].dev2 \in Devs /\ tr[r].dev1 # tr[r].dev2

\* No device is in two relays, and a relay can be entered while it is listed.
ListInv ==
    /\ Distinct(trelay_devs) /\ debugfs = Listed
    /\ \A r \in Listed : Joins(r)
    /\ \A r, q \in Listed : r # q => Devices(r) \cap Devices(q) = {}

\* The relay a section removes was on the list like the others; the one it
\* adds may want a second device that is taken.
SectionInv ==
    /\ lock.op = "none" => lock.step = "loop"
    /\ lock.op = "add" <=> lock.step \in {"reg2", "undo"}
    /\ lock.step = "flush" => lock.op = "unreg"
    /\ lock.step \in {"debugfs", "sync1", "sync2"} =>
          /\ lock.r \notin Listed /\ Joins(lock.r)
          /\ \A q \in Listed : Devices(lock.r) \cap Devices(q) = {}
    /\ lock.step \in {"reg2", "undo"} =>
          /\ lock.r \in Relays \ Listed /\ tr[lock.r].st = "live"
          /\ tr[lock.r].dev1 \in Devs /\ tr[lock.r].dev2 \in Devs
          /\ \A q \in Listed : tr[lock.r].dev1 \notin Devices(q)

\* What the loop has still to visit is on the list; exit misses none, and the
\* list of a module that is not there is empty.
RestInv ==
    /\ Distinct(lock.rest) /\ Elems(lock.rest) \subseteq Listed
    /\ lock.op = "exit" => Listed \subseteq Elems(lock.rest)
    /\ lock.op = "add" => loaded = "yes"
    /\ loaded # "yes" /\ lock.op # "exit" => Listed = {}

\* Devices whose handler is ours.
Ours(d) ==
    \/ \E r \in Listed : d \in Devices(r)
    \/ lock.step = "debugfs" /\ d \in Devices(lock.r)
    \/ lock.step = "sync1" /\ d = tr[lock.r].dev2
    \/ lock.step = "reg2" /\ d = tr[lock.r].dev1

\* Devices of which c may be handling a frame: its handler is ours, or was
\* when the grace period began that waits for c.
Handling(c, d) ==
    \/ Ours(d)
    \/ c \in lock.gp /\ lock.step \in {"sync1", "undo"} /\ d = tr[lock.r].dev1
    \/ c \in lock.gp /\ lock.step = "sync2" /\ d = tr[lock.r].dev2

HandlerInv == \A d \in Devs : handler[d] = "trelay" <=> Ours(d)

PeerInv ==
    /\ \A r \in Listed : peer[tr[r].dev1] = tr[r].dev2 /\ peer[tr[r].dev2] = tr[r].dev1
    /\ lock.step \in {"debugfs", "sync1", "reg2", "undo"} => peer[tr[lock.r].dev1] = tr[lock.r].dev2
    /\ lock.step \in {"debugfs", "sync1", "sync2"} => peer[tr[lock.r].dev2] = tr[lock.r].dev1

Held(d) == (\E r \in Listed : d \in Devices(r)) \/ (lock.step = "debugfs" /\ d \in Devices(lock.r))

RefsInv == \A d \in Devs : refs[d] = IF Held(d) THEN 1 ELSE 0

\* Unregistration has d in hand, and RTNL.
Leaving(d) == lock.op = "unreg" /\ lock.d = d /\ devst[d] = "unlisted"

\* The devices of a relay are there, but for the one whose unregistration has
\* still to come to the relay.
DevInv ==
    /\ \A r \in Listed : \A d \in Devices(r) :
          devst[d] = "listed" \/ (Leaving(d) /\ (lock.step = "flush" \/ r \in Elems(lock.rest)))
    /\ lock.step \in {"debugfs", "sync1", "sync2"} =>
          \A d \in Devices(lock.r) : devst[d] = "listed" \/ Leaving(d)
    /\ lock.step \in {"reg2", "undo"} => \A d \in Devices(lock.r) : devst[d] = "listed"

\* A frame came in by a device whose handler is or was ours, and goes out by
\* the peer of that device.
FrameOK(c) ==
    /\ frame[c].at = "handle" => frame[c].dev \in Devs /\ Handling(c, frame[c].dev)
    /\ frame[c].at = "xmit" => \E d \in Devs : Handling(c, d) /\ frame[c].dev = peer[d] /\ peer[d] # NoDev

FrameInv == \A c \in Cpus : FrameOK(c)

RelayInv ==
    TypeOK /\ ListInv /\ SectionInv /\ RestInv /\ HandlerInv /\ PeerInv /\ RefsInv /\ DevInv /\ FrameInv

-----------------------------------------------------------------------------

\* A list without one of its elements, which it has once.
LEMMA ListDel ==
    ASSUME NEW S, NEW s \in Seq(S), Distinct(s), NEW r \in Elems(s)
    PROVE  /\ list_del(s, r) \in Seq(S) /\ Distinct(list_del(s, r))
           /\ Elems(list_del(s, r)) = Elems(s) \ {r}
<1> DEFINE i == CHOOSE k \in DOMAIN s : s[k] = r
           t == list_del(s, r)
<1>1. Len(s) \in Nat /\ DOMAIN s = 1..Len(s)
  OBVIOUS
<1>2. i \in 1..Len(s) /\ s[i] = r
  BY <1>1 DEF Elems
<1>3. i \in Nat /\ Len(s) - 1 \in Nat
  BY <1>1, <1>2
<1>4. t = [k \in 1..(Len(s) - 1) |-> IF k < i THEN s[k] ELSE s[k + 1]]
  BY DEF list_del
<1> HIDE DEF i, t
<1>5. \A k \in 1..(Len(s) - 1) : k \in 1..Len(s) /\ k + 1 \in 1..Len(s)
  BY <1>1
<1>6. t \in [1..(Len(s) - 1) -> S]
  BY <1>1, <1>4, <1>5
<1>7. t \in Seq(S) /\ Len(t) = Len(s) - 1 /\ DOMAIN t = 1..(Len(s) - 1)
  BY <1>3, <1>6
<1>8. Distinct(t)
  <2> SUFFICES ASSUME NEW j \in DOMAIN t, NEW k \in DOMAIN t, t[j] = t[k] PROVE j = k
    BY DEF Distinct
  <2>1. j \in 1..(Len(s) - 1) /\ k \in 1..(Len(s) - 1)
    BY <1>7
  <2>2. PICK jj \in 1..Len(s) : t[j] = s[jj] /\ jj = (IF j < i THEN j ELSE j + 1)
    BY <2>1, <1>4, <1>5
  <2>3. PICK kk \in 1..Len(s) : t[k] = s[kk] /\ kk = (IF k < i THEN k ELSE k + 1)
    BY <2>1, <1>4, <1>5
  <2>4. jj = kk
    BY <2>2, <2>3, <1>1 DEF Distinct
  <2> QED BY <2>1, <2>2, <2>3, <2>4, <1>3
<1>9. ASSUME NEW x \in Elems(t) PROVE x \in Elems(s) \ {r}
  <2>1. PICK j \in 1..(Len(s) - 1) : x = t[j]
    BY <1>7 DEF Elems
  <2>2. PICK jj \in 1..Len(s) : t[j] = s[jj] /\ jj = (IF j < i THEN j ELSE j + 1)
    BY <2>1, <1>4, <1>5
  <2>3. jj # i
    BY <2>2, <1>3
  <2>4. s[jj] # r
    BY <2>2, <2>3, <1>1, <1>2 DEF Distinct
  <2> QED BY <2>1, <2>2, <2>4, <1>1 DEF Elems
<1>10. ASSUME NEW x \in Elems(s) \ {r} PROVE x \in Elems(t)
  <2>1. PICK j \in 1..Len(s) : x = s[j]
    BY <1>1 DEF Elems
  <2>2. j # i
    BY <2>1, <1>2
  <2>3. CASE j < i
    <3>1. j \in 1..(Len(s) - 1) /\ t[j] = s[j]
      BY <2>3, <1>2, <1>3, <1>4
    <3> QED BY <3>1, <2>1, <1>7 DEF Elems
  <2>4. CASE j > i
    <3>1. j - 1 \in 1..(Len(s) - 1) /\ ~(j - 1 < i) /\ (j - 1) + 1 = j
      BY <2>4, <1>1, <1>2, <1>3
    <3>2. t[j - 1] = s[j]
      BY <3>1, <1>4
    <3> QED BY <3>1, <3>2, <2>1, <1>7 DEF Elems
  <2> QED BY <2>2, <2>3, <2>4, <1>3
<1> QED BY <1>7, <1>8, <1>9, <1>10 DEF t

\* A list that is not empty, and what is left behind its head.
LEMMA ListTail ==
    ASSUME NEW S, NEW s \in Seq(S), s # <<>>, Distinct(s)
    PROVE  /\ Head(s) \in Elems(s) /\ Head(s) \in S
           /\ Tail(s) \in Seq(S) /\ Distinct(Tail(s))
           /\ Elems(Tail(s)) = Elems(s) \ {Head(s)}
<1>1. Len(s) \in Nat \ {0} /\ DOMAIN s = 1..Len(s) /\ Head(s) = s[1]
  OBVIOUS
<1>2. /\ Tail(s) \in Seq(S) /\ Len(Tail(s)) = Len(s) - 1
      /\ \A k \in 1..(Len(s) - 1) : Tail(s)[k] = s[k + 1]
  OBVIOUS
<1>3. DOMAIN Tail(s) = 1..(Len(s) - 1)
  BY <1>2
<1>4. Head(s) \in Elems(s) /\ Head(s) \in S
  BY <1>1 DEF Elems
<1>5. Distinct(Tail(s))
  BY <1>1, <1>2, <1>3 DEF Distinct
<1>6. ASSUME NEW x \in Elems(Tail(s)) PROVE x \in Elems(s) \ {Head(s)}
  <2>1. PICK k \in 1..(Len(s) - 1) : x = s[k + 1]
    BY <1>2, <1>3 DEF Elems
  <2>2. k + 1 \in DOMAIN s /\ k + 1 # 1 /\ 1 \in DOMAIN s
    BY <1>1
  <2> QED BY <2>1, <2>2, <1>1 DEF Elems, Distinct
<1>7. ASSUME NEW x \in Elems(s) \ {Head(s)} PROVE x \in Elems(Tail(s))
  <2>1. PICK k \in 1..Len(s) : x = s[k]
    BY <1>1 DEF Elems
  <2>2. k - 1 \in 1..(Len(s) - 1) /\ (k - 1) + 1 = k
    BY <2>1, <1>1
  <2> QED BY <2>1, <2>2, <1>2, <1>3 DEF Elems
<1> QED BY <1>2, <1>4, <1>5, <1>6, <1>7

\* A list with one more element.
LEMMA ListAppend ==
    ASSUME NEW S, NEW s \in Seq(S), Distinct(s), NEW r \in S, r \notin Elems(s)
    PROVE  /\ Append(s, r) \in Seq(S) /\ Distinct(Append(s, r))
           /\ Elems(Append(s, r)) = Elems(s) \cup {r}
<1>1. /\ Len(s) \in Nat /\ DOMAIN s = 1..Len(s)
      /\ Append(s, r) \in Seq(S) /\ Len(Append(s, r)) = Len(s) + 1
      /\ Append(s, r)[Len(s) + 1] = r /\ \A k \in 1..Len(s) : Append(s, r)[k] = s[k]
  OBVIOUS
<1>2. DOMAIN Append(s, r) = 1..(Len(s) + 1)
  BY <1>1
<1>3. Distinct(Append(s, r))
  <2> SUFFICES ASSUME NEW j \in 1..(Len(s) + 1), NEW k \in 1..(Len(s) + 1),
                      Append(s, r)[j] = Append(s, r)[k]
               PROVE  j = k
    BY <1>2 DEF Distinct
  <2>1. CASE j \in 1..Len(s) /\ k \in 1..Len(s)
    BY <2>1, <1>1 DEF Distinct
  <2>2. CASE j \in 1..Len(s) /\ k = Len(s) + 1
    BY <2>2, <1>1 DEF Elems
  <2>3. CASE k \in 1..Len(s) /\ j = Len(s) + 1
    BY <2>3, <1>1 DEF Elems
  <2> QED BY <2>1, <2>2, <2>3, <1>1
<1>4. ASSUME NEW x \in Elems(Append(s, r)) PROVE x \in Elems(s) \cup {r}
  <2>1. PICK k \in 1..(Len(s) + 1) : x = Append(s, r)[k]
    BY <1>2 DEF Elems
  <2>2. CASE k = Len(s) + 1
    BY <2>1, <2>2, <1>1
  <2>3. CASE k \in 1..Len(s)
    BY <2>1, <2>3, <1>1 DEF Elems
  <2> QED BY <2>2, <2>3, <1>1
<1>5. ASSUME NEW x \in Elems(s) \cup {r} PROVE x \in Elems(Append(s, r))
  <2>1. CASE x = r
    BY <2>1, <1>1, <1>2 DEF Elems
  <2>2. CASE x \in Elems(s)
    <3>1. PICK k \in 1..Len(s) : x = s[k]
      BY <2>2, <1>1 DEF Elems
    <3> QED BY <3>1, <1>1, <1>2 DEF Elems
  <2> QED BY <2>1, <2>2
<1> QED BY <1>1, <1>3, <1>4, <1>5

LEMMA ListEmpty ==
    /\ Distinct(<<>>) /\ Elems(<<>>) = {}
    /\ \A S : \A s \in Seq(S) : Elems(s) = {} <=> s = <<>>
<1>1. Distinct(<<>>) /\ Elems(<<>>) = {}
  BY DEF Distinct, Elems
<1>2. ASSUME NEW S, NEW s \in Seq(S), Elems(s) = {} PROVE s = <<>>
  <2>1. s[1] \notin Elems(s)
    BY <1>2
  <2>2. 1 \notin DOMAIN s
    BY <2>1 DEF Elems
  <2> QED BY <2>2
<1> QED BY <1>1, <1>2

LEMMA RelayInvInit == Init => RelayInv
<1> SUFFICES ASSUME Init PROVE RelayInv
  OBVIOUS
<1>1. (CHOOSE n \in Names : TRUE) \in Names
  BY NamesAssumption, Zenon
<1>2. TypeOK
  BY <1>1 DEF Init, TypeOK, RelayRec, FileRec, FrameRec, LockRec, Shut, Free, Idle, NoRelay
<1>3. Listed = {} /\ lock.step = "loop" /\ lock.op = "none" /\ lock.rest = <<>> /\ loaded = "yes"
  BY ListEmpty DEF Init, Listed, Elems, Free
<1>4. ListInv /\ SectionInv /\ RestInv /\ PeerInv /\ DevInv
  BY <1>3, ListEmpty DEF Init, ListInv, SectionInv, RestInv, PeerInv, DevInv
<1>5. HandlerInv /\ RefsInv
  BY <1>3 DEF Init, HandlerInv, Ours, RefsInv, Held
<1>6. FrameInv
  BY DEF Init, FrameInv, FrameOK, Idle
<1> QED BY <1>2, <1>4, <1>5, <1>6 DEF RelayInv

\* The types of what the steps work with.
LEMMA Typed ==
    ASSUME RelayInv
    PROVE  /\ trelay_devs \in Seq(Relays) /\ Listed \subseteq Relays /\ Listed = Elems(trelay_devs)
           /\ tr \in [Relays -> RelayRec] /\ file \in [Files -> FileRec]
           /\ devst \in [Devs -> {"listed", "unlisted", "freed"}] /\ refs \in [Devs -> Nat]
           /\ handler \in [Devs -> {"none", "trelay", "other"}]
           /\ peer \in [Devs -> Devs \cup {NoDev}] /\ frame \in [Cpus -> FrameRec]
           /\ lock \in LockRec /\ lock.rest \in Seq(Relays)
           /\ \A r \in Listed : Devices(r) \subseteq Devs
           /\ lock.step \in {"debugfs", "sync1", "sync2", "reg2", "undo"} =>
                 lock.r \in Relays /\ Devices(lock.r) \subseteq Devs
<1>1. Listed \subseteq Relays /\ Listed = Elems(trelay_devs)
  BY DEF RelayInv, TypeOK, Listed, Elems
<1>2. \A r \in Listed : Devices(r) \subseteq Devs
  BY DEF RelayInv, ListInv, Joins, Devices
<1>3. lock.step \in {"debugfs", "sync1", "sync2", "reg2", "undo"} =>
                 lock.r \in Relays /\ Devices(lock.r) \subseteq Devs
  BY DEF RelayInv, SectionInv, Joins, Devices
<1>4. lock \in LockRec /\ lock.rest \in Seq(Relays)
  BY DEF RelayInv, TypeOK, LockRec
<1> QED BY <1>1, <1>2, <1>3, <1>4 DEF RelayInv, TypeOK

\* Steps on files: a relay is at most marked.
LEMMA RelayInvFiles ==
    ASSUME RelayInv, file' \in [Files -> FileRec], tr' \in [Relays -> RelayRec],
           \A x \in Relays : /\ tr'[x].st = tr[x].st /\ tr'[x].dev1 = tr[x].dev1
                             /\ tr'[x].dev2 = tr[x].dev2,
           UNCHANGED <<loaded, trelay_devs, debugfs, devst, refs, handler, peer, frame, lock>>
    PROVE  RelayInv'
<1>1. TypeOK'
  BY DEF RelayInv, TypeOK
<1>2. Listed' = Listed /\ \A x \in Relays : Devices(x)' = Devices(x) /\ (Joins(x)' <=> Joins(x))
  BY DEF Listed, Devices, Joins
<1>3. ListInv' /\ RestInv'
  BY <1>2, Typed DEF RelayInv, ListInv, RestInv, Elems, Distinct
<1>4. SectionInv'
  BY <1>2, Typed DEF RelayInv, SectionInv
<1>5. \A d : (Ours(d)' <=> Ours(d)) /\ (Held(d)' <=> Held(d))
  BY <1>2, Typed DEF Ours, Held
<1>6. \A c, d : Handling(c, d)' <=> Handling(c, d)
  BY <1>5, Typed DEF Handling
<1>7. HandlerInv' /\ RefsInv'
  BY <1>5 DEF RelayInv, HandlerInv, RefsInv
<1>8. PeerInv'
  BY <1>2, Typed DEF RelayInv, PeerInv
<1>9. DevInv'
  BY <1>2, Typed DEF RelayInv, DevInv, Leaving, Elems
<1>10. FrameInv'
  BY <1>6 DEF RelayInv, FrameInv, FrameOK
<1> QED BY <1>1, <1>3, <1>4, <1>7, <1>8, <1>9, <1>10 DEF RelayInv

\* Steps of a frame: c may leave its read-side section, and is not waited for
\* any more then.
LEMMA RelayInvFrame ==
    ASSUME RelayInv, NEW c \in Cpus,
           UNCHANGED <<loaded, trelay_devs, tr, debugfs, file, devst, refs, handler, peer>>,
           frame' \in [Cpus -> FrameRec], \A b \in Cpus \ {c} : frame'[b] = frame[b],
           \/ lock' = lock
           \/ frame'[c] = Idle /\ lock' = [lock EXCEPT !.gp = @ \ {c}],
           frame'[c].at = "handle" => frame'[c].dev \in Devs /\ Handling(c, frame'[c].dev),
           frame'[c].at = "xmit" => \E d \in Devs : /\ Handling(c, d) /\ frame'[c].dev = peer[d]
                                                   /\ peer[d] # NoDev
    PROVE  RelayInv'
<1>0. lock \in LockRec
  BY Typed
<1>1. /\ lock' \in LockRec /\ lock'.op = lock.op /\ lock'.step = lock.step /\ lock'.r = lock.r
      /\ lock'.rest = lock.rest /\ lock'.d = lock.d /\ \A b \in lock.gp \ {c} : b \in lock'.gp
      /\ lock' # lock => frame'[c].at = "idle"
  <2>1. CASE lock' = lock
    BY <2>1, <1>0
  <2>2. CASE frame'[c] = Idle /\ lock' = [lock EXCEPT !.gp = @ \ {c}]
    <3>1. lock' \in LockRec
      BY <2>2, <1>0 DEF LockRec
    <3>2. frame'[c].at = "idle"
      BY <2>2 DEF Idle
    <3> QED BY <3>1, <3>2, <2>2, <1>0 DEF LockRec
  <2> QED BY <2>1, <2>2
<1>2. TypeOK'
  BY <1>1 DEF RelayInv, TypeOK
<1>3. /\ Listed' = Listed
      /\ \A x : Devices(x)' = Devices(x) /\ (Joins(x)' <=> Joins(x))
      /\ \A d : (Ours(d)' <=> Ours(d)) /\ (Held(d)' <=> Held(d)) /\ (Leaving(d)' <=> Leaving(d))
  BY <1>1 DEF Listed, Devices, Joins, Ours, Held, Leaving
<1>4. ListInv' /\ RestInv' /\ PeerInv'
  BY <1>1, <1>3 DEF RelayInv, ListInv, RestInv, Elems, Distinct, PeerInv
<1>5. SectionInv' /\ DevInv'
  BY <1>1, <1>3 DEF RelayInv, SectionInv, DevInv, Elems
<1>6. HandlerInv' /\ RefsInv'
  BY <1>3 DEF RelayInv, HandlerInv, RefsInv
<1>7. ASSUME NEW b \in Cpus PROVE FrameOK(b)'
  <2>1. CASE b # c
    <3>1. \A d : Handling(b, d) => Handling(b, d)'
      BY <2>1, <1>1, <1>3 DEF Handling
    <3>2. frame'[b] = frame[b] /\ FrameOK(b)
      BY <2>1 DEF RelayInv, FrameInv
    <3> QED BY <3>1, <3>2 DEF FrameOK
  <2>2. CASE b = c /\ lock' = lock
    <3>1. \A d : Handling(b, d) => Handling(b, d)'
      BY <2>2, <1>3 DEF Handling
    <3> QED BY <3>1, <2>2 DEF FrameOK
  <2>3. CASE b = c /\ lock' # lock
    BY <2>3, <1>1 DEF FrameOK
  <2> QED BY <2>1, <2>2, <2>3
<1>8. FrameInv'
  BY <1>7 DEF FrameInv
<1> QED BY <1>2, <1>4, <1>5, <1>6, <1>8 DEF RelayInv

\* Steps between relays: only the section, the module or a device go on.
LEMMA RelayInvLoop ==
    ASSUME RelayInv, file' \in [Files -> FileRec], loaded' \in {"yes", "exit", "no"},
           devst' \in [Devs -> {"listed", "unlisted", "freed"}], lock' \in LockRec,
           lock.step \in {"loop", "flush"}, lock'.step \in {"loop", "flush"},
           lock'.op # "add", lock'.op = "none" => lock'.step = "loop",
           lock'.step = "flush" => lock'.op = "unreg",
           UNCHANGED <<trelay_devs, tr, debugfs, refs, handler, peer, frame>>,
           RestInv', DevInv'
    PROVE  RelayInv'
<1>1. TypeOK'
  BY DEF RelayInv, TypeOK
<1>2. /\ Listed' = Listed
      /\ \A x : Devices(x)' = Devices(x) /\ (Joins(x)' <=> Joins(x))
      /\ \A d : (Ours(d)' <=> Ours(d)) /\ (Held(d)' <=> Held(d))
      /\ \A c, d : Handling(c, d)' <=> Handling(c, d)
  BY DEF Listed, Devices, Joins, Ours, Held, Handling
<1>3. ListInv' /\ PeerInv'
  BY <1>2 DEF RelayInv, ListInv, Distinct, PeerInv
<1>4. SectionInv'
  BY <1>2 DEF RelayInv, SectionInv
<1>5. HandlerInv' /\ RefsInv' /\ FrameInv'
  BY <1>2 DEF RelayInv, HandlerInv, RefsInv, FrameInv, FrameOK
<1> QED BY <1>1, <1>3, <1>4, <1>5 DEF RelayInv

LEMMA RelayInvFileStep ==
    ASSUME RelayInv, NEW f \in Files,
           \/ write_enter(f) \/ trelay_remove_write(f) \/ close_file(f)
           \/ \E r \in Relays : trelay_open(f, r)
    PROVE  RelayInv'
<1>file. file \in [Files -> FileRec]
  BY Typed
<1>tr. tr \in [Relays -> RelayRec]
  BY Typed
<1>1. CASE write_enter(f)
  <2>1. file' \in [Files -> FileRec]
    BY <1>1, <1>file DEF write_enter, FileRec
  <2> QED BY <2>1, <1>1, <1>tr, RelayInvFiles DEF write_enter
<1>2. CASE trelay_remove_write(f)
  <2>1. file' \in [Files -> FileRec]
    BY <1>2, <1>file DEF trelay_remove_write, FileRec
  <2>2. tr' = [tr EXCEPT ![file[f].r].to_remove = TRUE]
    BY <1>2 DEF trelay_remove_write
  <2>3. /\ tr' \in [Relays -> RelayRec]
        /\ \A x \in Relays : /\ tr'[x].st = tr[x].st /\ tr'[x].dev1 = tr[x].dev1
                             /\ tr'[x].dev2 = tr[x].dev2
    BY <2>2, <1>tr DEF RelayRec
  <2> QED BY <2>1, <2>3, <1>2, RelayInvFiles DEF trelay_remove_write
<1>3. CASE close_file(f)
  <2>1. file' \in [Files -> FileRec]
    BY <1>3, <1>file DEF close_file, FileRec
  <2> QED BY <2>1, <1>3, <1>tr, RelayInvFiles DEF close_file
<1>4. CASE \E r \in Relays : trelay_open(f, r)
  <2>1. file' \in [Files -> FileRec]
    BY <1>4, <1>file DEF trelay_open, FileRec
  <2> QED BY <2>1, <1>4, <1>tr, RelayInvFiles DEF trelay_open
<1> QED BY <1>1, <1>2, <1>3, <1>4

LEMMA RelayInvFrameStep ==
    ASSUME RelayInv, NEW c \in Cpus,
           trelay_handle_frame(c) \/ frame_xmit(c) \/ \E d \in Devs : frame_begin(c, d)
    PROVE  RelayInv'
<1>frame. frame \in [Cpus -> FrameRec] /\ FrameOK(c) /\ peer \in [Devs -> Devs \cup {NoDev}]
  BY Typed DEF RelayInv, FrameInv
<1>1. ASSUME rcu_done(c),
             UNCHANGED <<loaded, trelay_devs, tr, debugfs, file, devst, refs, handler, peer>>
      PROVE  RelayInv'
  <2>1. /\ frame' \in [Cpus -> FrameRec] /\ frame'[c] = Idle /\ frame'[c].at = "idle"
        /\ \A b \in Cpus \ {c} : frame'[b] = frame[b]
        /\ lock' = [lock EXCEPT !.gp = @ \ {c}]
    BY <1>1, <1>frame DEF rcu_done, FrameRec, Idle
  <2> QED BY <2>1, <1>1, RelayInvFrame
<1>2. CASE frame_xmit(c)
  BY <1>1, <1>2 DEF frame_xmit
<1>3. CASE trelay_handle_frame(c)
  <2>1. CASE rcu_done(c)
    BY <2>1, <1>1, <1>3 DEF trelay_handle_frame
  <2>2. CASE ~rcu_done(c)
    <3>1. /\ frame[c].at = "handle" /\ peer[frame[c].dev] # NoDev /\ lock' = lock
          /\ frame' = [frame EXCEPT ![c] = [at |-> "xmit", dev |-> peer[frame[c].dev]]]
          /\ UNCHANGED <<loaded, trelay_devs, tr, debugfs, file, devst, refs, handler, peer>>
      BY <2>2, <1>3 DEF trelay_handle_frame
    <3>2. frame[c].dev \in Devs /\ Handling(c, frame[c].dev)
      BY <3>1, <1>frame DEF FrameOK
    <3>3. /\ frame' \in [Cpus -> FrameRec] /\ \A b \in Cpus \ {c} : frame'[b] = frame[b]
          /\ frame'[c].at = "xmit" /\ frame'[c].dev = peer[frame[c].dev]
      BY <3>1, <3>2, <1>frame DEF FrameRec
    <3> QED BY <3>1, <3>2, <3>3, RelayInvFrame
  <2> QED BY <2>1, <2>2
<1>4. CASE \E d \in Devs : frame_begin(c, d)
  <2>1. PICK d \in Devs : frame_begin(c, d)
    BY <1>4
  <2>2. Handling(c, d)
    BY <2>1 DEF frame_begin, RelayInv, HandlerInv, Handling
  <2>3. /\ frame' \in [Cpus -> FrameRec] /\ \A b \in Cpus \ {c} : frame'[b] = frame[b]
        /\ frame'[c].at = "handle" /\ frame'[c].dev = d
    BY <2>1, <1>frame DEF frame_begin, FrameRec
  <2> QED BY <2>1, <2>2, <2>3, RelayInvFrame DEF frame_begin
<1> QED BY <1>2, <1>3, <1>4

\* The steps of the loops, and of unregistration and unloading, that touch no
\* relay.
LEMMA RelayInvLoopStep ==
    ASSUME RelayInv,
           \/ loop_skip \/ rtnl_unlock \/ unregister_notify \/ trelay_exit \/ trelay_exit_rest
           \/ trelay_init \/ \E f \in Files : trelay_remove_release(f)
           \/ \E d \in Devs : unregister_begin(d)
    PROVE  RelayInv'
<1>type. /\ trelay_devs \in Seq(Relays) /\ Listed = Elems(trelay_devs) /\ Distinct(trelay_devs)
         /\ lock \in LockRec /\ lock.rest \in Seq(Relays)
         /\ devst \in [Devs -> {"listed", "unlisted", "freed"}] /\ file \in [Files -> FileRec]
         /\ loaded \in {"yes", "exit", "no"}
  BY Typed DEF RelayInv, TypeOK, ListInv
<1>lk. lock \in LockRec
  BY <1>type
<1>rest. /\ Distinct(lock.rest) /\ Elems(lock.rest) \subseteq Listed
         /\ lock.op = "exit" => Listed \subseteq Elems(lock.rest)
         /\ lock.op = "add" => loaded = "yes"
         /\ loaded # "yes" /\ lock.op # "exit" => Listed = {}
  BY DEF RelayInv, RestInv
<1>dev. \A r \in Listed : \A d \in Devices(r) :
          devst[d] = "listed" \/ (Leaving(d) /\ (lock.step = "flush" \/ r \in Elems(lock.rest)))
  BY DEF RelayInv, DevInv
<1>free. /\ Free \in LockRec /\ Free.op = "none" /\ Free.step = "loop" /\ Free.rest = <<>>
  BY DEF Free, LockRec, NoRelay
<1>sect. /\ lock.op = "none" => lock.step = "loop"
         /\ lock.op = "add" <=> lock.step \in {"reg2", "undo"}
         /\ lock.step = "flush" => lock.op = "unreg"
  BY DEF RelayInv, SectionInv
<1>idle. lock.op = "none" => \A r \in Listed : \A d \in Devices(r) : devst[d] = "listed"
  BY <1>dev DEF Leaving
\* A section starts on the whole list.
<1>start. ASSUME lock.op = "none", NEW op \in {"close", "exit"},
                 lock' = [Free EXCEPT !.op = op, !.rest = trelay_devs],
                 op # "exit" => loaded' = loaded, loaded' \in {"yes", "exit", "no"},
                 file' \in [Files -> FileRec],
                 UNCHANGED <<trelay_devs, tr, debugfs, devst, refs, handler, peer, frame>>
          PROVE  RelayInv'
  <2>1. /\ lock' \in LockRec /\ lock'.op = op /\ lock'.step = "loop" /\ lock'.rest = trelay_devs
    BY <1>start, <1>type DEF Free, LockRec, NoRelay
  <2>2. Listed' = Listed
    BY <1>start DEF Listed
  <2>3. RestInv'
    BY <2>1, <2>2, <1>type, <1>rest, <1>start DEF RestInv
  <2>4. DevInv'
    BY <2>1, <2>2, <1>idle, <1>start DEF DevInv, Devices
  <2> QED BY <2>1, <2>3, <2>4, <1>start, <1>type, <1>sect, RelayInvLoop
<1>1. CASE loop_skip
  <2>1. /\ lock.op \in {"close", "unreg", "exit"} /\ lock.step = "loop" /\ lock.rest # <<>>
        /\ ~condemned(Head(lock.rest)) /\ lock' = [lock EXCEPT !.rest = Tail(@)]
        /\ UNCHANGED <<loaded, trelay_devs, tr, debugfs, file, devst, refs, handler, peer, frame>>
    BY <1>1 DEF loop_skip
  <2>2. /\ Head(lock.rest) \in Listed /\ Tail(lock.rest) \in Seq(Relays)
        /\ Distinct(Tail(lock.rest)) /\ Elems(Tail(lock.rest)) = Elems(lock.rest) \ {Head(lock.rest)}
    BY <2>1, <1>type, <1>rest, ListTail
  <2>3. /\ lock' \in LockRec /\ lock'.op = lock.op /\ lock'.step = "loop" /\ lock'.d = lock.d
        /\ lock'.rest = Tail(lock.rest)
    BY <2>1, <2>2, <1>lk DEF LockRec
  <2>4. lock.op # "exit" /\ (lock.op = "unreg" => lock.d \notin Devices(Head(lock.rest)))
    BY <2>1 DEF condemned, Devices
  <2>5. Listed' = Listed
    BY <2>1 DEF Listed
  <2>6. RestInv'
    BY <2>1, <2>2, <2>3, <2>4, <2>5, <1>rest DEF RestInv
  <2>7. ASSUME NEW r \in Listed, NEW d \in Devices(r)
        PROVE  devst[d] = "listed" \/ (Leaving(d) /\ r \in Elems(Tail(lock.rest)))
    BY <2>1, <2>2, <2>4, <1>dev DEF Leaving
  <2>8. DevInv'
    BY <2>1, <2>3, <2>5, <2>7 DEF DevInv, Devices, Leaving
  <2> QED BY <2>1, <2>3, <2>6, <2>8, <1>type, RelayInvLoop
<1>2. CASE rtnl_unlock
  <2>1. /\ lock.op \in {"close", "unreg", "exit"} /\ lock.step = "loop" /\ lock.rest = <<>>
        /\ lock' = Free
        /\ UNCHANGED <<loaded, trelay_devs, tr, debugfs, file, devst, refs, handler, peer, frame>>
    BY <1>2 DEF rtnl_unlock
  <2>2. Listed' = Listed
    BY <2>1 DEF Listed
  <2>3. RestInv'
    BY <2>1, <2>2, <1>rest, <1>free, ListEmpty DEF RestInv
  <2>4. DevInv'
    BY <2>1, <2>2, <1>dev, <1>free, ListEmpty DEF DevInv, Devices
  <2> QED BY <2>1, <2>3, <2>4, <1>free, <1>type, RelayInvLoop
<1>3. CASE unregister_notify
  <2>1. /\ lock.step = "flush" /\ lock.op = "unreg"
        /\ UNCHANGED <<loaded, trelay_devs, tr, debugfs, file, devst, refs, handler, peer, frame>>
    BY <1>3, <1>sect DEF unregister_notify
  <2>2. PICK rest : /\ rest = IF loaded = "yes" THEN trelay_devs ELSE <<>>
                    /\ lock' = [lock EXCEPT !.step = "loop", !.rest = rest]
    BY <1>3 DEF unregister_notify, tr_device_event
  <2>3. rest \in Seq(Relays) /\ Distinct(rest) /\ Elems(rest) = Listed
    BY <2>1, <2>2, <1>type, <1>rest, ListEmpty
  <2>4. /\ lock' \in LockRec /\ lock'.op = lock.op /\ lock'.step = "loop" /\ lock'.d = lock.d
        /\ lock'.rest = rest
    BY <2>2, <2>3, <1>lk DEF LockRec
  <2>5. Listed' = Listed
    BY <2>1 DEF Listed
  <2>6. RestInv'
    BY <2>1, <2>3, <2>4, <2>5, <1>rest DEF RestInv
  <2>7. DevInv'
    BY <2>1, <2>3, <2>4, <2>5, <1>dev DEF DevInv, Devices, Leaving
  <2> QED BY <2>1, <2>4, <2>6, <2>7, <1>type, RelayInvLoop
<1>4. CASE trelay_exit
  BY <1>4, <1>start, <1>type DEF trelay_exit
<1>5. CASE trelay_exit_rest
  BY <1>5, <1>start, <1>type DEF trelay_exit_rest
<1>6. CASE trelay_init
  <2>1. /\ lock.op = "none" /\ loaded' = "yes"
        /\ UNCHANGED <<trelay_devs, tr, debugfs, file, devst, refs, handler, peer, frame, lock>>
    BY <1>6 DEF trelay_init
  <2>2. Listed' = Listed
    BY <2>1 DEF Listed
  <2>3. RestInv'
    BY <2>1, <2>2, <1>rest DEF RestInv, Elems, Distinct
  <2>4. DevInv'
    BY <2>1, <2>2, <1>idle, <1>sect DEF DevInv, Devices
  <2> QED BY <2>1, <2>3, <2>4, <1>sect, <1>type, RelayInvLoop
<1>7. CASE \E f \in Files : trelay_remove_release(f)
  <2>1. PICK f \in Files : trelay_remove_release(f)
    BY <1>7
  <2>2. file' \in [Files -> FileRec]
    BY <2>1, <1>type DEF trelay_remove_release, FileRec, Shut
  <2> QED BY <2>1, <2>2, <1>start, <1>type DEF trelay_remove_release
<1>8. CASE \E d \in Devs : unregister_begin(d)
  <2>1. PICK d \in Devs : unregister_begin(d)
    BY <1>8
  <2>2. /\ lock.op = "none" /\ devst' = [devst EXCEPT ![d] = "unlisted"]
        /\ lock' = [Free EXCEPT !.op = "unreg", !.step = "flush", !.d = d, !.gp = Readers]
        /\ UNCHANGED <<loaded, trelay_devs, tr, debugfs, file, refs, handler, peer, frame>>
    BY <2>1 DEF unregister_begin
  <2>3. Readers \subseteq Cpus
    BY DEF Readers
  <2>4. /\ lock' \in LockRec /\ lock'.op = "unreg" /\ lock'.step = "flush" /\ lock'.d = d
        /\ lock'.rest = <<>>
    <3>1. lock' = [op |-> "unreg", step |-> "flush", rest |-> <<>>, r |-> NoRelay, d |-> d,
                   gp |-> Readers]
      BY <2>2 DEF Free
    <3> QED BY <3>1, <2>3 DEF LockRec, NoRelay
  <2>5. /\ devst' \in [Devs -> {"listed", "unlisted", "freed"}] /\ devst'[d] = "unlisted"
        /\ \A e \in Devs : e # d => devst'[e] = devst[e]
    BY <2>2, <1>type
  <2>6. Listed' = Listed
    BY <2>2 DEF Listed
  <2>7. RestInv'
    BY <2>2, <2>4, <2>6, <1>rest, ListEmpty DEF RestInv
  <2>8. DevInv'
    BY <2>2, <2>4, <2>5, <2>6, <1>idle, Typed DEF DevInv, Devices, Leaving
  <2> QED BY <2>2, <2>4, <2>5, <2>7, <2>8, <1>sect, <1>type, RelayInvLoop
<1> QED BY <1>1, <1>2, <1>3, <1>4, <1>5, <1>6, <1>7, <1>8

\* A device is gone, or somebody else takes or lets go of one.
LEMMA RelayInvDevices ==
    ASSUME RelayInv, NEW d \in Devs, netdev_run_todo(d) \/ other_handler(d)
    PROVE  RelayInv'
<1>same. UNCHANGED <<loaded, trelay_devs, tr, debugfs, file, refs, peer, frame, lock>>
  BY DEF netdev_run_todo, other_handler
<1>1. /\ Listed' = Listed
      /\ \A x : Devices(x)' = Devices(x) /\ (Joins(x)' <=> Joins(x))
      /\ \A e : (Ours(e)' <=> Ours(e)) /\ (Held(e)' <=> Held(e))
      /\ \A c, e : Handling(c, e)' <=> Handling(c, e)
  BY <1>same DEF Listed, Devices, Joins, Ours, Held, Handling
<1>2. ListInv' /\ SectionInv'
  BY <1>1, <1>same DEF RelayInv, ListInv, SectionInv, Distinct
<1>3. RestInv' /\ PeerInv'
  BY <1>1, <1>same DEF RelayInv, RestInv, PeerInv, Distinct, Elems
<1>4. RefsInv' /\ FrameInv'
  BY <1>1, <1>same DEF RelayInv, RefsInv, FrameInv, FrameOK
<1>dev. devst \in [Devs -> {"listed", "unlisted", "freed"}]
        /\ handler \in [Devs -> {"none", "trelay", "other"}]
  BY Typed
<1>5. CASE netdev_run_todo(d)
  <2>1. /\ devst[d] = "unlisted" /\ ~(lock.op = "unreg" /\ lock.d = d)
        /\ devst' = [devst EXCEPT ![d] = "freed"] /\ handler' = handler
    BY <1>5 DEF netdev_run_todo
  <2>2. /\ devst' \in [Devs -> {"listed", "unlisted", "freed"}]
        /\ \A e \in Devs : e # d => devst'[e] = devst[e]
    BY <2>1, <1>dev
  <2>3. TypeOK'
    BY <2>1, <2>2, <1>same DEF RelayInv, TypeOK
  <2>4. HandlerInv'
    BY <2>1, <1>1 DEF RelayInv, HandlerInv
  <2>5. ASSUME NEW e \in Devs, devst[e] = "listed" \/ Leaving(e)
        PROVE  devst'[e] = devst[e] /\ (Leaving(e) => Leaving(e)')
    BY <2>1, <2>2, <2>5, <1>same DEF Leaving
  <2>6. DevInv'
    <3>1. ASSUME NEW r \in Listed, NEW e \in Devices(r)
          PROVE  devst'[e] = "listed"
                 \/ (Leaving(e)' /\ (lock.step = "flush" \/ r \in Elems(lock.rest)))
      BY <2>5, Typed DEF RelayInv, DevInv
    <3>2. lock.step \in {"debugfs", "sync1", "sync2"} =>
             \A e \in Devices(lock.r) : devst'[e] = "listed" \/ Leaving(e)'
      BY <2>5, Typed DEF RelayInv, DevInv
    <3>3. lock.step \in {"reg2", "undo"} => \A e \in Devices(lock.r) : devst'[e] = "listed"
      BY <2>5, Typed DEF RelayInv, DevInv
    <3> QED BY <3>1, <3>2, <3>3, <1>1, <1>same DEF DevInv, Elems
  <2> QED BY <2>3, <2>4, <2>6, <1>2, <1>3, <1>4 DEF RelayInv
<1>6. CASE other_handler(d)
  <2>1. /\ devst' = devst /\ handler' \in [Devs -> {"none", "trelay", "other"}]
        /\ \A e \in Devs : handler'[e] = "trelay" <=> handler[e] = "trelay"
    BY <1>6, <1>dev DEF other_handler
  <2>2. TypeOK'
    BY <2>1, <1>same DEF RelayInv, TypeOK
  <2>3. HandlerInv'
    BY <2>1, <1>1 DEF RelayInv, HandlerInv
  <2>4. DevInv'
    BY <2>1, <1>1, <1>same DEF RelayInv, DevInv, Leaving, Elems
  <2> QED BY <2>2, <2>3, <2>4, <1>2, <1>3, <1>4 DEF RelayInv
<1> QED BY <1>5, <1>6

\* The loop comes to a relay that has to go: off the list, into the section.
LEMMA RelayInvRemove ==
    ASSUME RelayInv, loop_remove
    PROVE  RelayInv'
<1> DEFINE r == Head(lock.rest)
<1>lk. lock \in LockRec
  BY Typed
<1>1. /\ lock.op \in {"close", "unreg", "exit"} /\ lock.step = "loop" /\ lock.rest # <<>>
      /\ condemned(r) /\ trelay_devs' = list_del(trelay_devs, r) /\ debugfs' = debugfs \ {r}
      /\ UNCHANGED <<loaded, tr, file, devst, refs, handler, peer, frame>>
  BY DEF loop_remove, remove_begin
<1>2. PICK rest : /\ rest = (IF lock.op = "unreg" THEN <<>> ELSE Tail(lock.rest))
                  /\ lock' = [lock EXCEPT !.step = "debugfs", !.r = r, !.rest = rest]
  BY DEF loop_remove
<1>3. /\ r \in Elems(lock.rest) /\ r \in Relays
      /\ Tail(lock.rest) \in Seq(Relays) /\ Distinct(Tail(lock.rest))
      /\ Elems(Tail(lock.rest)) = Elems(lock.rest) \ {r}
  BY <1>1, Typed, ListTail DEF RelayInv, RestInv
<1>4. r \in Listed
  BY <1>3 DEF RelayInv, RestInv
<1>5. trelay_devs' \in Seq(Relays) /\ Distinct(trelay_devs') /\ Elems(trelay_devs') = Listed \ {r}
  BY <1>1, <1>4, Typed, ListDel DEF RelayInv, ListInv
<1>6. Listed' = Listed \ {r}
  BY <1>5 DEF Listed, Elems
<1>7. rest \in Seq(Relays) /\ Distinct(rest) /\ Elems(rest) \subseteq Listed \ {r}
      /\ (lock.op # "unreg" => Elems(rest) = Elems(lock.rest) \ {r})
  BY <1>2, <1>3, ListEmpty DEF RelayInv, RestInv
<1> HIDE DEF r
<1>8. /\ lock' \in LockRec /\ lock'.op = lock.op /\ lock'.step = "debugfs" /\ lock'.r = r
      /\ lock'.rest = rest /\ lock'.d = lock.d
  BY <1>2, <1>3, <1>7, <1>lk DEF LockRec
<1>9. /\ \A x : Devices(x)' = Devices(x) /\ (Joins(x)' <=> Joins(x))
      /\ \A d : (Ours(d)' <=> Ours(d)) /\ (Held(d)' <=> Held(d))
  BY <1>1, <1>4, <1>6, <1>8 DEF Devices, Joins, Ours, Held
<1>10. \A c, d : Handling(c, d)' <=> Handling(c, d)
  BY <1>1, <1>8, <1>9 DEF Handling
<1>11. TypeOK'
  BY <1>1, <1>5, <1>8 DEF RelayInv, TypeOK
<1>12. ListInv'
  BY <1>1, <1>5, <1>6, <1>9 DEF RelayInv, ListInv
<1>13. SectionInv'
  BY <1>1, <1>4, <1>6, <1>8, <1>9 DEF RelayInv, ListInv, SectionInv
<1>14. RestInv'
  BY <1>1, <1>6, <1>7, <1>8 DEF RelayInv, RestInv
<1>15. HandlerInv' /\ RefsInv'
  BY <1>1, <1>9 DEF RelayInv, HandlerInv, RefsInv
<1>16. PeerInv'
  BY <1>1, <1>4, <1>6, <1>8 DEF RelayInv, PeerInv
<1>17. DevInv'
  <2>1. ASSUME NEW q \in Listed \ {r}, NEW d \in Devices(q)
        PROVE  devst[d] = "listed" \/ (Leaving(d) /\ q \in Elems(rest))
    <3>1. devst[d] = "listed" \/ (Leaving(d) /\ q \in Elems(lock.rest))
      BY <1>1 DEF RelayInv, DevInv
    <3>2. Leaving(d) => d \notin Devices(r) /\ lock.op = "unreg" /\ lock.d = d
      BY <1>4 DEF RelayInv, ListInv, Leaving
    <3>3. lock.op = "unreg" => lock.d \in Devices(r)
      BY <1>1 DEF condemned, Devices
    <3> QED BY <3>1, <3>2, <3>3
  <2>2. \A d \in Devices(r) : devst[d] = "listed" \/ Leaving(d)
    BY <1>4 DEF RelayInv, DevInv
  <2> QED BY <2>1, <2>2, <1>1, <1>6, <1>8, <1>9 DEF DevInv, Leaving
<1>18. FrameInv'
  BY <1>1, <1>10 DEF RelayInv, FrameInv, FrameOK
<1> QED BY <1>11, <1>12, <1>13, <1>14, <1>15, <1>16, <1>17, <1>18 DEF RelayInv

\* A step of a section that leaves the list, the relays' devices and the rest
\* of the loop alone: what remains to be shown of it.
LEMMA RelayInvInside ==
    ASSUME RelayInv, UNCHANGED <<loaded, trelay_devs, debugfs, file, devst>>,
           tr' \in [Relays -> RelayRec], \A x \in Listed : tr'[x] = tr[x],
           refs' \in [Devs -> Nat], handler' \in [Devs -> {"none", "trelay", "other"}],
           peer' \in [Devs -> Devs \cup {NoDev}], frame' \in [Cpus -> FrameRec],
           lock' \in LockRec, lock'.op = lock.op, lock'.rest = lock.rest, lock'.d = lock.d,
           lock.step # "flush", lock'.step # "flush",
           lock'.step \notin {"loop", "flush"} =>
               /\ lock'.r = lock.r /\ tr' = tr
               /\ lock.step \in {"debugfs", "sync1", "sync2"} <=> lock'.step \in {"debugfs", "sync1", "sync2"}
               /\ lock.step \in {"reg2", "undo"} <=> lock'.step \in {"reg2", "undo"},
           lock'.step = "loop" => lock.op # "add",
           HandlerInv', PeerInv', RefsInv', FrameInv'
    PROVE  RelayInv'
<1>1. TypeOK'
  BY DEF RelayInv, TypeOK
<1>2. /\ Listed' = Listed
      /\ \A x \in Listed : Devices(x)' = Devices(x) /\ (Joins(x)' <=> Joins(x))
      /\ \A d : Leaving(d)' <=> Leaving(d)
      /\ tr' = tr => \A x : Devices(x)' = Devices(x) /\ (Joins(x)' <=> Joins(x))
  BY DEF Listed, Devices, Joins, Leaving
<1>3. ListInv'
  BY <1>2 DEF RelayInv, ListInv, Distinct
<1>4. RestInv'
  BY <1>2 DEF RelayInv, RestInv, Distinct, Elems
<1>5. SectionInv'
  <2>1. lock'.step \in {"loop", "debugfs", "sync1", "sync2", "reg2", "undo"}
    BY DEF LockRec
  <2>2. CASE lock'.step = "loop"
    BY <2>2, <1>2 DEF RelayInv, SectionInv
  <2>3. CASE lock'.step # "loop"
    <3>1. lock'.r = lock.r /\ tr' = tr
      BY <2>1, <2>3
    <3> QED BY <2>1, <2>3, <3>1, <1>2 DEF RelayInv, SectionInv
  <2> QED BY <2>2, <2>3
<1>6. DevInv'
  <2>1. \A q \in Listed : \A d \in Devices(q) :
            devst[d] = "listed" \/ (Leaving(d) /\ q \in Elems(lock.rest))
    BY DEF RelayInv, DevInv
  <2>2. Elems(lock.rest)' = Elems(lock.rest)
    BY DEF Elems
  <2>3. \A q \in Listed' : \A d \in Devices(q)' :
            devst'[d] = "listed" \/ (Leaving(d)' /\ q \in Elems(lock.rest)')
    BY <2>1, <2>2, <1>2
  <2>4. lock'.step \in {"debugfs", "sync1", "sync2"} =>
            \A d \in Devices(lock.r)' : devst'[d] = "listed" \/ Leaving(d)'
    BY <1>2 DEF RelayInv, DevInv, Devices
  <2>5. lock'.step \in {"reg2", "undo"} => \A d \in Devices(lock.r)' : devst'[d] = "listed"
    BY <1>2 DEF RelayInv, DevInv, Devices
  <2> QED BY <2>3, <2>4, <2>5 DEF DevInv
<1> QED BY <1>1, <1>3, <1>4, <1>5, <1>6 DEF RelayInv

\* The references are dropped, and dev1's handler; a CPU that is in it now is
\* one the grace period waits for.
LEMMA RelayInvPut ==
    ASSUME RelayInv, do_remove_put
    PROVE  RelayInv'
<1> DEFINE r == lock.r
<1>lk. lock \in LockRec
  BY Typed
<1>1. /\ lock.step = "debugfs"
      /\ refs' = [d \in Devs |-> IF d \in Devices(r) THEN refs[d] - 1 ELSE refs[d]]
      /\ handler' = [handler EXCEPT ![tr[r].dev1] = "none"]
      /\ lock' = [lock EXCEPT !.step = "sync1", !.gp = Readers]
      /\ UNCHANGED <<loaded, trelay_devs, tr, debugfs, file, devst, peer, frame>>
  BY DEF do_remove_put, put_devs, Devices
<1>2. /\ r \notin Listed /\ r \in Relays /\ tr[r].dev1 \in Devs /\ tr[r].dev2 \in Devs
      /\ tr[r].dev1 # tr[r].dev2 /\ \A q \in Listed : Devices(r) \cap Devices(q) = {}
  BY <1>1 DEF RelayInv, SectionInv, Joins
<1>3. Readers \subseteq Cpus
  BY DEF Readers
<1>4. /\ lock' \in LockRec /\ lock'.op = lock.op /\ lock'.step = "sync1" /\ lock'.r = r
      /\ lock'.rest = lock.rest /\ lock'.d = lock.d /\ lock'.gp = Readers
  BY <1>1, <1>3, <1>lk DEF LockRec
<1>5. Listed' = Listed /\ \A x : Devices(x)' = Devices(x)
  BY <1>1 DEF Listed, Devices
<1>6. \A d : Held(d) <=> ((\E q \in Listed : d \in Devices(q)) \/ d \in Devices(r))
  BY <1>1 DEF Held
<1>7. \A d : Held(d)' <=> \E q \in Listed : d \in Devices(q)
  BY <1>4, <1>5 DEF Held
<1>8. refs' \in [Devs -> Nat] /\ RefsInv'
  <2>1. ASSUME NEW d \in Devs PROVE refs'[d] \in Nat /\ refs'[d] = IF Held(d)' THEN 1 ELSE 0
    <3>1. refs[d] = IF Held(d) THEN 1 ELSE 0
      BY DEF RelayInv, RefsInv
    <3>2. refs'[d] = IF d \in Devices(r) THEN refs[d] - 1 ELSE refs[d]
      BY <1>1
    <3>3. CASE d \in Devices(r)
      <4>1. Held(d) /\ ~Held(d)'
        BY <3>3, <1>2, <1>6, <1>7
      <4> QED BY <3>1, <3>2, <3>3, <4>1
    <3>4. CASE d \notin Devices(r)
      <4>1. Held(d)' <=> Held(d)
        BY <3>4, <1>6, <1>7
      <4> QED BY <3>1, <3>2, <3>4, <4>1
    <3> QED BY <3>3, <3>4
  <2>2. \A d \in Devs : refs'[d] \in Nat
    BY <2>1
  <2>3. refs' \in [Devs -> Nat]
    BY <2>2, <1>1
  <2> QED BY <2>1, <2>3 DEF RefsInv
<1>9. \A d : Ours(d)' <=> Ours(d) /\ d # tr[r].dev1
  BY <1>1, <1>2, <1>4, <1>5 DEF Ours, Devices
<1>hd. handler \in [Devs -> {"none", "trelay", "other"}]
  BY Typed
<1>10. handler' \in [Devs -> {"none", "trelay", "other"}] /\ HandlerInv'
  BY <1>1, <1>2, <1>9, <1>hd DEF RelayInv, HandlerInv
<1>11. PeerInv'
  BY <1>1, <1>4, <1>5 DEF RelayInv, PeerInv
<1>12. FrameInv'
  <2> SUFFICES ASSUME NEW c \in Cpus PROVE FrameOK(c)'
    BY DEF FrameInv
  <2>1. CASE frame[c].at = "idle"
    BY <2>1, <1>1 DEF FrameOK
  <2>2. CASE frame[c].at # "idle"
    <3>1. c \in lock'.gp
      BY <2>2, <1>4 DEF Readers
    <3>2. \A d : Handling(c, d) => Handling(c, d)'
      BY <3>1, <1>1, <1>4, <1>9 DEF Handling
    <3>3. FrameOK(c)
      BY DEF RelayInv, FrameInv
    <3> QED BY <3>2, <3>3, <1>1 DEF FrameOK
  <2> QED BY <2>1, <2>2
<1> HIDE DEF r
<1> QED BY <1>1, <1>4, <1>8, <1>10, <1>11, <1>12, Typed, RelayInvInside DEF r

\* The grace period is over, so nobody is in dev1's handler, and its peer may
\* go; then the same with dev2's handler.
LEMMA RelayInvSync ==
    ASSUME RelayInv, do_remove_sync1
    PROVE  RelayInv'
<1> DEFINE r == lock.r
<1>lk. lock \in LockRec
  BY Typed
<1>1. /\ lock.step = "sync1" /\ lock.gp = {}
      /\ peer' = [peer EXCEPT ![tr[r].dev1] = NoDev]
      /\ handler' = [handler EXCEPT ![tr[r].dev2] = "none"]
      /\ lock' = [lock EXCEPT !.step = "sync2", !.gp = Readers]
      /\ UNCHANGED <<loaded, trelay_devs, tr, debugfs, file, devst, refs, frame>>
  BY DEF do_remove_sync1
<1>2. /\ r \notin Listed /\ r \in Relays /\ tr[r].dev1 \in Devs /\ tr[r].dev2 \in Devs
      /\ tr[r].dev1 # tr[r].dev2 /\ \A q \in Listed : Devices(r) \cap Devices(q) = {}
  BY <1>1 DEF RelayInv, SectionInv, Joins
<1>3. Readers \subseteq Cpus
  BY DEF Readers
<1>4. /\ lock' \in LockRec /\ lock'.op = lock.op /\ lock'.step = "sync2" /\ lock'.r = r
      /\ lock'.rest = lock.rest /\ lock'.d = lock.d /\ lock'.gp = Readers
  BY <1>1, <1>3, <1>lk DEF LockRec
<1>5. Listed' = Listed /\ \A x : Devices(x)' = Devices(x)
  BY <1>1 DEF Listed, Devices
<1>6. \A d : Held(d)' <=> Held(d)
  BY <1>1, <1>4, <1>5 DEF Held
<1>7. \A d : Ours(d)' <=> Ours(d) /\ d # tr[r].dev2
  BY <1>1, <1>2, <1>4, <1>5 DEF Ours, Devices
<1>8. ~Ours(tr[r].dev1)
  BY <1>1, <1>2 DEF Ours, Devices
<1>hd. handler \in [Devs -> {"none", "trelay", "other"}]
  BY Typed
<1>9. handler' \in [Devs -> {"none", "trelay", "other"}] /\ HandlerInv'
  BY <1>1, <1>2, <1>7, <1>hd DEF RelayInv, HandlerInv
<1>pe. peer \in [Devs -> Devs \cup {NoDev}]
  BY Typed
<1>10. /\ peer' \in [Devs -> Devs \cup {NoDev}]
       /\ \A d \in Devs : d # tr[r].dev1 => peer'[d] = peer[d]
  BY <1>1, <1>pe
<1>11. PeerInv'
  <2>1. ASSUME NEW q \in Listed PROVE peer'[tr[q].dev1] = tr[q].dev2 /\ peer'[tr[q].dev2] = tr[q].dev1
    <3>1. /\ tr[q].dev1 \in Devs /\ tr[q].dev2 \in Devs
          /\ tr[q].dev1 # tr[r].dev1 /\ tr[q].dev2 # tr[r].dev1
      BY <1>2 DEF RelayInv, ListInv, Joins, Devices
    <3> QED BY <3>1, <1>10 DEF RelayInv, PeerInv
  <2>2. peer'[tr[r].dev2] = tr[r].dev1
    BY <1>1, <1>2, <1>10 DEF RelayInv, PeerInv
  <2> QED BY <2>1, <2>2, <1>1, <1>4, <1>5 DEF PeerInv
<1>12. RefsInv'
  BY <1>1, <1>6 DEF RelayInv, RefsInv
<1>13. FrameInv'
  <2> SUFFICES ASSUME NEW c \in Cpus PROVE FrameOK(c)'
    BY DEF FrameInv
  <2>1. CASE frame[c].at = "idle"
    BY <2>1, <1>1 DEF FrameOK
  <2>2. CASE frame[c].at # "idle"
    <3>1. c \in lock'.gp
      BY <2>2, <1>4 DEF Readers
    <3>2. \A d : Handling(c, d) => Ours(d) /\ d # tr[r].dev1
      BY <1>1, <1>8 DEF Handling
    <3>3. \A d : Handling(c, d) => Handling(c, d)' /\ d # tr[r].dev1
      BY <3>1, <3>2, <1>1, <1>4, <1>7 DEF Handling
    <3>4. FrameOK(c)
      BY DEF RelayInv, FrameInv
    <3> QED BY <3>3, <3>4, <1>1, <1>10 DEF FrameOK
  <2> QED BY <2>1, <2>2
<1> HIDE DEF r
<1> QED BY <1>1, <1>4, <1>9, <1>10, <1>11, <1>12, <1>13, Typed, RelayInvInside DEF r

\* The second grace period is over: nothing refers to the relay any more.
LEMMA RelayInvFree ==
    ASSUME RelayInv, do_remove_free
    PROVE  RelayInv'
<1> DEFINE r == lock.r
<1>lk. lock \in LockRec
  BY Typed
<1>1. /\ lock.step = "sync2" /\ lock.gp = {}
      /\ peer' = [peer EXCEPT ![tr[r].dev2] = NoDev]
      /\ tr' = [tr EXCEPT ![r].st = "freed"]
      /\ lock' = [lock EXCEPT !.step = "loop", !.r = NoRelay]
      /\ UNCHANGED <<loaded, trelay_devs, debugfs, file, devst, refs, handler, frame>>
  BY DEF do_remove_free
<1>2. /\ r \notin Listed /\ r \in Relays /\ tr[r].dev1 \in Devs /\ tr[r].dev2 \in Devs
      /\ tr[r].dev1 # tr[r].dev2 /\ \A q \in Listed : Devices(r) \cap Devices(q) = {}
  BY <1>1 DEF RelayInv, SectionInv, Joins
<1>4. /\ lock' \in LockRec /\ lock'.op = lock.op /\ lock'.step = "loop"
      /\ lock'.rest = lock.rest /\ lock'.d = lock.d /\ lock.op # "add"
  BY <1>1, <1>lk DEF LockRec, RelayInv, SectionInv
<1>tr. tr \in [Relays -> RelayRec]
  BY Typed
<1>5. tr' \in [Relays -> RelayRec] /\ \A x \in Relays : x # r => tr'[x] = tr[x]
  BY <1>1, <1>2, <1>tr DEF RelayRec
<1>6. \A x \in Listed : tr'[x] = tr[x]
  BY <1>2, <1>5, Typed
<1>7. Listed' = Listed /\ \A x \in Listed : Devices(x)' = Devices(x)
  BY <1>1, <1>6 DEF Listed, Devices
<1>8. \A d : (Held(d)' <=> Held(d)) /\ (Ours(d)' <=> Ours(d))
  BY <1>1, <1>4, <1>7 DEF Held, Ours
<1>9. ~Ours(tr[r].dev2)
  BY <1>1, <1>2 DEF Ours, Devices
<1>pe. peer \in [Devs -> Devs \cup {NoDev}]
  BY Typed
<1>10. /\ peer' \in [Devs -> Devs \cup {NoDev}]
       /\ \A d \in Devs : d # tr[r].dev2 => peer'[d] = peer[d]
  BY <1>1, <1>pe
<1>11. PeerInv'
  <2>1. ASSUME NEW q \in Listed PROVE peer'[tr[q].dev1] = tr[q].dev2 /\ peer'[tr[q].dev2] = tr[q].dev1
    <3>1. /\ tr[q].dev1 \in Devs /\ tr[q].dev2 \in Devs
          /\ tr[q].dev1 # tr[r].dev2 /\ tr[q].dev2 # tr[r].dev2
      BY <1>2 DEF RelayInv, ListInv, Joins, Devices
    <3> QED BY <3>1, <1>10 DEF RelayInv, PeerInv
  <2> QED BY <2>1, <1>4, <1>6, <1>7 DEF PeerInv
<1>12. HandlerInv' /\ RefsInv'
  BY <1>1, <1>8 DEF RelayInv, HandlerInv, RefsInv
<1>13. FrameInv'
  <2> SUFFICES ASSUME NEW c \in Cpus PROVE FrameOK(c)'
    BY DEF FrameInv
  <2>1. \A d : Handling(c, d) => Handling(c, d)' /\ d # tr[r].dev2
    BY <1>1, <1>4, <1>8, <1>9 DEF Handling
  <2>2. FrameOK(c)
    BY DEF RelayInv, FrameInv
  <2> QED BY <2>1, <2>2, <1>1, <1>10 DEF FrameOK
<1> HIDE DEF r
<1> QED BY <1>1, <1>4, <1>5, <1>6, <1>10, <1>11, <1>12, <1>13, Typed, RelayInvInside

\* A relay is made and its first device gets our handler.
LEMMA RelayInvAdd ==
    ASSUME RelayInv, NEW r \in Relays, NEW n \in Names, NEW d1 \in Devs, NEW d2 \in Devs,
           do_add_begin(r, n, d1, d2)
    PROVE  RelayInv'
<1>1. /\ loaded = "yes" /\ lock.op = "none" /\ tr[r].st = "unused"
      /\ devst[d1] = "listed" /\ devst[d2] = "listed" /\ handler[d1] = "none"
      /\ handler' = [handler EXCEPT ![d1] = "trelay"]
      /\ peer' = [peer EXCEPT ![d1] = d2]
      /\ tr' = [tr EXCEPT ![r] = [st |-> "live", name |-> n, dev1 |-> d1, dev2 |-> d2,
                                  to_remove |-> FALSE]]
      /\ UNCHANGED <<loaded, trelay_devs, debugfs, file, devst, refs, frame>>
  BY DEF do_add_begin
<1>2. lock' = [op |-> "add", step |-> "reg2", rest |-> <<>>, r |-> r, d |-> NoDev, gp |-> {}]
  BY DEF do_add_begin, Free
<1>3. lock' \in LockRec
  BY <1>2 DEF LockRec
<1>4. lock.step = "loop" /\ r \notin Listed
  BY <1>1 DEF RelayInv, SectionInv, ListInv, Joins
<1>tr. tr \in [Relays -> RelayRec]
  BY Typed
<1>5. /\ tr' \in [Relays -> RelayRec] /\ \A x \in Relays : x # r => tr'[x] = tr[x]
      /\ tr'[r].st = "live" /\ tr'[r].dev1 = d1 /\ tr'[r].dev2 = d2
  BY <1>1, <1>tr DEF RelayRec
<1>6. Listed' = Listed /\ \A x \in Listed : tr'[x] = tr[x]
  BY <1>1, <1>4, <1>5, Typed DEF Listed
<1>7. \A x \in Listed : Devices(x)' = Devices(x) /\ (Joins(x)' <=> Joins(x))
  BY <1>6 DEF Devices, Joins
<1>8. /\ \A d : Held(d)' <=> Held(d)
      /\ \A d : Ours(d)' <=> Ours(d) \/ d = d1
      /\ ~Ours(d1)
  <2>1. \A d : Held(d)' <=> Held(d)
    BY <1>2, <1>4, <1>6, <1>7 DEF Held
  <2>2. \A d : Ours(d)' <=> Ours(d) \/ d = d1
    BY <1>2, <1>4, <1>5, <1>6, <1>7 DEF Ours
  <2>3. ~Ours(d1)
    BY <1>1 DEF RelayInv, HandlerInv
  <2> QED BY <2>1, <2>2, <2>3
<1>9. \A q \in Listed : d1 \notin Devices(q)
  BY <1>8 DEF Ours
<1>hp. handler \in [Devs -> {"none", "trelay", "other"}] /\ peer \in [Devs -> Devs \cup {NoDev}]
  BY Typed
<1>10. /\ handler' \in [Devs -> {"none", "trelay", "other"}] /\ peer' \in [Devs -> Devs \cup {NoDev}]
       /\ \A d \in Devs : d # d1 => peer'[d] = peer[d] /\ handler'[d] = handler[d]
       /\ peer'[d1] = d2 /\ handler'[d1] = "trelay"
  BY <1>1, <1>hp
<1>11. TypeOK'
  BY <1>1, <1>3, <1>5, <1>10 DEF RelayInv, TypeOK
<1>12. ListInv'
  BY <1>1, <1>6, <1>7 DEF RelayInv, ListInv
<1>13. SectionInv'
  BY <1>2, <1>4, <1>5, <1>6, <1>7, <1>9 DEF SectionInv
<1>14. RestInv'
  BY <1>1, <1>2, <1>6, ListEmpty DEF RestInv
<1>15. HandlerInv' /\ RefsInv'
  BY <1>1, <1>8, <1>10 DEF RelayInv, HandlerInv, RefsInv
<1>16. PeerInv'
  <2>1. ASSUME NEW q \in Listed PROVE peer'[tr[q].dev1] = tr[q].dev2 /\ peer'[tr[q].dev2] = tr[q].dev1
    <3>1. tr[q].dev1 \in Devs /\ tr[q].dev2 \in Devs /\ tr[q].dev1 # d1 /\ tr[q].dev2 # d1
      BY <1>9 DEF RelayInv, ListInv, Joins, Devices
    <3> QED BY <3>1, <1>10 DEF RelayInv, PeerInv
  <2> QED BY <2>1, <1>2, <1>5, <1>6, <1>10 DEF PeerInv
<1>17. DevInv'
  <2>1. \A q \in Listed : \A d \in Devices(q) : devst[d] = "listed"
    BY <1>1 DEF RelayInv, DevInv, Leaving
  <2>2. \A q \in Listed' : \A d \in Devices(q)' : devst'[d] = "listed"
    BY <2>1, <1>1, <1>6, <1>7
  <2>3. \A d \in Devices(lock.r)' : devst'[d] = "listed"
    BY <1>1, <1>2, <1>5 DEF Devices
  <2> QED BY <2>2, <2>3, <1>2 DEF DevInv
<1>18. FrameInv'
  <2> SUFFICES ASSUME NEW c \in Cpus PROVE FrameOK(c)'
    BY DEF FrameInv
  <2>1. \A d : Handling(c, d) => Handling(c, d)' /\ d # d1
    BY <1>4, <1>8 DEF Handling
  <2>2. FrameOK(c)
    BY DEF RelayInv, FrameInv
  <2> QED BY <2>1, <2>2, <1>1, <1>10 DEF FrameOK
<1> QED BY <1>11, <1>12, <1>13, <1>14, <1>15, <1>16, <1>17, <1>18 DEF RelayInv

\* The second device was free: both are the relay's own, and it is listed.
LEMMA RelayInvFinish ==
    ASSUME RelayInv, do_add_finish
    PROVE  RelayInv'
<1> DEFINE r == lock.r
           d1 == tr[r].dev1
           d2 == tr[r].dev2
<1>1. /\ lock.step = "reg2" /\ handler[d2] = "none"
      /\ handler' = [handler EXCEPT ![d2] = "trelay"]
      /\ peer' = [peer EXCEPT ![d2] = d1]
      /\ refs' = [d \in Devs |-> IF d \in Devices(r) THEN refs[d] + 1 ELSE refs[d]]
      /\ trelay_devs' = Append(trelay_devs, r) /\ debugfs' = debugfs \cup {r}
      /\ UNCHANGED <<loaded, tr, file, devst, frame>>
  BY DEF do_add_finish, busy, hold_devs, Devices
<1>2. lock' = [op |-> "none", step |-> "loop", rest |-> <<>>, r |-> NoRelay, d |-> NoDev, gp |-> {}]
  BY DEF do_add_finish, Free
<1>3. lock' \in LockRec
  BY <1>2 DEF LockRec, NoRelay
<1>4. /\ r \in Relays /\ r \notin Listed /\ tr[r].st = "live" /\ d1 \in Devs /\ d2 \in Devs
      /\ lock.op = "add" /\ loaded = "yes" /\ \A q \in Listed : d1 \notin Devices(q)
  BY <1>1 DEF RelayInv, SectionInv, RestInv
<1>5. Ours(d1) /\ ~Ours(d2)
  BY <1>1, <1>4 DEF RelayInv, HandlerInv, Ours
<1>6. d1 # d2 /\ \A q \in Listed : d2 \notin Devices(q)
  BY <1>5 DEF Ours
<1>7. /\ trelay_devs' \in Seq(Relays) /\ Distinct(trelay_devs')
      /\ Elems(trelay_devs') = Listed \cup {r}
  BY <1>1, <1>4, Typed, ListAppend DEF RelayInv, ListInv
<1>8. Listed' = Listed \cup {r}
  BY <1>7 DEF Listed, Elems
<1>9. \A x : Devices(x)' = Devices(x) /\ (Joins(x)' <=> Joins(x))
  BY <1>1 DEF Devices, Joins
<1>10. Devices(r) = {d1, d2}
  BY DEF Devices
<1> HIDE DEF r, d1, d2
<1>11. \A d : (Held(d)' <=> Held(d) \/ d \in {d1, d2}) /\ (Held(d) => d \notin {d1, d2})
  BY <1>1, <1>2, <1>4, <1>6, <1>8, <1>9, <1>10 DEF Held
<1>12. \A d : Ours(d)' <=> Ours(d) \/ d = d2
  BY <1>1, <1>2, <1>8, <1>9, <1>10 DEF Ours, r, d1, d2
<1>13. refs' \in [Devs -> Nat] /\ RefsInv'
  <2>1. ASSUME NEW d \in Devs PROVE refs'[d] \in Nat /\ refs'[d] = IF Held(d)' THEN 1 ELSE 0
    <3>1. refs[d] = IF Held(d) THEN 1 ELSE 0
      BY DEF RelayInv, RefsInv
    <3>2. refs'[d] = IF d \in {d1, d2} THEN refs[d] + 1 ELSE refs[d]
      BY <1>1, <1>10
    <3>3. CASE d \in {d1, d2}
      <4>1. ~Held(d) /\ Held(d)'
        BY <3>3, <1>11
      <4> QED BY <3>1, <3>2, <3>3, <4>1
    <3>4. CASE d \notin {d1, d2}
      <4>1. Held(d)' <=> Held(d)
        BY <3>4, <1>11
      <4> QED BY <3>1, <3>2, <3>4, <4>1
    <3> QED BY <3>3, <3>4
  <2>2. \A d \in Devs : refs'[d] \in Nat
    BY <2>1
  <2>3. refs' \in [Devs -> Nat]
    BY <2>2, <1>1
  <2> QED BY <2>1, <2>3 DEF RefsInv
<1>hp. handler \in [Devs -> {"none", "trelay", "other"}] /\ peer \in [Devs -> Devs \cup {NoDev}]
  BY Typed
<1>14. /\ handler' \in [Devs -> {"none", "trelay", "other"}] /\ peer' \in [Devs -> Devs \cup {NoDev}]
       /\ \A d \in Devs : d # d2 => peer'[d] = peer[d] /\ handler'[d] = handler[d]
       /\ peer'[d2] = d1 /\ handler'[d2] = "trelay"
  BY <1>1, <1>4, <1>hp
<1>15. TypeOK'
  <2>1. debugfs' \subseteq Relays
    BY <1>1, <1>4 DEF RelayInv, TypeOK
  <2> QED BY <2>1, <1>1, <1>3, <1>7, <1>13, <1>14 DEF RelayInv, TypeOK
<1>16. ListInv'
  <2>1. Joins(r)
    BY <1>4, <1>6 DEF Joins, d1, d2
  <2>2. \A q \in Listed : Devices(r) \cap Devices(q) = {} /\ Devices(q) \cap Devices(r) = {}
    BY <1>4, <1>6, <1>10
  <2>3. \A q \in Listed' : Joins(q)'
    BY <2>1, <1>8, <1>9 DEF RelayInv, ListInv
  <2>4. \A q, p \in Listed' : q # p => Devices(q)' \cap Devices(p)' = {}
    BY <2>2, <1>8, <1>9 DEF RelayInv, ListInv
  <2>5. debugfs' = Listed'
    BY <1>1, <1>8 DEF RelayInv, ListInv
  <2> QED BY <2>3, <2>4, <2>5, <1>7 DEF ListInv
<1>17. SectionInv'
  BY <1>2 DEF SectionInv
<1>18. RestInv'
  BY <1>1, <1>2, <1>4, <1>8, ListEmpty DEF RestInv
<1>19. HandlerInv'
  BY <1>12, <1>14 DEF RelayInv, HandlerInv
<1>20. PeerInv'
  <2>1. ASSUME NEW q \in Listed PROVE peer'[tr[q].dev1] = tr[q].dev2 /\ peer'[tr[q].dev2] = tr[q].dev1
    <3>1. tr[q].dev1 \in Devs /\ tr[q].dev2 \in Devs /\ tr[q].dev1 # d2 /\ tr[q].dev2 # d2
      BY <1>6 DEF RelayInv, ListInv, Joins, Devices
    <3> QED BY <3>1, <1>14 DEF RelayInv, PeerInv
  <2>2. peer'[tr[r].dev1] = tr[r].dev2 /\ peer'[tr[r].dev2] = tr[r].dev1
    <3>1. peer[d1] = d2
      BY <1>1 DEF RelayInv, PeerInv, d1, d2, r
    <3>2. peer'[d1] = d2 /\ peer'[d2] = d1
      BY <3>1, <1>4, <1>6, <1>14
    <3> QED BY <3>2 DEF d1, d2
  <2> QED BY <2>1, <2>2, <1>1, <1>2, <1>8 DEF PeerInv
<1>21. DevInv'
  <2>1. \A q \in Listed : \A d \in Devices(q) : devst[d] = "listed"
    BY <1>4 DEF RelayInv, DevInv, Leaving
  <2>2. \A d \in Devices(r) : devst[d] = "listed"
    BY <1>1 DEF RelayInv, DevInv, r
  <2>3. \A q \in Listed' : \A d \in Devices(q)' : devst'[d] = "listed"
    BY <2>1, <2>2, <1>1, <1>8, <1>9
  <2> QED BY <2>3, <1>2 DEF DevInv
<1>22. FrameInv'
  <2> SUFFICES ASSUME NEW c \in Cpus PROVE FrameOK(c)'
    BY DEF FrameInv
  <2>1. \A d : Handling(c, d) => Handling(c, d)' /\ d # d2
    BY <1>1, <1>5, <1>12 DEF Handling
  <2>2. FrameOK(c)
    BY DEF RelayInv, FrameInv
  <2> QED BY <2>1, <2>2, <1>1, <1>14 DEF FrameOK
<1> QED BY <1>13, <1>15, <1>16, <1>17, <1>18, <1>19, <1>20, <1>21, <1>22 DEF RelayInv

\* The second device was not free: the first one's handler comes off again.
LEMMA RelayInvBusy ==
    ASSUME RelayInv, do_add_busy
    PROVE  RelayInv'
<1> DEFINE r == lock.r
<1>lk. lock \in LockRec
  BY Typed
<1>1. /\ lock.step = "reg2"
      /\ handler' = [handler EXCEPT ![tr[r].dev1] = "none"]
      /\ lock' = [lock EXCEPT !.step = "undo", !.gp = Readers]
      /\ UNCHANGED <<loaded, trelay_devs, tr, debugfs, file, devst, refs, peer, frame>>
  BY DEF do_add_busy
<1>2. /\ r \in Relays /\ tr[r].dev1 \in Devs /\ \A q \in Listed : tr[r].dev1 \notin Devices(q)
  BY <1>1 DEF RelayInv, SectionInv
<1>3. Readers \subseteq Cpus
  BY DEF Readers
<1>4. /\ lock' \in LockRec /\ lock'.op = lock.op /\ lock'.step = "undo" /\ lock'.r = r
      /\ lock'.rest = lock.rest /\ lock'.d = lock.d /\ lock'.gp = Readers
  BY <1>1, <1>3, <1>lk DEF LockRec
<1>5. Listed' = Listed /\ \A x : Devices(x)' = Devices(x)
  BY <1>1 DEF Listed, Devices
<1>6. \A d : (Held(d)' <=> Held(d)) /\ (Ours(d)' <=> Ours(d) /\ d # tr[r].dev1)
  BY <1>1, <1>2, <1>4, <1>5 DEF Held, Ours
<1>hd. handler \in [Devs -> {"none", "trelay", "other"}]
  BY Typed
<1>7. handler' \in [Devs -> {"none", "trelay", "other"}] /\ HandlerInv'
  BY <1>1, <1>2, <1>6, <1>hd DEF RelayInv, HandlerInv
<1>8. PeerInv' /\ RefsInv'
  BY <1>1, <1>4, <1>5, <1>6 DEF RelayInv, PeerInv, RefsInv
<1>9. FrameInv'
  <2> SUFFICES ASSUME NEW c \in Cpus PROVE FrameOK(c)'
    BY DEF FrameInv
  <2>1. CASE frame[c].at = "idle"
    BY <2>1, <1>1 DEF FrameOK
  <2>2. CASE frame[c].at # "idle"
    <3>1. c \in lock'.gp
      BY <2>2, <1>4 DEF Readers
    <3>2. \A d : Handling(c, d) => Handling(c, d)'
      BY <3>1, <1>1, <1>4, <1>6 DEF Handling
    <3>3. FrameOK(c)
      BY DEF RelayInv, FrameInv
    <3> QED BY <3>2, <3>3, <1>1 DEF FrameOK
  <2> QED BY <2>1, <2>2
<1> HIDE DEF r
<1> QED BY <1>1, <1>4, <1>7, <1>8, <1>9, Typed, RelayInvInside DEF r

\* The grace period is over, and the relay that was not made is freed.
LEMMA RelayInvUndo ==
    ASSUME RelayInv, do_add_undo
    PROVE  RelayInv'
<1> DEFINE r == lock.r
<1>1. /\ lock.step = "undo" /\ lock.gp = {}
      /\ peer' = [peer EXCEPT ![tr[r].dev1] = NoDev]
      /\ tr' = [tr EXCEPT ![r].st = "freed"]
      /\ UNCHANGED <<loaded, trelay_devs, debugfs, file, devst, refs, handler, frame>>
  BY DEF do_add_undo
<1>2. lock' = [op |-> "none", step |-> "loop", rest |-> <<>>, r |-> NoRelay, d |-> NoDev, gp |-> {}]
  BY DEF do_add_undo, Free
<1>3. lock' \in LockRec
  BY <1>2 DEF LockRec, NoRelay
<1>4. /\ r \in Relays /\ r \notin Listed /\ tr[r].dev1 \in Devs /\ lock.op = "add" /\ loaded = "yes"
      /\ \A q \in Listed : tr[r].dev1 \notin Devices(q)
  BY <1>1 DEF RelayInv, SectionInv, RestInv
<1>tr. tr \in [Relays -> RelayRec]
  BY Typed
<1>5. tr' \in [Relays -> RelayRec] /\ \A x \in Relays : x # r => tr'[x] = tr[x]
  BY <1>1, <1>4, <1>tr DEF RelayRec
<1>6. Listed' = Listed /\ \A x \in Listed : tr'[x] = tr[x]
  BY <1>1, <1>4, <1>5, Typed DEF Listed
<1>7. \A x \in Listed : Devices(x)' = Devices(x) /\ (Joins(x)' <=> Joins(x))
  BY <1>6 DEF Devices, Joins
<1>8. /\ \A d : (Held(d)' <=> Held(d)) /\ (Ours(d)' <=> Ours(d))
      /\ ~Ours(tr[r].dev1)
  BY <1>1, <1>2, <1>4, <1>6, <1>7 DEF Held, Ours
<1>pe. peer \in [Devs -> Devs \cup {NoDev}]
  BY Typed
<1>9. /\ peer' \in [Devs -> Devs \cup {NoDev}]
      /\ \A d \in Devs : d # tr[r].dev1 => peer'[d] = peer[d]
  BY <1>1, <1>pe
<1>10. TypeOK'
  BY <1>1, <1>3, <1>5, <1>9 DEF RelayInv, TypeOK
<1>11. ListInv'
  BY <1>1, <1>6, <1>7 DEF RelayInv, ListInv
<1>12. SectionInv'
  BY <1>2 DEF SectionInv
<1>13. RestInv'
  BY <1>1, <1>2, <1>4, <1>6, ListEmpty DEF RestInv
<1>14. HandlerInv' /\ RefsInv'
  BY <1>1, <1>8 DEF RelayInv, HandlerInv, RefsInv
<1>15. PeerInv'
  <2>1. ASSUME NEW q \in Listed PROVE peer'[tr[q].dev1] = tr[q].dev2 /\ peer'[tr[q].dev2] = tr[q].dev1
    <3>1. /\ tr[q].dev1 \in Devs /\ tr[q].dev2 \in Devs
          /\ tr[q].dev1 # tr[r].dev1 /\ tr[q].dev2 # tr[r].dev1
      BY <1>4 DEF RelayInv, ListInv, Joins, Devices
    <3> QED BY <3>1, <1>9 DEF RelayInv, PeerInv
  <2> QED BY <2>1, <1>2, <1>6 DEF PeerInv
<1>16. DevInv'
  <2>1. \A q \in Listed : \A d \in Devices(q) : devst[d] = "listed"
    BY <1>4 DEF RelayInv, DevInv, Leaving
  <2>2. \A q \in Listed' : \A d \in Devices(q)' : devst'[d] = "listed"
    BY <2>1, <1>1, <1>6, <1>7
  <2> QED BY <2>2, <1>2 DEF DevInv
<1>17. FrameInv'
  <2> SUFFICES ASSUME NEW c \in Cpus PROVE FrameOK(c)'
    BY DEF FrameInv
  <2>1. \A d : Handling(c, d) => Handling(c, d)' /\ d # tr[r].dev1
    BY <1>1, <1>8 DEF Handling
  <2>2. FrameOK(c)
    BY DEF RelayInv, FrameInv
  <2> QED BY <2>1, <2>2, <1>1, <1>9 DEF FrameOK
<1> QED BY <1>10, <1>11, <1>12, <1>13, <1>14, <1>15, <1>16, <1>17 DEF RelayInv

LEMMA RelayInvStep == RelayInv /\ [Next]_vars => RelayInv'
<1> SUFFICES ASSUME RelayInv, [Next]_vars PROVE RelayInv'
  OBVIOUS
<1>1. CASE UNCHANGED vars
  <2>1. UNCHANGED <<loaded, trelay_devs, debugfs, devst, refs, handler, peer, frame, lock>>
        /\ file' \in [Files -> FileRec] /\ tr' = tr /\ tr' \in [Relays -> RelayRec]
    BY <1>1, Typed DEF vars
  <2> QED BY <2>1, RelayInvFiles
<1>2. CASE Section
  BY <1>2, RelayInvPut, RelayInvSync, RelayInvFree, RelayInvRemove, RelayInvLoopStep,
     RelayInvFinish, RelayInvBusy, RelayInvUndo DEF Section
<1>3. ASSUME NEW c \in Cpus,
             trelay_handle_frame(c) \/ frame_xmit(c) \/ \E d \in Devs : frame_begin(c, d)
      PROVE  RelayInv'
  BY <1>3, RelayInvFrameStep
<1>4. ASSUME NEW f \in Files,
             \/ write_enter(f) \/ trelay_remove_write(f) \/ close_file(f)
             \/ trelay_remove_release(f) \/ \E r \in Relays : trelay_open(f, r)
      PROVE  RelayInv'
  BY <1>4, RelayInvFileStep, RelayInvLoopStep
<1>5. ASSUME NEW d \in Devs, unregister_begin(d) \/ netdev_run_todo(d) \/ other_handler(d)
      PROVE  RelayInv'
  BY <1>5, RelayInvDevices, RelayInvLoopStep
<1>6. ASSUME NEW r \in Relays, NEW l \in Lines, do_add_begin(r, l[1], l[2], l[3])
      PROVE  RelayInv'
  <2>1. l[1] \in Names /\ l[2] \in Devs /\ l[3] \in Devs
    BY LinesAssumption
  <2> QED BY <1>6, <2>1, RelayInvAdd
<1>7. CASE trelay_exit \/ trelay_exit_rest \/ trelay_init
  BY <1>7, RelayInvLoopStep
<1> QED BY <1>1, <1>2, <1>3, <1>4, <1>5, <1>6, <1>7 DEF Next

LEMMA RelayInvHolds == Spec => []RelayInv
<1> QED BY RelayInvInit, RelayInvStep, PTL DEF Spec

\* Every variable of the relay module keeps its type: no reference count goes
\* below zero, and the section never leaves its steps (trelay.c).
THEOREM RelayTypeCorrect == Spec => []TypeOK
<1>1. RelayInv => TypeOK
  BY DEF RelayInv
<1> QED BY <1>1, RelayInvHolds, PTL

\* A frame that trelay_handle_frame sends on is sent on a device that exists,
\* although trelay_do_remove gives the references back before it takes the
\* handlers off.
THEOREM PeersAlive == Spec => []PeerAlive
<1>1. ASSUME RelayInv, NEW c \in Cpus, frame[c].at = "xmit" PROVE devst[frame[c].dev] # "freed"
  <2>1. PICK d \in Devs : Handling(c, d) /\ frame[c].dev = peer[d]
    BY <1>1 DEF RelayInv, FrameInv, FrameOK
  <2>2. CASE \E r \in Listed : d \in Devices(r)
    <3>1. PICK r \in Listed : d \in Devices(r)
      BY <2>2
    <3>2. peer[d] \in Devices(r)
      BY <3>1, <1>1 DEF RelayInv, PeerInv, Devices
    <3> QED BY <3>2, <2>1, <1>1 DEF RelayInv, DevInv, Leaving
  <2>3. CASE ~ \E r \in Listed : d \in Devices(r)
    <3>1. /\ lock.step \in {"debugfs", "sync1", "sync2", "reg2", "undo"}
          /\ \/ lock.step \in {"debugfs", "sync1", "reg2", "undo"} /\ d = tr[lock.r].dev1
             \/ lock.step \in {"debugfs", "sync1", "sync2"} /\ d = tr[lock.r].dev2
      BY <2>1, <2>3 DEF Handling, Ours, Devices
    <3>2. peer[d] \in Devices(lock.r)
      BY <3>1, <1>1 DEF RelayInv, PeerInv, Devices
    <3> QED BY <3>1, <3>2, <2>1, <1>1 DEF RelayInv, DevInv, Leaving
  <2> QED BY <2>2, <2>3
<1>2. RelayInv => PeerAlive
  BY <1>1 DEF PeerAlive
<1> QED BY <1>2, RelayInvHolds, PTL

\* Whenever RTNL is free, handlers, peers and references say what the list
\* says, after any sequence of additions that succeed or fail half way, of
\* removals, unregistrations and unloading (trelay_do_add, trelay_do_remove).
THEOREM RelaysConsistent == Spec => []Consistent
<1>1. ASSUME RelayInv, lock.op = "none", NEW d \in Devs
      PROVE  LET on == {r \in Listed : d \in {tr[r].dev1, tr[r].dev2}}
             IN  /\ Cardinality(on) <= 1
                 /\ refs[d] = Cardinality(on)
                 /\ handler[d] = "trelay" <=> on # {}
                 /\ \A r \in on : /\ {d, peer[d]} = {tr[r].dev1, tr[r].dev2}
                                  /\ d # peer[d]
                                  /\ devst[d] = "listed"
  <2> DEFINE on == {r \in Listed : d \in {tr[r].dev1, tr[r].dev2}}
  <2>1. lock.step = "loop"
    BY <1>1 DEF RelayInv, SectionInv
  <2>2. /\ Held(d) <=> on # {}
        /\ Ours(d) <=> on # {}
    BY <2>1 DEF Held, Ours, Devices
  <2>3. (handler[d] = "trelay" <=> on # {}) /\ refs[d] = IF on # {} THEN 1 ELSE 0
    BY <2>2, <1>1 DEF RelayInv, HandlerInv, RefsInv
  <2>4. \A r, q \in on : r = q
    BY <1>1 DEF RelayInv, ListInv, Devices
  <2>5. Cardinality(on) = IF on # {} THEN 1 ELSE 0
    <3>1. CASE on = {}
      BY <3>1, FS_EmptySet
    <3>2. CASE on # {}
      <4>1. PICK r : on = {r}
        BY <3>2, <2>4
      <4> QED BY <3>2, <4>1, FS_Singleton
    <3> QED BY <3>1, <3>2
  <2>6. ASSUME NEW r \in on
        PROVE  /\ {d, peer[d]} = {tr[r].dev1, tr[r].dev2} /\ d # peer[d] /\ devst[d] = "listed"
    <3>1. /\ r \in Listed /\ tr[r].dev1 # tr[r].dev2 /\ d \in Devices(r)
          /\ peer[tr[r].dev1] = tr[r].dev2 /\ peer[tr[r].dev2] = tr[r].dev1
      BY <1>1 DEF RelayInv, ListInv, Joins, PeerInv, Devices
    <3>2. devst[d] = "listed"
      BY <3>1, <1>1 DEF RelayInv, DevInv, Leaving
    <3> QED BY <3>1, <3>2 DEF Devices
  <2>7. Cardinality(on) <= 1 /\ refs[d] = Cardinality(on)
    BY <2>3, <2>5
  <2> QED BY <2>3, <2>6, <2>7, Zenon
<1>2. RelayInv => Consistent
  BY <1>1 DEF Consistent
<1> QED BY <1>2, RelayInvHolds, PTL

\* When trelay_exit returns no relay is left, no CPU is in the handler, and no
\* file can be entered.
THEOREM ExitIsClean == Spec => []Unloadable
<1>1. ASSUME RelayInv, loaded = "no", lock.op = "none"
      PROVE  trelay_devs = <<>> /\ Readers = {} /\ debugfs = {}
  <2>1. Listed = {} /\ lock.step = "loop"
    BY <1>1 DEF RelayInv, RestInv, SectionInv
  <2>2. trelay_devs = <<>>
    BY <2>1, <1>1, Typed, ListEmpty
  <2>3. debugfs = {}
    BY <2>1, <1>1 DEF RelayInv, ListInv
  <2>4. \A c, d : ~Handling(c, d)
    BY <2>1 DEF Handling, Ours
  <2>5. ASSUME NEW c \in Cpus PROVE frame[c].at = "idle"
    BY <2>4, <1>1, Typed DEF RelayInv, FrameInv, FrameOK, FrameRec
  <2> QED BY <2>2, <2>3, <2>5 DEF Readers
<1>2. RelayInv => Unloadable
  BY <1>1 DEF Unloadable
<1> QED BY <1>2, RelayInvHolds, PTL
=============================================================================
