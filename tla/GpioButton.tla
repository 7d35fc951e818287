----------------------------- MODULE GpioButton -----------------------------
(***************************************************************************)
(* gpio-button-hotplug: one device with its buttons and switches, from     *)
(* probe to remove, under either of its two drivers.  "gpio-keys" samples  *)
(* a line some time after an interrupt of it, with a delayed work item per *)
(* button; "gpio-keys-polled" samples all lines in a work item that queues *)
(* itself again.  A change is handed to user space by a work item per      *)
(* event on the system workqueue.                                          *)
(*                                                                         *)
(* Time passes between actions: a delay is over when the work item runs.   *)
(* Env says what else happens:                                             *)
(*   "nomem"     allocating an event, or its message, fails                *)
(*   "irqfails"  an interrupt cannot be requested                          *)
(*   "reorder"   two workers of the workqueue overtake each other          *)
(*   "early"     a delayed work item runs before the interrupt that        *)
(*               gpio_keys_probe requests after scheduling it is there     *)
(***************************************************************************)
EXTENDS Integers, Sequences, FiniteSets, SequencesExt

CONSTANTS Nodes,      \* the children of the device tree node, in order:
                      \* [avail, irq, gpio, toirq : BOOLEAN, type : Types]
          Polled,     \* the drivers: a subset of BOOLEAN
          Threshold,  \* of a polled button: debounce_interval / poll_interval
          MaxEdges,   \* bound: changes of the lines
          Env         \* see above

Types == {"key", "switch"}

ASSUME NodesAssumption ==
    Nodes \in Seq([avail : BOOLEAN, irq : BOOLEAN, gpio : BOOLEAN,
                   toirq : BOOLEAN, type : Types])
ASSUME PolledAssumption    == Polled \subseteq BOOLEAN /\ Polled # {}
ASSUME ThresholdAssumption == Threshold \in Nat
ASSUME EdgesAssumption     == MaxEdges \in Nat
ASSUME EnvAssumption == Env \subseteq {"nomem", "irqfails", "reorder", "early"}

Lines == 1..Len(Nodes)

\* gpio_keys_get_devtree_pdata: a button for each child that is available,
\* in the order of the children.
Available == {n \in Lines : Nodes[n].avail}
nbuttons  == Cardinality(Available)
Buttons   == 1..nbuttons

pdata == CHOOSE f \in [Buttons -> Available] : \A b, c \in Buttons : b < c => f[b] < f[c]

node(b) == Nodes[pdata[b]]

\* Work items: one of the device (polled) or one per button.
Device == 0
Items  == {Device} \cup Buttons

NULL    == 0
Unknown == -1
Nobody  == 0

VARIABLES
    polled,   \* bdev->polled
    phase,    \* how far probe or remove is
    i,        \* the button the loop of probe or remove is at
    prev,     \* the child of_get_next_child returned last
    gpiod,    \* gpiod[b]: the child whose line was taken for b
    last,     \* last[b]: last_state
    count,    \* count[b]
    irq,      \* irq[b]: "none", "on", "off" once disabled
    level,    \* level[n]: the line of child n
    edge,     \* edge[b]: an edge of b's line waits for its handler
    work,     \* work[w]: "idle", "pending", "cancelling"
    at,       \* at[w]: the button a running work item is at
    smp,      \* smp[w]: the value it has read
    evq,      \* the events created and not yet broadcast
    got,      \* got[b]: what user space was last told of b
    edges,    \* history: changes of lines so far
    lost,     \* history: buttons an event of which was dropped
    same      \* history: same[b]: the last sample of a polled b, and how many
              \* before it had its value without a break

bdata == <<gpiod, last, count, irq>>
wq    == <<work, at, smp>>
hist  == <<edges, lost, same>>
vars  == <<polled, phase, i, prev, bdata, level, edge, wq, evq, got, hist>>

Bits == {0, 1}

TypeOK ==
    /\ polled \in Polled
    /\ phase \in {"probe", "failed", "start", "request", "up",
                  "disable", "cancel", "sync", "release", "gone"}
    /\ i \in 0..(nbuttons + 1) /\ prev \in {NULL} \cup Lines
    /\ gpiod \in [Buttons -> {NULL} \cup Lines]
    /\ last \in [Buttons -> {Unknown} \cup Bits]
    /\ count \in [Buttons -> 0..Threshold]
    /\ irq \in [Buttons -> {"none", "on", "off"}]
    /\ level \in [Lines -> Bits] /\ edge \in [Buttons -> BOOLEAN]
    /\ work \in [Items -> {"idle", "pending", "cancelling"}]
    /\ at \in [Items -> {Nobody} \cup Buttons]
    /\ smp \in [Items -> {Unknown} \cup Bits]
    /\ evq \in Seq(Buttons \X Bits) /\ got \in [Buttons -> {Unknown} \cup Bits]
    /\ edges \in 0..MaxEdges /\ lost \subseteq Buttons
    /\ same \in [Buttons -> [v : {Unknown} \cup Bits, n : 0..Threshold]]

Init ==
    /\ polled \in Polled
    /\ phase = IF nbuttons = 0 THEN "failed" ELSE "probe"
    /\ i = 1 /\ prev = NULL
    /\ gpiod = [b \in Buttons |-> NULL]
    /\ last = [b \in Buttons |-> 0]
    /\ count = [b \in Buttons |-> 0]
    /\ irq = [b \in Buttons |-> "none"]
    /\ level \in {f \in [Lines -> Bits] : \A n \in Lines : Nodes[n].gpio \/ f[n] = 0}
    /\ edge = [b \in Buttons |-> FALSE]
    /\ work = [w \in Items |-> "idle"]
    /\ at = [w \in Items |-> Nobody]
    /\ smp = [w \in Items |-> Unknown]
    /\ evq = <<>> /\ got = [b \in Buttons |-> Unknown]
    /\ edges = 0 /\ lost = {} /\ same = [b \in Buttons |-> [v |-> Unknown, n |-> 0]]

-----------------------------------------------------------------------------
(* Probe.                                                                  *)

\* of_get_next_child: the children that are not available are among them.
next_child(p) == p + 1

\* A button with an interrupt of its own is skipped: the structure stays
\* zero, the child is not taken.
probe_skip ==
    /\ phase = "probe" /\ i \in Buttons /\ node(i).irq
    /\ i' = i + 1
    /\ UNCHANGED <<polled, phase, prev, bdata, level, edge, wq, evq, got, hist>>

\* The others take the line of the next child, or probe fails.
probe_gpio ==
    /\ phase = "probe" /\ i \in Buttons /\ ~node(i).irq
    /\ prev' = next_child(prev)
    /\ IF Nodes[prev'].gpio
       THEN /\ gpiod' = [gpiod EXCEPT ![i] = prev']
            /\ last'  = [last EXCEPT ![i] = Unknown]
            /\ i' = i + 1
            /\ UNCHANGED phase
       ELSE /\ phase' = "failed"
            /\ UNCHANGED <<gpiod, last, i>>
    /\ UNCHANGED <<polled, count, irq, level, edge, wq, evq, got, hist>>

\* The end of gpio_keys_button_probe; the polled driver queues its work.
probe_done ==
    /\ phase = "probe" /\ i \notin Buttons
    /\ i' = 1
    /\ IF polled
       THEN phase' = "up" /\ work' = [work EXCEPT ![Device] = "pending"]
       ELSE phase' = "start" /\ UNCHANGED work
    /\ UNCHANGED <<polled, prev, bdata, level, edge, at, smp, evq, got, hist>>

\* gpio_keys_probe, one turn of its loop in two steps: the first sampling
\* is scheduled, then the interrupt is requested.
has_irq(b) == node(b).irq \/ Nodes[gpiod[b]].toirq

irq_start ==
    /\ phase = "start" /\ i \in Buttons
    /\ IF has_irq(i)
       THEN phase' = "request" /\ work' = [work EXCEPT ![i] = "pending"] /\ UNCHANGED i
       ELSE i' = i + 1 /\ UNCHANGED <<phase, work>>
    /\ UNCHANGED <<polled, prev, bdata, level, edge, at, smp, evq, got, hist>>

irq_request ==
    /\ phase = "request"
    /\ \/ irq' = [irq EXCEPT ![i] = "on"]
       \/ "irqfails" \in Env /\ UNCHANGED irq
    /\ phase' = "start" /\ i' = i + 1
    /\ UNCHANGED <<polled, prev, gpiod, last, count, level, edge, wq, evq, got, hist>>

irq_started ==
    /\ phase = "start" /\ i \notin Buttons
    /\ phase' = "up" /\ i' = 1
    /\ UNCHANGED <<polled, prev, bdata, level, edge, wq, evq, got, hist>>

-----------------------------------------------------------------------------
(* Lines and interrupts.                                                   *)

\* The child whose line raises b's interrupt.
source(b) == IF node(b).irq THEN pdata[b] ELSE gpiod[b]

change(n) ==
    /\ edges < MaxEdges
    /\ edges' = edges + 1
    /\ level' = [level EXCEPT ![n] = 1 - @]
    /\ edge' = [b \in Buttons |-> edge[b] \/ (irq[b] = "on" /\ source(b) = n)]
    /\ UNCHANGED <<polled, phase, i, prev, bdata, wq, evq, got, lost, same>>

\* Queueing an item that is being cancelled does nothing.
queue(w) == [work EXCEPT ![w] = IF @ = "cancelling" THEN @ ELSE "pending"]

\* Mutant: an item that runs is not queued.
mod_work_if_idle(b) == IF at[b] = Nobody THEN queue(b) ELSE work

\* What mod_delayed_work does for b: a running item is queued once more.
mod_work(b) == queue(b)

button_handle_irq(b) ==
    /\ edge[b] /\ irq[b] = "on"
    /\ edge' = [edge EXCEPT ![b] = FALSE]
    /\ work' = mod_work(b)
    /\ UNCHANGED <<polled, phase, i, prev, bdata, level, at, smp, evq, got, hist>>

-----------------------------------------------------------------------------
(* Sampling.                                                               *)

\* A work item starts; no item runs on two workers at once.
run_begin(w) ==
    /\ work[w] = "pending" /\ at[w] = Nobody
    /\ ~(phase = "request" /\ i = w /\ "early" \notin Env)
    /\ work' = [work EXCEPT ![w] = "idle"]
    /\ at' = [at EXCEPT ![w] = IF w = Device THEN 1 ELSE w]
    /\ UNCHANGED <<polled, phase, i, prev, bdata, level, edge, smp, evq, got, hist>>

\* gpio_button_get_value; a NULL descriptor reads as 0.
get_value(b) == IF gpiod[b] = NULL THEN 0 ELSE level[gpiod[b]]

\* History: the run of equal samples s goes on with v, or ends.
run_of(s, v) ==
    [v |-> v, n |-> IF s.v # v THEN 0 ELSE IF s.n < Threshold THEN s.n + 1 ELSE s.n]

sample(w) ==
    LET b == at[w]
    IN  /\ b # Nobody /\ smp[w] = Unknown
        /\ w = Device => gpiod[b] # NULL
        /\ smp' = [smp EXCEPT ![w] = get_value(b)]
        /\ same' = IF polled THEN [same EXCEPT ![b] = run_of(@, get_value(b))] ELSE same
        /\ UNCHANGED <<polled, phase, i, prev, bdata, level, edge, work, at, evq, got, edges, lost>>

\* The next button of the poll, or the end of the work item; the poll queues
\* itself again.
go_on(w) ==
    LET more == w = Device /\ at[w] < nbuttons
    IN  /\ at'   = [at EXCEPT ![w] = IF more THEN @ + 1 ELSE Nobody]
        /\ work' = IF w = Device /\ ~more THEN queue(w) ELSE work

poll_skip ==
    /\ at[Device] # Nobody /\ gpiod[at[Device]] = NULL
    /\ go_on(Device)
    /\ UNCHANGED <<polled, phase, i, prev, bdata, level, edge, smp, evq, got, hist>>

\* What it takes to report a change: threshold samples before this one.
threshold == IF polled THEN Threshold ELSE 0

\* Mutant: one sample more.
bouncing_incl(b) == count[b] <= threshold

bouncing(b) == count[b] < threshold

\* Mutant: every first state is advertised.
silent_never(b, v) == FALSE

\* The first sample of a key that is not pressed is kept and not advertised.
silent(b, v) == last[b] = Unknown /\ node(b).type = "key" /\ v = 0

\* Mutant: the counter runs on.
reset_count_not(b) == count[b]

\* The counter of a button whose sample v agrees with last_state.
reset_count(b) == 0

\* button_hotplug_create_event: its failure is ignored.
create_event(b, v) ==
    \/ evq' = Append(evq, <<b, v>>) /\ UNCHANGED lost
    \/ "nomem" \in Env /\ lost' = lost \cup {b} /\ UNCHANGED evq

set_state(b, v) == last' = [last EXCEPT ![b] = v]

gpio_keys_handle_button(w) ==
    LET b == at[w]
        v == smp[w]
    IN  /\ v # Unknown
        /\ \/ /\ last[b] = v
              /\ count' = [count EXCEPT ![b] = reset_count(b)]
              /\ UNCHANGED <<last, evq, lost>>
           \/ /\ silent(b, v)
              /\ set_state(b, v)
              /\ count' = [count EXCEPT ![b] = 0]
              /\ UNCHANGED <<evq, lost>>
           \/ /\ last[b] # v /\ ~silent(b, v) /\ bouncing(b)
              /\ count' = [count EXCEPT ![b] = @ + 1]
              /\ UNCHANGED <<last, evq, lost>>
           \/ /\ last[b] # v /\ ~silent(b, v) /\ ~bouncing(b)
              /\ create_event(b, v)
              /\ set_state(b, v)
              /\ count' = [count EXCEPT ![b] = 0]
        /\ go_on(w)
        /\ smp' = [smp EXCEPT ![w] = Unknown]
        /\ UNCHANGED <<polled, phase, i, prev, gpiod, irq, level, edge, got, edges, same>>

\* button_hotplug_work of the k-th event that waits.
button_hotplug_work(k) ==
    /\ k <= Len(evq) /\ (k = 1 \/ "reorder" \in Env)
    /\ evq' = RemoveAt(evq, k)
    /\ \/ got' = [got EXCEPT ![evq[k][1]] = evq[k][2]] /\ UNCHANGED lost
       \/ "nomem" \in Env /\ lost' = lost \cup {evq[k][1]} /\ UNCHANGED got
    /\ UNCHANGED <<polled, phase, i, prev, bdata, level, edge, wq, edges, same>>

-----------------------------------------------------------------------------
(* Remove: gpio_keys_irq_close for each button, or gpio_keys_polled_close. *)

remove_begin ==
    /\ phase = "up"
    /\ i' = IF polled THEN Device ELSE 1
    /\ phase' = IF polled THEN "cancel" ELSE "disable"
    /\ UNCHANGED <<polled, prev, bdata, level, edge, wq, evq, got, hist>>

\* Mutant: the interrupt stays enabled.
remove_disable_not ==
    /\ phase = "disable" /\ i \in Buttons
    /\ phase' = "cancel"
    /\ UNCHANGED <<polled, i, prev, bdata, level, edge, wq, evq, got, hist>>

\* disable_irq; a handler that runs is waited for.  Where the request failed
\* or the line has no interrupt, bdata->irq is no interrupt of this driver and
\* the call changes nothing the model has.
remove_disable ==
    /\ phase = "disable" /\ i \in Buttons
    /\ irq' = [irq EXCEPT ![i] = IF @ = "on" THEN "off" ELSE @]
    /\ phase' = "cancel"
    /\ UNCHANGED <<polled, i, prev, gpiod, last, count, level, edge, wq, evq, got, hist>>

\* cancel_delayed_work_sync: what is queued is taken back and nothing can be
\* queued until the item that runs has ended.
remove_cancel ==
    /\ phase = "cancel"
    /\ work' = [work EXCEPT ![i] = "cancelling"]
    /\ phase' = "sync"
    /\ UNCHANGED <<polled, i, prev, bdata, level, edge, at, smp, evq, got, hist>>

remove_sync ==
    /\ phase = "sync" /\ at[i] = Nobody
    /\ work' = [work EXCEPT ![i] = IF @ = "cancelling" THEN "idle" ELSE @]
    /\ i' = i + 1
    /\ phase' = IF ~polled /\ i + 1 \in Buttons THEN "disable" ELSE "release"
    /\ UNCHANGED <<polled, prev, bdata, level, edge, at, smp, evq, got, hist>>

\* The driver core releases what probe allocated: interrupts, lines, memory.
devres_release ==
    /\ phase = "release"
    /\ phase' = "gone"
    /\ irq' = [b \in Buttons |-> "none"]
    /\ edge' = [b \in Buttons |-> FALSE]
    /\ UNCHANGED <<polled, i, prev, gpiod, last, count, level, wq, evq, got, hist>>

-----------------------------------------------------------------------------

Probe == probe_skip \/ probe_gpio \/ probe_done \/ irq_start \/ irq_request \/ irq_started

RemoveSteps == remove_disable \/ remove_cancel \/ remove_sync \/ devres_release

Sampling(w) == run_begin(w) \/ sample(w) \/ gpio_keys_handle_button(w)

Next ==
    \/ Probe
    \/ \E n \in Lines : change(n)
    \/ \E b \in Buttons : button_handle_irq(b)
    \/ \E w \in Items : Sampling(w)
    \/ poll_skip
    \/ \E k \in 1..Len(evq) : button_hotplug_work(k)
    \/ remove_begin \/ RemoveSteps

Spec == Init /\ [][Next]_vars

\* The kernel runs its tasks, interrupt threads and workers.  Nobody has to
\* touch a button or remove the device.
Fairness ==
    /\ WF_vars(Probe) /\ WF_vars(RemoveSteps)
    /\ \A b \in Buttons : WF_vars(button_handle_irq(b))
    /\ \A w \in Items : WF_vars(Sampling(w))
    /\ WF_vars(poll_skip)
    /\ WF_vars(button_hotplug_work(1))

FairSpec == Spec /\ Fairness

-----------------------------------------------------------------------------
(* Properties.                                                             *)

\* A key that was never seen pressed is, to user space, released.
shown(b, v) == IF v = Unknown /\ node(b).type = "key" THEN 0 ELSE v

\* The events of b in the queue q.
events(q, b) == {j \in 1..Len(q) : q[j][1] = b}

\* To one who knows s of b, each event of b in q is news when it comes.
News(q, b, s) ==
    /\ \A j \in events(q, b) : (\A m \in events(q, b) : j <= m) => q[j][2] # s
    /\ \A j, k \in events(q, b) :
         (j < k /\ \A m \in events(q, b) : m <= j \/ k <= m) => q[j][2] # q[k][2]

\* One who knew s of b knows l after q.
Learns(q, b, s, l) ==
    /\ \A j \in events(q, b) : (\A m \in events(q, b) : m <= j) => q[j][2] = l
    /\ events(q, b) = {} => s = l

\* User space follows the driver: the events of a button that it gets and
\* will get alternate, a key starts with "pressed", and the last of them says
\* what last_state holds, unless an event was dropped for want of memory
\* (gpio_keys_handle_button, button_hotplug_create_event and the work items).
UserFollows == \A b \in Buttons \ lost :
    /\ News(evq, b, shown(b, got[b]))
    /\ gpiod[b] # NULL => Learns(evq, b, shown(b, got[b]), shown(b, last[b]))

\* Once the memory of the device is released no work item of it waits or runs
\* (gpio_keys_irq_close, gpio_keys_polled_close).
Quiet == phase = "gone" => \A w \in Items : work[w] = "idle" /\ at[w] = Nobody

\* A polled button changes its known state only after Threshold + 1 samples in
\* a row had the new value: a bounce between them starts the count afresh
\* (gpio_keys_handle_button, count).
Debounced == [][\A b \in Buttons :
    (polled /\ last'[b] # last[b] /\ Unknown \notin {last[b], last'[b]}) =>
        same[b].v = last'[b] /\ same[b].n = Threshold]_vars

\* A button whose line can be followed: polled, or with an interrupt.
followed(b) == gpiod[b] # NULL /\ (polled \/ irq[b] = "on")

\* When the lines come to rest, the driver ends up with the level of each line
\* it follows: no edge is lost between reading a line and storing the value
\* (button_handle_irq, gpio_keys_irq_work_func, gpio_keys_polled_poll).
Settles == \A b \in Buttons :
    <>[](phase = "up" /\ followed(b) => last[b] = level[gpiod[b]])
=============================================================================
