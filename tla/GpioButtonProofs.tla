-------------------------- MODULE GpioButtonProofs --------------------------
(***************************************************************************)
(* Theorems about GpioButton, for any device tree node, threshold and      *)
(* environment.                                                            *)
(***************************************************************************)
EXTENDS GpioButton, FiniteSetTheorems, SequenceTheorems, TLAPS

\* Where probe and remove are.
PhaseInv ==
    /\ phase # "failed" => nbuttons > 0
    /\ phase \in {"probe", "failed", "start"} => i \in 1..(nbuttons + 1)
    /\ phase \in {"request", "disable"} => i \in Buttons /\ ~polled
    /\ phase = "start" => ~polled
    /\ phase \in {"cancel", "sync"} => IF polled THEN i = Device ELSE i \in Buttons /\ irq[i] # "on"
    /\ phase = "probe" => prev < i
    /\ phase \in {"probe", "failed"} => \A b \in Buttons : irq[b] = "none"

\* Which work items there are: those of the driver that was not probed never
\* wait or run, and an item is taken back by remove only.
ItemInv ==
    /\ phase \in {"probe", "failed"} => \A w \in Items : work[w] = "idle" /\ at[w] = Nobody
    /\ polled => \A b \in Buttons : work[b] = "idle" /\ at[b] = Nobody /\ irq[b] = "none"
    /\ ~polled => work[Device] = "idle" /\ at[Device] = Nobody
    /\ \A w \in Items : work[w] = "cancelling" <=> phase = "sync" /\ w = i
    /\ \A w \in Items : smp[w] # Unknown => at[w] # Nobody
    /\ smp[Device] # Unknown => gpiod[at[Device]] # NULL
    /\ \A b \in Buttons : at[b] \in {Nobody, b}

\* What remove has closed stays closed.
closed(b) == irq[b] # "on" /\ work[b] = "idle" /\ at[b] = Nobody

ClosedInv ==
    /\ phase \in {"disable", "cancel", "sync"} => \A b \in Buttons : b < i => closed(b)
    /\ phase \in {"release", "gone"} =>
         /\ work[Device] = "idle" /\ at[Device] = Nobody
         /\ \A b \in Buttons : closed(b)

Running == TypeOK /\ PhaseInv /\ ItemInv /\ ClosedInv

\* The poll has read the line of b and not yet dealt with the value.
sampled(b) == at[Device] = b /\ smp[Device] # Unknown

\* The counter of a polled button whose state is known counts samples in a
\* row that differ from that state.
CountInv == polled => \A b \in Buttons :
    /\ sampled(b) => same[b].v = smp[Device]
    /\ last[b] # Unknown /\ count[b] > 0 =>
         IF sampled(b) THEN smp[Device] = last[b] \/ same[b].n >= count[b]
         ELSE same[b].v \notin {Unknown, last[b]} /\ same[b].n >= count[b] - 1

\* A button without a line reads as 0 and never has an event.
LinelessInv ==
    /\ \A b \in Buttons : gpiod[b] = NULL => last[b] = 0 /\ got[b] = Unknown /\ events(evq, b) = {}
    /\ \A w \in Items : smp[w] # Unknown /\ gpiod[at[w]] = NULL => smp[w] = 0
    /\ phase \in {"probe", "failed"} =>
         /\ evq = <<>> /\ \A b \in Buttons : got[b] = Unknown
         /\ \A b \in Buttons : gpiod[b] # NULL => last[b] = Unknown
    /\ phase = "probe" => \A b \in Buttons : b >= i => gpiod[b] = NULL

-----------------------------------------------------------------------------
(* Sizes.                                                                  *)

LEMMA ButtonCount == nbuttons \in Nat /\ nbuttons <= Len(Nodes) /\ Len(Nodes) \in Nat
<1>1. Len(Nodes) \in Nat
  BY NodesAssumption
<1>2. IsFiniteSet(Lines) /\ Cardinality(Lines) = Len(Nodes)
  BY <1>1, FS_Interval, SMTT(30) DEF Lines
<1>3. Available \subseteq Lines
  BY DEF Available
<1> QED BY <1>1, <1>2, <1>3, FS_Subset, FS_CardinalityType DEF nbuttons

LEMMA ItemFacts ==
    /\ Device \in Items /\ Device \notin Buttons /\ Nobody \notin Buttons
    /\ Buttons \subseteq Items /\ Unknown \notin Bits
    /\ \A w \in Items : w # Device => w \in Buttons
BY ButtonCount DEF Device, Items, Buttons, Nobody, Unknown, Bits

-----------------------------------------------------------------------------
(* Types.                                                                  *)

LEMMA TypeInit == Init => TypeOK
<1> USE ButtonCount, ItemFacts
<1> SUFFICES ASSUME Init PROVE TypeOK
  OBVIOUS
<1>1. evq \in Seq(Buttons \X Bits)
  BY DEF Init
<1>2. i \in 0..(nbuttons + 1) /\ prev \in {NULL} \cup Lines /\ edges \in 0..MaxEdges
  BY EdgesAssumption DEF Init, NULL
<1>3. same \in [Buttons -> [v : {Unknown} \cup Bits, n : 0..Threshold]]
  BY ThresholdAssumption DEF Init
<1>4. count \in [Buttons -> 0..Threshold]
  BY ThresholdAssumption DEF Init
<1> QED BY <1>1, <1>2, <1>3, <1>4 DEF Init, TypeOK, Bits

LEMMA TypeProbe ==
    ASSUME TypeOK, PhaseInv, Probe
    PROVE  TypeOK'
<1> USE ButtonCount, ItemFacts
<1>1. CASE probe_skip
  <2>1. i' \in 0..(nbuttons + 1)
    BY <1>1 DEF probe_skip, Buttons
  <2> QED BY <1>1, <2>1 DEF probe_skip, TypeOK, bdata, wq, hist
<1>2. CASE probe_gpio
  <2>1. i \in Buttons /\ prev' \in Lines /\ prev' = prev + 1
    BY <1>2, SMTT(30) DEF probe_gpio, next_child, TypeOK, PhaseInv, Lines, Buttons, NULL
  <2>2. gpiod' \in [Buttons -> {NULL} \cup Lines] /\ last' \in [Buttons -> {Unknown} \cup Bits]
    BY <1>2, <2>1, SMTT(30) DEF probe_gpio, TypeOK
  <2>3. i' \in 0..(nbuttons + 1) /\ phase' \in {"probe", "failed"}
    BY <1>2, <2>1, SMTT(30) DEF probe_gpio, TypeOK, Buttons
  <2> QED BY <1>2, <2>1, <2>2, <2>3 DEF probe_gpio, TypeOK, wq, hist
<1>3. CASE probe_done
  BY <1>3 DEF probe_done, TypeOK, bdata, hist
<1>4. CASE irq_start
  <2>1. i' \in 0..(nbuttons + 1) /\ i \in Items
    BY <1>4 DEF irq_start, TypeOK, Buttons
  <2>2. work' \in [Items -> {"idle", "pending", "cancelling"}]
    BY <1>4, <2>1 DEF irq_start, TypeOK
  <2> QED BY <1>4, <2>1, <2>2 DEF irq_start, TypeOK, bdata, hist
<1>5. CASE irq_request
  <2>1. i' \in 0..(nbuttons + 1)
    BY <1>5 DEF irq_request, PhaseInv, Buttons
  <2>2. irq' \in [Buttons -> {"none", "on", "off"}]
    BY <1>5 DEF irq_request, TypeOK
  <2> QED BY <1>5, <2>1, <2>2 DEF irq_request, TypeOK, wq, hist
<1>6. CASE irq_started
  BY <1>6 DEF irq_started, TypeOK, bdata, wq, hist
<1> QED BY <1>1, <1>2, <1>3, <1>4, <1>5, <1>6 DEF Probe

LEMMA TypeLines ==
    ASSUME TypeOK, (\E n \in Lines : change(n)) \/ (\E b \in Buttons : button_handle_irq(b))
    PROVE  TypeOK'
<1> USE ButtonCount, ItemFacts
<1>1. ASSUME NEW n \in Lines, change(n) PROVE TypeOK'
  <2>1. level' \in [Lines -> Bits]
    <3>1. level[n] \in Bits /\ 1 - level[n] \in Bits
      BY DEF TypeOK, Bits
    <3> QED BY <1>1, <3>1 DEF change, TypeOK
  <2>2. edges' \in 0..MaxEdges
    BY <1>1, EdgesAssumption DEF change, TypeOK
  <2>3. edge' \in [Buttons -> BOOLEAN]
    BY <1>1 DEF change, TypeOK
  <2> QED BY <1>1, <2>1, <2>2, <2>3 DEF change, TypeOK, bdata, wq
<1>2. ASSUME NEW b \in Buttons, button_handle_irq(b) PROVE TypeOK'
  BY <1>2 DEF button_handle_irq, mod_work, queue, TypeOK, bdata, hist
<1> QED BY <1>1, <1>2

LEMMA GoOnType ==
    ASSUME TypeOK, NEW w \in Items, at[w] # Nobody, go_on(w)
    PROVE  /\ at' \in [Items -> {Nobody} \cup Buttons]
           /\ work' \in [Items -> {"idle", "pending", "cancelling"}]
<1> USE ButtonCount, ItemFacts
<1>1. at[w] \in Buttons
  BY DEF TypeOK
<1>2. at[w] < nbuttons => at[w] + 1 \in Buttons
  BY <1>1 DEF Buttons
<1>3. at' \in [Items -> {Nobody} \cup Buttons]
  BY <1>1, <1>2 DEF go_on, TypeOK
<1> QED BY <1>3 DEF go_on, queue, TypeOK

LEMMA TypeSampling ==
    ASSUME TypeOK, PhaseInv, ItemInv, NEW w \in Items, Sampling(w)
    PROVE  TypeOK'
<1> USE ButtonCount, ItemFacts
<1>1. CASE run_begin(w)
  <2>1. phase # "failed"
    BY <1>1 DEF run_begin, ItemInv
  <2>2. 1 \in Buttons
    BY <2>1 DEF PhaseInv, Buttons
  <2>3. at' \in [Items -> {Nobody} \cup Buttons]
    BY <1>1, <2>2 DEF run_begin, TypeOK
  <2>4. work' \in [Items -> {"idle", "pending", "cancelling"}]
    BY <1>1 DEF run_begin, TypeOK
  <2> QED BY <1>1, <2>3, <2>4 DEF run_begin, TypeOK, bdata, hist
<1>2. CASE sample(w)
  <2>1. at[w] \in Buttons
    BY <1>2 DEF sample, TypeOK
  <2>2. get_value(at[w]) \in Bits
    BY <2>1 DEF get_value, TypeOK, Bits
  <2>3. smp' = [smp EXCEPT ![w] = get_value(at[w])] /\ smp'[w] \in Bits
    BY <1>2, <2>2 DEF sample, TypeOK
  <2>4. smp' \in [Items -> {Unknown} \cup Bits]
    BY <2>2, <2>3 DEF TypeOK
  <2>5. same' \in [Buttons -> [v : {Unknown} \cup Bits, n : 0..Threshold]]
    <3>1. ASSUME NEW s \in [v : {Unknown} \cup Bits, n : 0..Threshold], NEW x \in Bits
          PROVE  run_of(s, x) \in [v : {Unknown} \cup Bits, n : 0..Threshold]
      BY <3>1, ThresholdAssumption DEF run_of
    <3>2. run_of(same[at[w]], get_value(at[w])) \in [v : {Unknown} \cup Bits, n : 0..Threshold]
      BY <2>1, <2>2, <3>1 DEF TypeOK
    <3> QED BY <1>2, <3>2 DEF sample, TypeOK
  <2> QED BY <1>2, <2>4, <2>5 DEF sample, TypeOK, bdata
<1>3. CASE gpio_keys_handle_button(w)
  <2> DEFINE b == at[w]
             v == smp[w]
  <2>1. b \in Buttons /\ v \in Bits
    BY <1>3 DEF gpio_keys_handle_button, ItemInv, TypeOK
  <2>2. at' \in [Items -> {Nobody} \cup Buttons]
        /\ work' \in [Items -> {"idle", "pending", "cancelling"}]
    BY <1>3, <2>1, GoOnType DEF gpio_keys_handle_button
  <2>3. smp' \in [Items -> {Unknown} \cup Bits]
    BY <1>3 DEF gpio_keys_handle_button, TypeOK
  <2>4. last' \in [Buttons -> {Unknown} \cup Bits]
    BY <1>3, <2>1 DEF gpio_keys_handle_button, set_state, TypeOK
  <2>5. count' \in [Buttons -> 0..Threshold]
    BY <1>3, <2>1, ThresholdAssumption, SMTT(30)
       DEF gpio_keys_handle_button, reset_count, bouncing, threshold, TypeOK
  <2>6. <<b, v>> \in Buttons \X Bits
    BY <2>1
  <2>7. evq' = evq \/ evq' = Append(evq, <<b, v>>)
    BY <1>3 DEF gpio_keys_handle_button, create_event
  <2>8. evq' \in Seq(Buttons \X Bits)
    <3>1. evq \in Seq(Buttons \X Bits)
      BY DEF TypeOK
    <3> HIDE DEF b, v
    <3> QED BY <2>6, <2>7, <3>1, AppendProperties
  <2>9. lost' \subseteq Buttons
    BY <1>3, <2>1 DEF gpio_keys_handle_button, create_event, TypeOK
  <2> QED BY <1>3, <2>2, <2>3, <2>4, <2>5, <2>8, <2>9 DEF gpio_keys_handle_button, TypeOK
<1> QED BY <1>1, <1>2, <1>3 DEF Sampling

LEMMA RemoveAtFacts ==
    ASSUME NEW S, NEW s \in Seq(S), NEW k \in 1..Len(s)
    PROVE  /\ RemoveAt(s, k) \in Seq(S)
           /\ Len(RemoveAt(s, k)) = Len(s) - 1
           /\ \A j \in 1..(Len(s) - 1) : RemoveAt(s, k)[j] = IF j < k THEN s[j] ELSE s[j + 1]
<1>1. k \in Int /\ Len(s) \in Nat /\ 1 <= k /\ k <= Len(s)
  OBVIOUS
<1>2. /\ SubSeq(s, 1, k - 1) \in Seq(S)
      /\ Len(SubSeq(s, 1, k - 1)) = k - 1
      /\ \A j \in 1..(k - 1) : SubSeq(s, 1, k - 1)[j] = s[j]
  BY <1>1, SubSeqProperties
<1>3. /\ SubSeq(s, k + 1, Len(s)) \in Seq(S)
      /\ Len(SubSeq(s, k + 1, Len(s))) = Len(s) - k
      /\ \A j \in 1..(Len(s) - k) : SubSeq(s, k + 1, Len(s))[j] = s[k + j]
  BY <1>1, SubSeqProperties
<1> DEFINE u == SubSeq(s, 1, k - 1)
           v == SubSeq(s, k + 1, Len(s))
<1>4. /\ u \o v \in Seq(S)
      /\ Len(u \o v) = Len(u) + Len(v)
      /\ \A j \in 1..(Len(u) + Len(v)) : (u \o v)[j] = IF j <= Len(u) THEN u[j] ELSE v[j - Len(u)]
  BY <1>2, <1>3, ConcatProperties
<1>5. RemoveAt(s, k) = u \o v
  BY DEF RemoveAt
<1> HIDE DEF u, v
<1>6. Len(u) = k - 1 /\ Len(v) = Len(s) - k
  BY <1>2, <1>3 DEF u, v
<1>7. Len(RemoveAt(s, k)) = Len(s) - 1
  BY <1>1, <1>4, <1>5, <1>6, SMTT(30)
<1>8. ASSUME NEW j \in 1..(Len(s) - 1)
      PROVE  RemoveAt(s, k)[j] = IF j < k THEN s[j] ELSE s[j + 1]
  <2>1. (u \o v)[j] = IF j <= k - 1 THEN u[j] ELSE v[j - (k - 1)]
    BY <1>1, <1>4, <1>6
  <2>2. CASE j < k
    BY <1>1, <1>2, <1>5, <2>1, <2>2 DEF u
  <2>3. CASE ~(j < k)
    <3>1. j - (k - 1) \in 1..(Len(s) - k) /\ k + (j - (k - 1)) = j + 1
      BY <1>1, <2>3
    <3>2. v[j - (k - 1)] = s[j + 1]
      BY <1>3, <3>1 DEF v
    <3> QED BY <1>1, <1>5, <2>1, <2>3, <3>2
  <2> QED BY <2>2, <2>3
<1> QED BY <1>4, <1>5, <1>7, <1>8

LEMMA TypeRest ==
    ASSUME TypeOK, PhaseInv,
           \/ poll_skip \/ remove_begin \/ RemoveSteps
           \/ \E k \in 1..Len(evq) : button_hotplug_work(k)
    PROVE  TypeOK'
<1> USE ButtonCount, ItemFacts
<1>1. CASE poll_skip
  BY <1>1, GoOnType DEF poll_skip, TypeOK, bdata, hist
<1>2. CASE remove_begin
  BY <1>2 DEF remove_begin, TypeOK, Device, bdata, wq, hist
<1>3. CASE remove_disable
  BY <1>3 DEF remove_disable, TypeOK, wq, hist
<1>4. CASE remove_cancel
  BY <1>4 DEF remove_cancel, TypeOK, PhaseInv, bdata, hist
<1>5. CASE remove_sync
  <2>1. i' \in 0..(nbuttons + 1)
    BY <1>5 DEF remove_sync, PhaseInv, Buttons, Device
  <2>2. work' \in [Items -> {"idle", "pending", "cancelling"}]
    BY <1>5 DEF remove_sync, TypeOK
  <2>3. phase' \in {"disable", "release"}
    BY <1>5 DEF remove_sync
  <2> QED BY <1>5, <2>1, <2>2, <2>3 DEF remove_sync, TypeOK, bdata, hist
<1>6. CASE devres_release
  BY <1>6 DEF devres_release, TypeOK, wq, hist
<1>7. ASSUME NEW k \in 1..Len(evq), button_hotplug_work(k) PROVE TypeOK'
  <2>1. evq[k] \in Buttons \X Bits
    BY DEF TypeOK
  <2>2. evq' \in Seq(Buttons \X Bits)
    BY <1>7, RemoveAtFacts DEF button_hotplug_work, TypeOK
  <2>3. got' \in [Buttons -> {Unknown} \cup Bits] /\ lost' \subseteq Buttons
    BY <1>7, <2>1 DEF button_hotplug_work, TypeOK
  <2> QED BY <1>7, <2>2, <2>3 DEF button_hotplug_work, TypeOK, bdata, wq
<1> QED BY <1>1, <1>2, <1>3, <1>4, <1>5, <1>6, <1>7 DEF RemoveSteps

-----------------------------------------------------------------------------
(* Probe, the work items and remove.                                       *)

LEMMA RunningInit == Init => Running
<1> SUFFICES ASSUME Init PROVE Running
  OBVIOUS
<1>1. TypeOK
  BY TypeInit
<1>2. PhaseInv
  BY ButtonCount DEF Init, PhaseInv, NULL
<1>3. ItemInv
  BY ItemFacts DEF Init, ItemInv
<1>4. ClosedInv
  BY DEF Init, ClosedInv
<1> QED BY <1>1, <1>2, <1>3, <1>4 DEF Running

LEMMA RunningProbe ==
    ASSUME Running, Probe
    PROVE  PhaseInv' /\ ItemInv' /\ ClosedInv'
<1> USE ButtonCount, ItemFacts DEF Running
<1>1. CASE probe_skip
  <2>1. PhaseInv'
    BY <1>1 DEF probe_skip, TypeOK, PhaseInv, Buttons, Lines, NULL, bdata
  <2>2. ItemInv' /\ ClosedInv'
    BY <1>1 DEF probe_skip, ItemInv, ClosedInv, closed, bdata, wq
  <2> QED BY <2>1, <2>2
<1>2. CASE probe_gpio
  <2>1. PhaseInv'
    <3>1. i \in Buttons /\ prev' = prev + 1
          /\ phase = "probe" /\ polled' = polled /\ irq' = irq
          /\ \/ i' = i + 1 /\ phase' = "probe"
             \/ i' = i /\ phase' = "failed"
      BY <1>2 DEF probe_gpio, next_child
    <3>2. i' \in 1..(nbuttons + 1) /\ (phase' = "probe" => prev' < i')
      BY <3>1, SMTT(30) DEF TypeOK, PhaseInv, Buttons, Lines, NULL
    <3> QED BY <3>1, <3>2 DEF PhaseInv
  <2>2. ItemInv' /\ ClosedInv'
    BY <1>2 DEF probe_gpio, ItemInv, ClosedInv, closed, wq
  <2> QED BY <2>1, <2>2
<1>3. CASE probe_done
  <2>1. PhaseInv'
    BY <1>3 DEF probe_done, PhaseInv, Buttons, bdata
  <2>2. ItemInv' /\ ClosedInv'
    BY <1>3 DEF probe_done, TypeOK, PhaseInv, ItemInv, ClosedInv, closed, bdata, wq
  <2> QED BY <2>1, <2>2
<1>4. CASE irq_start
  <2>1. PhaseInv'
    BY <1>4 DEF irq_start, PhaseInv, Buttons, bdata
  <2>2. ItemInv' /\ ClosedInv'
    BY <1>4, SMTT(30) DEF irq_start, TypeOK, PhaseInv, ItemInv, ClosedInv, closed, bdata, wq
  <2> QED BY <2>1, <2>2
<1>5. CASE irq_request
  <2>1. PhaseInv'
    <3>1. i \in Buttons /\ i' = i + 1 /\ phase = "request" /\ phase' = "start"
          /\ polled' = polled /\ ~polled
      BY <1>5 DEF irq_request, PhaseInv
    <3> QED BY <3>1 DEF PhaseInv, Buttons
  <2>2. ItemInv' /\ ClosedInv'
    BY <1>5 DEF irq_request, TypeOK, PhaseInv, ItemInv, ClosedInv, closed, wq
  <2> QED BY <2>1, <2>2
<1>6. CASE irq_started
  <2>1. PhaseInv'
    BY <1>6 DEF irq_started, PhaseInv, Buttons, bdata
  <2>2. ItemInv' /\ ClosedInv'
    BY <1>6 DEF irq_started, ItemInv, ClosedInv, closed, bdata, wq
  <2> QED BY <2>1, <2>2
<1> QED BY <1>1, <1>2, <1>3, <1>4, <1>5, <1>6 DEF Probe

LEMMA RunningLines ==
    ASSUME Running, (\E n \in Lines : change(n)) \/ (\E b \in Buttons : button_handle_irq(b))
    PROVE  PhaseInv' /\ ItemInv' /\ ClosedInv'
<1> USE ButtonCount, ItemFacts DEF Running
<1>1. ASSUME NEW n \in Lines, change(n) PROVE PhaseInv' /\ ItemInv' /\ ClosedInv'
  BY <1>1 DEF change, PhaseInv, ItemInv, ClosedInv, closed, bdata, wq
<1>2. ASSUME NEW b \in Buttons, button_handle_irq(b) PROVE PhaseInv' /\ ItemInv' /\ ClosedInv'
  <2>1. PhaseInv'
    BY <1>2 DEF button_handle_irq, PhaseInv, bdata
  <2>2. ItemInv'
    BY <1>2 DEF button_handle_irq, mod_work, queue, TypeOK, PhaseInv, ItemInv, bdata
  <2>3. ClosedInv'
    BY <1>2 DEF button_handle_irq, mod_work, queue, TypeOK, ClosedInv, closed, bdata
  <2> QED BY <2>1, <2>2, <2>3
<1> QED BY <1>1, <1>2

\* What a work item does when it goes on.
LEMMA GoOnRunning ==
    ASSUME Running, NEW w \in Items, at[w] # Nobody, go_on(w),
           UNCHANGED <<polled, phase, i, prev, irq, gpiod>>,
           smp' \in [Items -> {Unknown} \cup Bits],
           \A x \in Items : smp'[x] # Unknown => x # w /\ smp'[x] = smp[x]
    PROVE  PhaseInv' /\ ItemInv' /\ ClosedInv'
<1> USE ButtonCount, ItemFacts DEF Running
<1>1. PhaseInv'
  BY DEF PhaseInv
<1>2. phase \notin {"probe", "failed", "release", "gone"}
  BY DEF ItemInv, ClosedInv, closed
<1>3. /\ \A x \in Items : x # w => at'[x] = at[x] /\ work'[x] = work[x]
      /\ w # Device => at'[w] = Nobody /\ work'[w] = work[w]
      /\ work'[w] = "cancelling" <=> work[w] = "cancelling"
  BY DEF go_on, queue, TypeOK
<1>4. ItemInv'
  BY <1>2, <1>3 DEF ItemInv
<1>5. ClosedInv'
  BY <1>2, <1>3 DEF ClosedInv, closed
<1> QED BY <1>1, <1>4, <1>5

LEMMA RunningSampling ==
    ASSUME Running, NEW w \in Items, Sampling(w)
    PROVE  PhaseInv' /\ ItemInv' /\ ClosedInv'
<1> USE ButtonCount, ItemFacts DEF Running
<1>1. CASE run_begin(w)
  <2>1. PhaseInv'
    BY <1>1 DEF run_begin, PhaseInv, bdata
  <2>2. ItemInv'
    BY <1>1 DEF run_begin, TypeOK, ItemInv, bdata
  <2>3. ClosedInv'
    BY <1>1 DEF run_begin, TypeOK, ItemInv, ClosedInv, closed, bdata
  <2> QED BY <2>1, <2>2, <2>3
<1>2. CASE sample(w)
  <2>1. PhaseInv' /\ ClosedInv'
    BY <1>2 DEF sample, PhaseInv, ClosedInv, closed, bdata
  <2>2. ItemInv'
    BY <1>2 DEF sample, TypeOK, ItemInv, bdata
  <2> QED BY <2>1, <2>2
<1>3. CASE gpio_keys_handle_button(w)
  <2>1. at[w] # Nobody
    BY <1>3 DEF gpio_keys_handle_button, ItemInv
  <2>2. smp' = [smp EXCEPT ![w] = Unknown] /\ go_on(w)
        /\ UNCHANGED <<polled, phase, i, prev, irq, gpiod>>
    BY <1>3 DEF gpio_keys_handle_button
  <2> QED BY <2>1, <2>2, GoOnRunning DEF TypeOK
<1> QED BY <1>1, <1>2, <1>3 DEF Sampling

LEMMA RunningRest ==
    ASSUME Running,
           \/ poll_skip \/ remove_begin \/ RemoveSteps
           \/ \E k \in 1..Len(evq) : button_hotplug_work(k)
    PROVE  PhaseInv' /\ ItemInv' /\ ClosedInv'
<1> USE ButtonCount, ItemFacts DEF Running
<1>1. CASE poll_skip
  <2>1. at[Device] # Nobody /\ smp[Device] = Unknown
    BY <1>1 DEF poll_skip, ItemInv
  <2>2. smp' = smp /\ go_on(Device) /\ UNCHANGED <<polled, phase, i, prev, irq, gpiod>>
    BY <1>1 DEF poll_skip, bdata
  <2> QED BY <2>1, <2>2, GoOnRunning DEF TypeOK
<1>2. CASE remove_begin
  <2>1. PhaseInv'
    BY <1>2 DEF remove_begin, PhaseInv, Buttons, bdata
  <2>2. ItemInv' /\ ClosedInv'
    BY <1>2 DEF remove_begin, ItemInv, ClosedInv, closed, Buttons, Device, bdata, wq
  <2> QED BY <2>1, <2>2
<1>3. CASE remove_disable
  <2>1. PhaseInv'
    BY <1>3 DEF remove_disable, TypeOK, PhaseInv
  <2>2. ItemInv' /\ ClosedInv'
    BY <1>3 DEF remove_disable, TypeOK, PhaseInv, ItemInv, ClosedInv, closed, wq
  <2> QED BY <2>1, <2>2
<1>4. CASE remove_cancel
  <2>1. PhaseInv'
    BY <1>4 DEF remove_cancel, PhaseInv, bdata
  <2>2. i \in Items /\ (polled => i = Device) /\ (~polled => i # Device)
    BY <1>4 DEF remove_cancel, PhaseInv
  <2>3. ItemInv'
    BY <1>4, <2>2 DEF remove_cancel, TypeOK, ItemInv, bdata
  <2>4. ClosedInv'
    <3>1. \A b \in Buttons : b < i /\ closed(b) => closed(b)'
      BY <1>4, <2>2 DEF remove_cancel, TypeOK, closed, Buttons, bdata
    <3>2. phase = "cancel" /\ phase' = "sync" /\ i' = i
      BY <1>4 DEF remove_cancel
    <3> QED BY <3>1, <3>2 DEF ClosedInv
  <2> QED BY <2>1, <2>3, <2>4
<1>5. CASE remove_sync
  <2>1. PhaseInv'
    BY <1>5 DEF remove_sync, PhaseInv, bdata
  <2>2. i \in Items /\ (polled => i = Device) /\ (~polled => i \in Buttons)
    BY <1>5 DEF remove_sync, PhaseInv
  <2>3. work'[i] = "idle" /\ \A x \in Items : x # i => work'[x] = work[x]
    BY <1>5, <2>2 DEF remove_sync, TypeOK, ItemInv
  <2>4. ItemInv'
    BY <1>5, <2>2, <2>3 DEF remove_sync, ItemInv, bdata
  <2>5. \A b \in Buttons : b < i + 1 /\ ~polled => closed(b)'
    BY <1>5, <2>2, <2>3 DEF remove_sync, PhaseInv, ClosedInv, closed, Buttons, bdata
  <2>6. ~polled /\ i + 1 \notin Buttons => \A b \in Buttons : b < i + 1
    BY <2>2 DEF Buttons
  <2>7. polled => \A b \in Buttons : closed(b)'
    BY <1>5, <2>2, <2>3 DEF remove_sync, ItemInv, closed, bdata
  <2>8. work'[Device] = "idle" /\ at'[Device] = Nobody
    BY <1>5, <2>2, <2>3 DEF remove_sync, ItemInv
  <2>9. i' = i + 1 /\ phase' = IF ~polled /\ i + 1 \in Buttons THEN "disable" ELSE "release"
    BY <1>5 DEF remove_sync
  <2>10. ClosedInv'
    BY <2>5, <2>6, <2>7, <2>8, <2>9 DEF ClosedInv
  <2> QED BY <2>1, <2>4, <2>10
<1>6. CASE devres_release
  BY <1>6 DEF devres_release, TypeOK, PhaseInv, ItemInv, ClosedInv, closed, wq
<1>7. ASSUME NEW k \in 1..Len(evq), button_hotplug_work(k) PROVE PhaseInv' /\ ItemInv' /\ ClosedInv'
  BY <1>7 DEF button_hotplug_work, PhaseInv, ItemInv, ClosedInv, closed, bdata, wq
<1> QED BY <1>1, <1>2, <1>3, <1>4, <1>5, <1>6, <1>7 DEF RemoveSteps

LEMMA RunningNext == Running /\ [Next]_vars => Running'
<1> SUFFICES ASSUME Running, [Next]_vars PROVE Running'
  OBVIOUS
<1>1. TypeOK /\ PhaseInv /\ ItemInv
  BY DEF Running
<1>2. CASE UNCHANGED vars
  BY <1>2 DEF vars, bdata, wq, hist, Running, TypeOK, PhaseInv, ItemInv, ClosedInv, closed
<1>3. CASE Next
  BY <1>1, <1>3, TypeProbe, TypeLines, TypeSampling, TypeRest,
     RunningProbe, RunningLines, RunningSampling, RunningRest DEF Next, Running
<1> QED BY <1>2, <1>3

\* The values of the variables keep their types.
THEOREM ButtonsTypeCorrect == Spec => []TypeOK
<1>1. Running => TypeOK
  BY DEF Running
<1> QED BY <1>1, RunningInit, RunningNext, PTL DEF Spec

\* After remove no work item waits or runs, whatever edges and polls come in
\* between (gpio_keys_irq_close and gpio_keys_polled_close): the memory it
\* would use is released.
THEOREM NothingRunsAfterRemove == Spec => []Quiet
<1>1. Running => Quiet
  BY ItemFacts DEF Running, ClosedInv, closed, Quiet
<1> QED BY <1>1, RunningInit, RunningNext, PTL DEF Spec

-----------------------------------------------------------------------------
(* Debouncing.                                                             *)

LEMMA CountInit == Init => CountInv
BY ItemFacts DEF Init, CountInv, sampled

\* Steps that leave the samples and the counters alone.
LEMMA CountKept ==
    ASSUME Running, CountInv, UNCHANGED <<polled, count, smp, same>>,
           \A b \in Buttons : last'[b] \in {Unknown, last[b]},
           at'[Device] = at[Device] \/ smp[Device] = Unknown
    PROVE  CountInv'
<1> SUFFICES ASSUME polled, NEW b \in Buttons
             PROVE  /\ sampled(b)' => same'[b].v = smp'[Device]
                    /\ last'[b] # Unknown /\ count'[b] > 0 =>
                         IF sampled(b)' THEN smp'[Device] = last'[b] \/ same'[b].n >= count'[b]
                         ELSE same'[b].v \notin {Unknown, last'[b]} /\ same'[b].n >= count'[b] - 1
  BY DEF CountInv
<1>1. sampled(b)' <=> sampled(b)
  BY DEF sampled
<1> QED BY <1>1 DEF CountInv

LEMMA CountSample ==
    ASSUME Running, CountInv, NEW w \in Items, sample(w)
    PROVE  CountInv'
<1> USE ItemFacts DEF Running
<1> SUFFICES ASSUME polled, NEW b \in Buttons
             PROVE  /\ sampled(b)' => same'[b].v = smp'[Device]
                    /\ last'[b] # Unknown /\ count'[b] > 0 =>
                         IF sampled(b)' THEN smp'[Device] = last'[b] \/ same'[b].n >= count'[b]
                         ELSE same'[b].v \notin {Unknown, last'[b]} /\ same'[b].n >= count'[b] - 1
  BY DEF CountInv, sample
<1>1. w = Device /\ at[w] \in Buttons
  BY DEF sample, ItemInv, TypeOK
<1>2. get_value(at[w]) \in Bits
  BY <1>1 DEF get_value, TypeOK, Bits
<1>3. PICK x \in Bits : x = get_value(at[w])
  BY <1>2
<1>4. smp'[Device] = x /\ at' = at /\ last' = last /\ count' = count
      /\ same' = [same EXCEPT ![at[w]] = run_of(same[at[w]], x)]
  BY <1>1, <1>3 DEF sample, TypeOK, bdata
<1>5. CASE b # at[w]
  BY <1>1, <1>4, <1>5 DEF CountInv, sampled, TypeOK
<1>6. CASE b = at[w]
  <2>1. same'[b] = run_of(same[b], x) /\ sampled(b)' /\ ~sampled(b)
    BY <1>1, <1>4, <1>6 DEF sample, sampled, TypeOK
  <2>2. same'[b].v = x
    BY <2>1 DEF run_of
  <2>3. ASSUME last[b] # Unknown, count[b] > 0, x # last[b]
        PROVE  same'[b].n >= count[b]
    <3>1. same[b].v \notin {Unknown, last[b]} /\ same[b].n >= count[b] - 1
      BY <2>1, <2>3 DEF CountInv
    <3>2. same[b].v = x
      BY <2>3, <3>1 DEF TypeOK, Bits
    <3>3. same'[b].n = IF same[b].n < Threshold THEN same[b].n + 1 ELSE same[b].n
      BY <2>1, <3>2 DEF run_of
    <3>4. count[b] \in 0..Threshold /\ same[b].n \in 0..Threshold
      BY DEF TypeOK
    <3> QED BY <3>1, <3>3, <3>4, ThresholdAssumption
  <2> QED BY <1>4, <2>1, <2>2, <2>3
<1> QED BY <1>5, <1>6

LEMMA CountHandle ==
    ASSUME Running, CountInv, NEW w \in Items, gpio_keys_handle_button(w)
    PROVE  /\ CountInv'
           /\ \A b \in Buttons :
                (polled /\ last'[b] # last[b] /\ Unknown \notin {last[b], last'[b]}) =>
                  same[b].v = last'[b] /\ same[b].n = Threshold
<1> USE ItemFacts DEF Running
<1> SUFFICES ASSUME polled, NEW b \in Buttons
             PROVE  /\ sampled(b)' => same'[b].v = smp'[Device]
                    /\ last'[b] # Unknown /\ count'[b] > 0 =>
                         IF sampled(b)' THEN smp'[Device] = last'[b] \/ same'[b].n >= count'[b]
                         ELSE same'[b].v \notin {Unknown, last'[b]} /\ same'[b].n >= count'[b] - 1
                    /\ last'[b] # last[b] /\ Unknown \notin {last[b], last'[b]} =>
                         same[b].v = last'[b] /\ same[b].n = Threshold
  BY DEF CountInv, gpio_keys_handle_button
<1>1. w = Device /\ at[w] \in Buttons /\ smp[w] \in Bits
  BY DEF gpio_keys_handle_button, ItemInv, TypeOK
<1>2. smp'[Device] = Unknown /\ same' = same
  BY <1>1 DEF gpio_keys_handle_button, TypeOK
<1>3. ~sampled(b)'
  BY <1>2 DEF sampled
<1>4. CASE b # at[w]
  <2>1. last'[b] = last[b] /\ count'[b] = count[b] /\ ~sampled(b)
    BY <1>1, <1>4 DEF gpio_keys_handle_button, set_state, sampled, TypeOK
  <2> QED BY <1>2, <1>3, <2>1 DEF CountInv
<1>5. CASE b = at[w]
  <2>1. sampled(b) /\ same[b].v = smp[w]
    BY <1>1, <1>5 DEF sampled, CountInv
  <2>2. \/ last'[b] = last[b] /\ count'[b] = 0
        \/ last[b] = Unknown /\ count'[b] = 0
        \/ last'[b] = last[b] /\ last[b] # smp[w] /\ count'[b] = count[b] + 1
        \/ last[b] # smp[w] /\ last'[b] = smp[w] /\ count'[b] = 0 /\ ~(count[b] < Threshold)
    BY <1>5 DEF gpio_keys_handle_button, set_state, silent, bouncing, threshold, reset_count, TypeOK
  <2>3. count[b] \in 0..Threshold /\ same[b].n \in 0..Threshold /\ Threshold \in Nat
    BY ThresholdAssumption DEF TypeOK
  <2>4. last[b] # Unknown /\ last[b] # smp[w] => same[b].n >= count[b]
    BY <1>1, <2>1, <2>3 DEF CountInv
  <2> QED BY <1>1, <1>2, <1>3, <2>1, <2>2, <2>3, <2>4
<1> QED BY <1>4, <1>5

LEMMA CountNext ==
    ASSUME Running, CountInv, [Next]_vars
    PROVE  /\ CountInv'
           /\ \A b \in Buttons :
                (polled /\ last'[b] # last[b] /\ Unknown \notin {last[b], last'[b]}) =>
                  same[b].v = last'[b] /\ same[b].n = Threshold
<1> USE ItemFacts
<1> DEFINE Kept == /\ UNCHANGED <<polled, count, smp, same>>
                   /\ \A b \in Buttons : last'[b] \in {Unknown, last[b]}
                   /\ at'[Device] = at[Device] \/ smp[Device] = Unknown
<1>1. ASSUME Kept
      PROVE  /\ CountInv'
             /\ \A b \in Buttons :
                  (polled /\ last'[b] # last[b] /\ Unknown \notin {last[b], last'[b]}) =>
                    same[b].v = last'[b] /\ same[b].n = Threshold
  BY <1>1, CountKept
<1>2. UNCHANGED vars => Kept
  BY DEF vars, bdata, wq, hist
<1>3. probe_gpio => Kept
  BY DEF probe_gpio, Running, TypeOK, wq, hist
<1>4. Probe => Kept
  BY <1>3 DEF Probe, probe_skip, probe_done, irq_start, irq_request, irq_started, bdata, wq, hist
<1>5. (\E n \in Lines : change(n)) \/ (\E b \in Buttons : button_handle_irq(b)) => Kept
  BY DEF change, button_handle_irq, bdata, wq, hist
<1>6. ASSUME NEW w \in Items, run_begin(w) PROVE Kept
  BY <1>6 DEF run_begin, Running, TypeOK, ItemInv, bdata, hist
<1>7. poll_skip => Kept
  BY DEF poll_skip, Running, ItemInv, bdata, hist
<1>8. (\E k \in 1..Len(evq) : button_hotplug_work(k)) \/ remove_begin \/ RemoveSteps => Kept
  BY DEF button_hotplug_work, remove_begin, RemoveSteps, remove_disable, remove_cancel,
         remove_sync, devres_release, bdata, wq, hist
<1>9. ASSUME NEW w \in Items, sample(w)
      PROVE  CountInv' /\ last' = last
  BY <1>9, CountSample DEF sample, bdata
<1> HIDE DEF Kept
<1> QED BY <1>1, <1>2, <1>4, <1>5, <1>6, <1>7, <1>8, <1>9, CountHandle DEF Next, Sampling

\* A polled button takes a new state only when it has read it Threshold + 1
\* times in a row (gpio_keys_handle_button, count and threshold).
THEOREM BouncesFiltered == Spec => Debounced
<1>1. Init => Running /\ CountInv
  BY RunningInit, CountInit
<1>2. Running /\ CountInv /\ [Next]_vars => (Running /\ CountInv)'
  BY RunningNext, CountNext
<1>3. Running /\ CountInv /\ [Next]_vars =>
        [\A b \in Buttons :
           (polled /\ last'[b] # last[b] /\ Unknown \notin {last[b], last'[b]}) =>
             same[b].v = last'[b] /\ same[b].n = Threshold]_vars
  BY CountNext
<1> QED BY <1>1, <1>2, <1>3, PTL DEF Spec, Debounced

-----------------------------------------------------------------------------
(* User space follows the driver.                                          *)

\* Putting news of b into the queue.
LEMMA AppendNews ==
    ASSUME NEW q \in Seq(Buttons \X Bits), NEW b \in Buttons, NEW v \in Bits, NEW s, NEW l,
           News(q, b, s), Learns(q, b, s, l), v # l
    PROVE  LET r == Append(q, <<b, v>>) IN News(r, b, s) /\ Learns(r, b, s, v)
<1>1. PICK r \in Seq(Buttons \X Bits) : r = Append(q, <<b, v>>)
  BY AppendProperties
<1>2. PICK n \in Nat : n = Len(q)
  OBVIOUS
<1>3. Len(r) = n + 1 /\ (\A j \in 1..n : r[j] = q[j]) /\ r[n + 1] = <<b, v>>
  <2>1. <<b, v>> \in Buttons \X Bits
    OBVIOUS
  <2> QED BY <1>1, <1>2, <2>1, AppendProperties
<1>4. events(q, b) \subseteq 1..n /\ n + 1 \notin events(q, b)
      /\ events(r, b) = events(q, b) \cup {n + 1}
  BY <1>2, <1>3 DEF events
<1>5. \A j \in events(q, b) : r[j] = q[j]
  BY <1>3, <1>4
<1>6. r[n + 1][2] = v
  BY <1>3
<1>7. \A j \in events(q, b) : j <= n + 1 /\ j < n + 1 /\ ~(n + 1 <= j)
  BY <1>2, <1>4
<1>8. Learns(r, b, s, v)
  <2>1. ASSUME NEW j \in events(r, b), \A m \in events(r, b) : m <= j PROVE r[j][2] = v
    <3>1. j = n + 1
      BY <1>4, <1>7, <2>1
    <3> QED BY <1>6, <3>1
  <2> QED BY <1>4, <2>1 DEF Learns
<1>9. News(r, b, s)
  <2>1. ASSUME NEW j \in events(r, b), \A m \in events(r, b) : j <= m PROVE r[j][2] # s
    <3>1. CASE events(q, b) = {}
      <4>1. s = l /\ j = n + 1
        BY <1>4, <3>1 DEF Learns
      <4> QED BY <1>6, <4>1
    <3>2. CASE events(q, b) # {}
      <4>1. j \in events(q, b) /\ \A m \in events(q, b) : j <= m
        BY <1>4, <1>7, <2>1, <3>2
      <4> QED BY <1>5, <4>1 DEF News
    <3> QED BY <3>1, <3>2
  <2>2. ASSUME NEW j \in events(r, b), NEW k \in events(r, b), j < k,
               \A m \in events(r, b) : m <= j \/ k <= m
        PROVE  r[j][2] # r[k][2]
    <3>1. j \in events(q, b)
      BY <1>2, <1>4, <1>7, <2>2
    <3>2. CASE k \in events(q, b)
      BY <1>4, <1>5, <2>2, <3>1, <3>2, SMTT(30) DEF News
    <3>3. CASE k = n + 1
      <4>1. \A m \in events(q, b) : m <= j
        BY <1>4, <1>7, <2>2, <3>3
      <4>2. q[j][2] = l
        BY <3>1, <4>1 DEF Learns
      <4> QED BY <1>5, <1>6, <3>1, <3>3, <4>2
    <3> QED BY <1>4, <3>2, <3>3
  <2> QED BY <2>1, <2>2 DEF News
<1> QED BY <1>1, <1>8, <1>9

\* An event of another button is no news of c.
LEMMA AppendOther ==
    ASSUME NEW q \in Seq(Buttons \X Bits), NEW b \in Buttons, NEW v \in Bits,
           NEW c \in Buttons, c # b
    PROVE  LET r == Append(q, <<b, v>>)
           IN  events(r, c) = events(q, c) /\ \A j \in events(q, c) : r[j] = q[j]
<1>1. PICK r \in Seq(Buttons \X Bits) : r = Append(q, <<b, v>>)
  BY AppendProperties
<1>2. PICK n \in Nat : n = Len(q)
  OBVIOUS
<1>3. Len(r) = n + 1 /\ (\A j \in 1..n : r[j] = q[j]) /\ r[n + 1] = <<b, v>>
  <2>1. <<b, v>> \in Buttons \X Bits
    OBVIOUS
  <2> QED BY <1>1, <1>2, <2>1, AppendProperties
<1>4. events(r, c) = events(q, c) /\ \A j \in events(q, c) : r[j] = q[j]
  BY <1>2, <1>3 DEF events
<1> QED BY <1>1, <1>4

\* The same events in another queue are the same news.
LEMMA SameNews ==
    ASSUME NEW q, NEW r, NEW c, NEW s, NEW l,
           events(r, c) = events(q, c), \A j \in events(q, c) : r[j] = q[j]
    PROVE  /\ News(q, c, s) <=> News(r, c, s)
           /\ Learns(q, c, s, l) <=> Learns(r, c, s, l)
BY DEF News, Learns

\* The queue without its first event.
LEMMA FirstGone ==
    ASSUME NEW q \in Seq(Buttons \X Bits), 1 \in 1..Len(q), NEW c
    PROVE  LET r == RemoveAt(q, 1) IN
             /\ \A j \in events(r, c) : j \in Nat /\ j + 1 \in events(q, c) /\ r[j] = q[j + 1]
             /\ \A j \in events(q, c) : j \in Nat /\ (j = 1 \/ (j > 1 /\ j - 1 \in events(r, c)))
             /\ 1 \in events(q, c) <=> q[1][1] = c
<1>1. PICK r \in Seq(Buttons \X Bits) : r = RemoveAt(q, 1)
  BY RemoveAtFacts
<1>2. PICK n \in Nat : n = Len(q) /\ n > 0
  OBVIOUS
<1>3. Len(r) = n - 1 /\ \A j \in 1..(n - 1) : r[j] = q[j + 1]
  BY <1>1, <1>2, RemoveAtFacts
<1>4. \A j \in events(r, c) : j \in Nat /\ j + 1 \in events(q, c) /\ r[j] = q[j + 1]
  BY <1>2, <1>3 DEF events
<1>5. \A j \in events(q, c) : j \in Nat /\ (j = 1 \/ (j > 1 /\ j - 1 \in events(r, c)))
  BY <1>2, <1>3 DEF events
<1>6. 1 \in events(q, c) <=> q[1][1] = c
  BY <1>2 DEF events
<1> QED BY <1>1, <1>4, <1>5, <1>6

\* Broadcasting the first event, of another button or of c.
LEMMA FirstTold ==
    ASSUME NEW q \in Seq(Buttons \X Bits), 1 \in 1..Len(q), NEW c, NEW s, NEW t, NEW l,
           News(q, c, s),
           t = IF q[1][1] = c THEN q[1][2] ELSE s
    PROVE  LET r == RemoveAt(q, 1)
           IN  News(r, c, t) /\ (Learns(q, c, s, l) => Learns(r, c, t, l))
<1>1. PICK r : r = RemoveAt(q, 1)
  OBVIOUS
<1>2. /\ \A j \in events(r, c) : j \in Nat /\ j + 1 \in events(q, c) /\ r[j] = q[j + 1]
      /\ \A j \in events(q, c) : j \in Nat /\ (j = 1 \/ (j > 1 /\ j - 1 \in events(r, c)))
      /\ 1 \in events(q, c) <=> q[1][1] = c
  BY <1>1, FirstGone
<1>3. ASSUME NEW j \in events(r, c), \A m \in events(r, c) : j <= m PROVE r[j][2] # t
  <2>1. CASE 1 \in events(q, c)
    <3>1. \A m \in events(q, c) : m <= 1 \/ j + 1 <= m
      BY <1>2, <1>3
    <3>2. 1 < j + 1 /\ j + 1 \in events(q, c)
      <4>1. 0 \notin events(r, c)
        BY DEF events
      <4> QED BY <1>2, <4>1
    <3>3. q[1][2] # q[j + 1][2]
      BY <2>1, <3>1, <3>2 DEF News
    <3> QED BY <1>2, <2>1, <3>3
  <2>2. CASE 1 \notin events(q, c)
    <3>1. ASSUME NEW m \in events(q, c) PROVE j + 1 <= m
      <4>1. m \in Nat /\ m - 1 \in events(r, c)
        BY <1>2, <2>2
      <4>2. j <= m - 1 /\ j \in Nat
        BY <1>2, <1>3, <4>1
      <4> QED BY <4>1, <4>2
    <3>2. q[j + 1][2] # s
      BY <1>2, <3>1 DEF News
    <3> QED BY <1>2, <2>2, <3>2
  <2> QED BY <2>1, <2>2
<1>4. ASSUME NEW j \in events(r, c), NEW k \in events(r, c), j < k,
             \A m \in events(r, c) : m <= j \/ k <= m
      PROVE  r[j][2] # r[k][2]
  <2>1. j \in Nat /\ k \in Nat /\ j + 1 \in events(q, c) /\ k + 1 \in events(q, c) /\ j + 1 < k + 1
    BY <1>2, <1>4
  <2>2. \A m \in events(q, c) : m <= j + 1 \/ k + 1 <= m
    BY <1>2, <1>4, <2>1
  <2>3. q[j + 1][2] # q[k + 1][2]
    BY <2>1, <2>2 DEF News
  <2> QED BY <1>2, <2>3
<1>5. ASSUME Learns(q, c, s, l), NEW j \in events(r, c), \A m \in events(r, c) : m <= j
      PROVE  r[j][2] = l
  <2>1. \A m \in events(q, c) : m <= j + 1
    BY <1>2, <1>5
  <2> QED BY <1>2, <1>5, <2>1 DEF Learns
<1>6. ASSUME Learns(q, c, s, l), events(r, c) = {} PROVE t = l
  <2>1. CASE 1 \in events(q, c)
    <3>1. \A m \in events(q, c) : m <= 1
      BY <1>2, <1>6
    <3> QED BY <1>2, <1>6, <2>1, <3>1 DEF Learns
  <2>2. CASE 1 \notin events(q, c)
    <3>1. events(q, c) = {}
      BY <1>2, <1>6, <2>2
    <3> QED BY <1>2, <1>6, <2>2, <3>1 DEF Learns
  <2> QED BY <2>1, <2>2
<1> QED BY <1>1, <1>3, <1>4, <1>5, <1>6 DEF News, Learns

\* Without "reorder" the events leave the queue in their order.
Ordered == "reorder" \notin Env

LEMMA FollowInit == Init => LinelessInv /\ UserFollows
<1> SUFFICES ASSUME Init PROVE LinelessInv /\ UserFollows
  OBVIOUS
<1>1. evq = <<>> /\ \A b \in Buttons : events(evq, b) = {}
  BY DEF Init, events
<1>2. LinelessInv
  BY <1>1, ItemFacts DEF Init, LinelessInv, NULL
<1>3. UserFollows
  BY <1>1 DEF Init, UserFollows, News, Learns
<1> QED BY <1>2, <1>3

\* Steps that touch neither the states nor the events.
LEMMA FollowKept ==
    ASSUME LinelessInv, UserFollows, UNCHANGED <<evq, got, last, gpiod, lost>>,
           \A w \in Items : smp'[w] # Unknown => smp'[w] = smp[w] /\ at'[w] = at[w],
           phase' \in {"probe", "failed"} => phase \in {"probe", "failed"},
           phase' = "probe" => phase = "probe" /\ \A b \in Buttons : b >= i' => b >= i
    PROVE  LinelessInv' /\ UserFollows'
<1>1. LinelessInv'
  BY DEF LinelessInv
<1>2. UserFollows'
  BY DEF UserFollows, shown
<1> QED BY <1>1, <1>2

LEMMA FollowProbe ==
    ASSUME Running, LinelessInv, UserFollows, Probe
    PROVE  LinelessInv' /\ UserFollows'
<1> USE ButtonCount, ItemFacts
<1>1. CASE probe_skip
  <2>1. i \in Buttons /\ i' = i + 1 /\ phase = "probe" /\ phase' = "probe"
        /\ UNCHANGED <<evq, got, last, gpiod, lost, smp, at>>
    BY <1>1 DEF probe_skip, bdata, wq, hist
  <2>2. \A b \in Buttons : b >= i' => b >= i
    BY <2>1 DEF Buttons
  <2> QED BY <2>1, <2>2, FollowKept
<1>2. CASE probe_gpio
  <2>1. i \in Buttons /\ phase = "probe" /\ UNCHANGED <<evq, got, lost, smp, at>>
    BY <1>2 DEF probe_gpio, wq, hist
  <2>2. \/ phase' = "failed" /\ UNCHANGED <<gpiod, last>>
        \/ /\ phase' = "probe" /\ i' = i + 1 /\ prev' # NULL
           /\ gpiod' = [gpiod EXCEPT ![i] = prev'] /\ last' = [last EXCEPT ![i] = Unknown]
    BY <1>2 DEF probe_gpio, next_child, Running, TypeOK, Lines, NULL
  <2>3. evq = <<>> /\ \A b \in Buttons : got[b] = Unknown /\ events(evq, b) = {}
    BY <2>1 DEF LinelessInv, events
  <2>4. \A w \in Items : smp[w] = Unknown
    BY <2>1 DEF Running, ItemInv
  <2>5. CASE phase' = "failed"
    BY <2>1, <2>2, <2>5, FollowKept
  <2>6. CASE phase' = "probe"
    <3>1. \A b \in Buttons : b # i => gpiod'[b] = gpiod[b] /\ last'[b] = last[b]
      BY <2>2, <2>6 DEF Running, TypeOK
    <3>2. gpiod'[i] # NULL /\ last'[i] = Unknown
      BY <2>1, <2>2, <2>6 DEF Running, TypeOK
    <3>3. \A b \in Buttons : b >= i' => b >= i /\ b # i
      BY <2>1, <2>2, <2>6 DEF Buttons
    <3>4. LinelessInv'
      BY <2>1, <2>3, <2>4, <2>6, <3>1, <3>2, <3>3 DEF LinelessInv
    <3>5. \A b \in Buttons : gpiod'[b] # NULL => last'[b] = Unknown
      BY <2>1, <3>1, <3>2 DEF LinelessInv
    <3>6. UserFollows'
      BY <2>1, <2>3, <3>5 DEF UserFollows, News, Learns, shown
    <3> QED BY <3>4, <3>6
  <2> QED BY <2>2, <2>5, <2>6
<1>3. CASE probe_done \/ irq_start \/ irq_request \/ irq_started
  <2>1. phase' \notin {"probe", "failed"} /\ UNCHANGED <<evq, got, last, gpiod, lost, smp, at>>
    BY <1>3 DEF probe_done, irq_start, irq_request, irq_started, bdata, wq, hist
  <2> QED BY <2>1, FollowKept
<1> QED BY <1>1, <1>2, <1>3 DEF Probe

LEMMA FollowHandle ==
    ASSUME Running, LinelessInv, UserFollows, NEW w \in Items, gpio_keys_handle_button(w)
    PROVE  LinelessInv' /\ UserFollows'
<1> USE ItemFacts
<1>1. PICK b \in Buttons, v \in Bits : b = at[w] /\ v = smp[w]
  BY DEF gpio_keys_handle_button, Running, ItemInv, TypeOK
<1>2. phase \notin {"probe", "failed"} /\ UNCHANGED <<phase, gpiod, got>>
  BY <1>1 DEF gpio_keys_handle_button, Running, ItemInv
<1>3. smp' = [smp EXCEPT ![w] = Unknown] /\ \A x \in Items : x # w => at'[x] = at[x]
  BY DEF gpio_keys_handle_button, go_on, Running, TypeOK
<1>4. \A x \in Items : smp'[x] # Unknown => smp'[x] = smp[x] /\ at'[x] = at[x]
  BY <1>3 DEF Running, TypeOK
<1>5. CASE UNCHANGED <<last, evq, lost>>
  BY <1>2, <1>4, <1>5, FollowKept
<1>6. ASSUME last[b] # v PROVE gpiod[b] # NULL
  BY <1>1, <1>6 DEF LinelessInv
<1>7. ASSUME last[b] # v, last' = [last EXCEPT ![b] = v],
             evq' = evq \/ evq' = Append(evq, <<b, v>>)
      PROVE  LinelessInv'
  <2>1. \A c \in Buttons : gpiod[c] = NULL => last'[c] = last[c] /\ events(evq', c) = events(evq, c)
    <3>1. \A c \in Buttons : gpiod[c] = NULL => c # b
      BY <1>6, <1>7
    <3>2. \A c \in Buttons : c # b => last'[c] = last[c]
      BY <1>7 DEF Running, TypeOK
    <3>3. ASSUME NEW c \in Buttons, c # b PROVE events(evq', c) = events(evq, c)
      <4>0. evq \in Seq(Buttons \X Bits)
        BY DEF Running, TypeOK
      <4>1. events(Append(evq, <<b, v>>), c) = events(evq, c)
        BY <3>3, <4>0, AppendOther
      <4> QED BY <1>7, <4>1, Zenon
    <3> QED BY <3>1, <3>2, <3>3
  <2> QED BY <1>2, <1>4, <2>1 DEF LinelessInv
<1>8. ASSUME silent(b, v), set_state(b, v), UNCHANGED <<evq, lost>> PROVE UserFollows'
  <2>1. \A c \in Buttons : shown(c, last'[c]) = shown(c, last[c])
    BY <1>8 DEF silent, set_state, shown, Running, TypeOK
  <2>2. \A c \in Buttons : shown(c, got[c])' = shown(c, got[c])
    BY <1>2 DEF shown
  <2> QED BY <1>2, <1>8, <2>1, <2>2 DEF UserFollows
<1>9. ASSUME last[b] # v, ~silent(b, v), set_state(b, v), create_event(b, v) PROVE UserFollows'
  <2>1. \A c \in Buttons : c # b => last'[c] = last[c]
    BY <1>9 DEF set_state, Running, TypeOK
  <2>2. last'[b] = v
    BY <1>9 DEF set_state, Running, TypeOK
  <2>3. CASE lost' = lost \cup {b} /\ UNCHANGED evq
    BY <1>2, <2>1, <2>3 DEF UserFollows, shown
  <2>4. CASE evq' = Append(evq, <<b, v>>) /\ UNCHANGED lost
    <3>1. evq \in Seq(Buttons \X Bits)
      BY DEF Running, TypeOK
    <3>2. ASSUME NEW c \in Buttons \ lost, c # b
          PROVE  /\ News(evq', c, shown(c, got'[c]))
                 /\ gpiod'[c] # NULL => Learns(evq', c, shown(c, got'[c]), shown(c, last'[c]))
      <4>1. events(evq', c) = events(evq, c) /\ \A j \in events(evq, c) : evq'[j] = evq[j]
        <5>1. /\ events(Append(evq, <<b, v>>), c) = events(evq, c)
              /\ \A j \in events(evq, c) : Append(evq, <<b, v>>)[j] = evq[j]
          BY <3>1, <3>2, AppendOther
        <5> QED BY <2>4, <5>1, Zenon
      <4>2. shown(c, got'[c]) = shown(c, got[c]) /\ shown(c, last'[c]) = shown(c, last[c])
        BY <1>2, <2>1, <3>2
      <4> QED BY <1>2, <4>1, <4>2, SameNews DEF UserFollows
    <3>3. ASSUME b \notin lost
          PROVE  /\ News(evq', b, shown(b, got'[b]))
                 /\ gpiod'[b] # NULL => Learns(evq', b, shown(b, got'[b]), shown(b, last'[b]))
      <4>1. v # shown(b, last[b]) /\ shown(b, v) = v
        BY <1>9 DEF silent, shown, Running, TypeOK
      <4>2. News(evq, b, shown(b, got[b])) /\ Learns(evq, b, shown(b, got[b]), shown(b, last[b]))
        BY <1>6, <1>9, <3>3 DEF UserFollows
      <4>3. PICK s, l : s = shown(b, got[b]) /\ l = shown(b, last[b])
        OBVIOUS
      <4>4. News(evq', b, s) /\ Learns(evq', b, s, v)
        BY <2>4, <3>1, <4>1, <4>2, <4>3, AppendNews
      <4> QED BY <1>2, <2>2, <4>1, <4>3, <4>4
    <3>4. lost' = lost
      BY <2>4
    <3> QED BY <3>2, <3>3, <3>4 DEF UserFollows, shown
  <2> QED BY <1>9, <2>3, <2>4 DEF create_event
<1>10. \/ UNCHANGED <<last, evq, lost>>
       \/ silent(b, v) /\ set_state(b, v) /\ UNCHANGED <<evq, lost>>
       \/ last[b] # v /\ ~silent(b, v) /\ set_state(b, v) /\ create_event(b, v)
  BY <1>1 DEF gpio_keys_handle_button
<1>11. silent(b, v) => last[b] # v
  BY DEF silent
<1> QED BY <1>5, <1>7, <1>8, <1>9, <1>10, <1>11 DEF set_state, create_event

LEMMA FollowTold ==
    ASSUME Ordered, Running, LinelessInv, UserFollows,
           NEW k \in 1..Len(evq), button_hotplug_work(k)
    PROVE  LinelessInv' /\ UserFollows'
<1>1. k = 1
  BY DEF button_hotplug_work, Ordered
<1>2. evq \in Seq(Buttons \X Bits) /\ 1 \in 1..Len(evq) /\ evq[1] \in Buttons \X Bits
  BY <1>1 DEF Running, TypeOK
<1>3. PICK b \in Buttons, v \in Bits : b = evq[1][1] /\ v = evq[1][2]
  BY <1>2
<1>4. evq' = RemoveAt(evq, 1) /\ UNCHANGED <<phase, i, gpiod, last, smp, at>>
  BY <1>1 DEF button_hotplug_work, bdata, wq
<1>5. \/ got' = [got EXCEPT ![b] = v] /\ lost' = lost
      \/ got' = got /\ lost' = lost \cup {b}
  BY <1>1, <1>3 DEF button_hotplug_work
<1>6. \A c \in Buttons : c # b => got'[c] = got[c]
  BY <1>5 DEF Running, TypeOK
<1>7. phase \notin {"probe", "failed"}
  BY <1>2 DEF LinelessInv
<1>8. gpiod[b] # NULL
  <2>1. 1 \in events(evq, b)
    BY <1>2, <1>3 DEF events
  <2> QED BY <2>1 DEF LinelessInv
<1>9. LinelessInv'
  <2>1. ASSUME NEW c \in Buttons, events(evq, c) = {} PROVE events(evq', c) = {}
    <3>1. PICK r : r = evq'
      OBVIOUS
    <3>2. \A j \in events(r, c) : j + 1 \in events(evq, c)
      BY <1>2, <1>4, <3>1, FirstGone
    <3> QED BY <2>1, <3>1, <3>2
  <2>2. \A c \in Buttons : gpiod[c] = NULL => got'[c] = got[c]
    BY <1>6, <1>8
  <2> QED BY <1>4, <1>7, <2>1, <2>2 DEF LinelessInv
<1>10. ASSUME NEW c \in Buttons \ lost'
       PROVE  /\ News(evq', c, shown(c, got'[c]))
              /\ gpiod'[c] # NULL => Learns(evq', c, shown(c, got'[c]), shown(c, last'[c]))
  <2>1. c \notin lost
    BY <1>5, <1>10
  <2>2. shown(c, got'[c]) = IF evq[1][1] = c THEN evq[1][2] ELSE shown(c, got[c])
    <3>1. CASE c = b
      <4>1. got'[c] = v
        BY <1>5, <1>10, <3>1 DEF Running, TypeOK
      <4> QED BY <1>3, <3>1, <4>1, ItemFacts DEF shown
    <3>2. CASE c # b
      BY <1>3, <1>6, <3>2
    <3> QED BY <3>1, <3>2
  <2>3. PICK s, t, l : s = shown(c, got[c]) /\ t = shown(c, got'[c]) /\ l = shown(c, last[c])
    OBVIOUS
  <2>4. News(evq, c, s) /\ (gpiod[c] # NULL => Learns(evq, c, s, l))
    BY <1>10, <2>1, <2>3 DEF UserFollows
  <2>5. t = IF evq[1][1] = c THEN evq[1][2] ELSE s
    BY <2>2, <2>3
  <2>6. News(evq', c, t) /\ (Learns(evq, c, s, l) => Learns(evq', c, t, l))
    BY <1>2, <1>4, <2>4, <2>5, FirstTold
  <2> QED BY <1>4, <2>3, <2>4, <2>6
<1>11. UserFollows'
  BY <1>10 DEF UserFollows, shown
<1> QED BY <1>9, <1>11

LEMMA FollowNext == Ordered /\ Running /\ LinelessInv /\ UserFollows /\ [Next]_vars
                      => LinelessInv' /\ UserFollows'
<1> SUFFICES ASSUME Ordered, Running, LinelessInv, UserFollows, [Next]_vars
             PROVE  LinelessInv' /\ UserFollows'
  OBVIOUS
<1> USE ItemFacts
<1> DEFINE Kept == UNCHANGED <<evq, got, last, gpiod, lost>>
           Smp  == \A w \in Items : smp'[w] # Unknown => smp'[w] = smp[w] /\ at'[w] = at[w]
<1>1. ASSUME Kept, Smp, phase' \notin {"probe", "failed"} \/ UNCHANGED <<phase, i>>
      PROVE  LinelessInv' /\ UserFollows'
  BY <1>1, FollowKept
<1>2. CASE UNCHANGED vars
  BY <1>1, <1>2 DEF vars, bdata, wq, hist
<1>3. CASE (\E n \in Lines : change(n)) \/ (\E b \in Buttons : button_handle_irq(b))
  BY <1>1, <1>3 DEF change, button_handle_irq, bdata, wq, hist
<1>4. ASSUME NEW w \in Items, run_begin(w) PROVE LinelessInv' /\ UserFollows'
  <2>1. Smp
    BY <1>4 DEF run_begin, Running, TypeOK, ItemInv
  <2> QED BY <1>1, <1>4, <2>1 DEF run_begin, bdata, hist
<1>5. CASE poll_skip
  <2>1. Smp
    BY <1>5 DEF poll_skip, go_on, Running, TypeOK, ItemInv
  <2> QED BY <1>1, <1>5, <2>1 DEF poll_skip, bdata, hist
<1>6. CASE remove_begin \/ RemoveSteps
  BY <1>1, <1>6 DEF remove_begin, RemoveSteps, remove_disable, remove_cancel, remove_sync,
                    devres_release, bdata, wq, hist
<1>7. ASSUME NEW w \in Items, sample(w) PROVE LinelessInv' /\ UserFollows'
  <2>1. Kept /\ UNCHANGED <<phase, i, at>>
    BY <1>7 DEF sample, bdata
  <2>2. UserFollows'
    BY <2>1 DEF UserFollows, shown
  <2>3. smp' = [smp EXCEPT ![w] = get_value(at[w])] /\ (gpiod[at[w]] = NULL => get_value(at[w]) = 0)
    BY <1>7 DEF sample, get_value
  <2>4. \A x \in Items : smp'[x] # Unknown /\ gpiod[at[x]] = NULL => smp'[x] = 0
    BY <2>3 DEF LinelessInv, Running, TypeOK
  <2>5. LinelessInv'
    BY <2>1, <2>4 DEF LinelessInv
  <2> QED BY <2>2, <2>5
<1> HIDE DEF Kept, Smp
<1> QED BY <1>2, <1>3, <1>4, <1>5, <1>6, <1>7, FollowProbe, FollowHandle, FollowTold
        DEF Next, Sampling

\* User space follows the driver, as long as the workqueue keeps the order of
\* the events: what it is told of a button alternates and ends with the state
\* the driver holds, for every button no event of which was dropped.
THEOREM UserSpaceFollows == Ordered => (Spec => []UserFollows)
<1> SUFFICES ASSUME Ordered PROVE Spec => []UserFollows
  OBVIOUS
<1>1. Init => Running /\ LinelessInv /\ UserFollows
  BY RunningInit, FollowInit
<1>2. Running /\ LinelessInv /\ UserFollows /\ [Next]_vars
        => (Running /\ LinelessInv /\ UserFollows)'
  BY RunningNext, FollowNext
<1> QED BY <1>1, <1>2, PTL DEF Spec
=============================================================================
