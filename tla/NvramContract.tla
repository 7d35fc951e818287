--------------------------- MODULE NvramContract ---------------------------
(***************************************************************************)
(* What nvram promises: a set of variables in flash and a working copy of  *)
(* it.  Commands change the copy, commit writes it to flash, power loss    *)
(* takes the copy back to what flash holds; power loss during the write    *)
(* itself leaves a part of what was to be written.                         *)
(***************************************************************************)
CONSTANTS Names, Values,
          Special,     \* variables that always have a value
          Fits(_)      \* Fits(m): there is room for the variables of m

VARIABLES ram,         \* the working copy
          flash,       \* what flash holds
          busy,        \* flash is being written
          off          \* there is no power

vars == <<ram, flash, busy, off>>

Maps == UNION {[D -> Values] : D \in SUBSET Names}
Lost == [x \in {} |-> x]

With(m, n, v)  == [x \in DOMAIN m \cup {n} |-> IF x = n THEN v ELSE m[x]]
Without(m, n)  == [x \in DOMAIN m \ {n} |-> m[x]]

\* f is m, or what is left of it when there is no room for it.
Kept(f, m) ==
    \/ f = m
    \/ /\ DOMAIN f \subseteq DOMAIN m
       /\ \A n \in DOMAIN f \ Special : f[n] = m[n]
       /\ ~Fits(m)

\* f is a part of m: some of its variables, one of them at most with a wrong
\* value; special ones may have any.
Torn(f, m) ==
    /\ DOMAIN f \subseteq DOMAIN m
    /\ \A x, y \in DOMAIN f \ Special : f[x] # m[x] /\ f[y] # m[y] => x = y

Init ==
    /\ flash \in Maps
    /\ ram = flash
    /\ busy = FALSE /\ off = FALSE

Set(n, v) ==
    /\ ~busy
    /\ Kept(ram', With(ram, n, v))
    /\ UNCHANGED <<flash, busy, off>>

\* A special variable that is unset falls back to some value: that is a Set.
Unset(n) ==
    /\ ~busy /\ n \notin Special
    /\ ram' = Without(ram, n)
    /\ UNCHANGED <<flash, busy, off>>

\* What flash held is gone before the new variables are there.
CommitBegin ==
    /\ ~busy /\ busy' = TRUE
    /\ flash' = Lost
    /\ UNCHANGED <<ram, off>>

CommitEnd ==
    /\ busy /\ busy' = FALSE
    /\ flash' = ram
    /\ UNCHANGED <<ram, off>>

PowerLoss ==
    /\ ~off /\ off' = TRUE
    /\ IF busy THEN Torn(flash', ram) ELSE flash' = flash
    /\ ram' = flash'
    /\ busy' = FALSE

Boot ==
    /\ off /\ off' = FALSE
    /\ UNCHANGED <<ram, flash, busy>>

Next ==
    \/ \E n \in Names : Unset(n) \/ \E v \in Values : Set(n, v)
    \/ CommitBegin \/ CommitEnd \/ PowerLoss \/ Boot

Spec == Init /\ [][Next]_vars
=============================================================================
