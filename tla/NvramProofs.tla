---------------------------- MODULE NvramProofs ----------------------------
(***************************************************************************)
(* Theorems about Nvram: for any variables, values, hash function and size *)
(* of the partition.                                                       *)
(***************************************************************************)
EXTENDS Nvram, FiniteSetTheorems, SequenceTheorems, WellFoundedInduction, TLAPS

-----------------------------------------------------------------------------
(***************************************************************************)
(* Induction and recursion over positions, with sets and functions in the  *)
(* place of predicates and operators                                       *)
(***************************************************************************)

\* What holds at 0 and goes on from each position to the next holds up to n.
LEMMA Induct ==
    ASSUME NEW n \in Nat, NEW S, 0 \in S, \A k \in 1..n : k - 1 \in S => k \in S
    PROVE  \A k \in 0..n : k \in S
<1> DEFINE T == {k \in 0..n : k \notin S}
           R == OpToRel(<, Nat)
<1> SUFFICES ASSUME T # {} PROVE FALSE
  OBVIOUS
<1>1. IsWellFoundedOn(R, Nat)
  BY NatLessThanWellFounded, Zenon
<1>2. T \subseteq Nat
  OBVIOUS
<1> HIDE DEF R, T
<1>3. PICK x \in T : \A y \in T : ~ (<<y, x>> \in R)
  BY <1>1, <1>2, WFMin
<1> USE DEF T
<1>4. x \in 1..n /\ x - 1 \notin S
  BY <1>3
<1>5. x - 1 \in T
  BY <1>4
<1>6. <<x - 1, x>> \in R
  BY <1>4, <1>5 DEF R, OpToRel
<1> QED BY <1>3, <1>5, <1>6

\* There is a function with a given first value and given steps.
Steps(n, S, base, F) == n \in Nat /\ base \in S /\ F \in [1..n -> [S -> S]]

Iterates(n, S, base, F, f) ==
    f \in [0..n -> S] /\ f[0] = base /\ \A k \in 1..n : f[k] = F[k][f[k - 1]]

LEMMA Recursion ==
    ASSUME NEW n, NEW S, NEW base, NEW F, Steps(n, S, base, F)
    PROVE  \E f : Iterates(n, S, base, F, f)
<1> USE DEF Steps
<1> DEFINE Up(m) == \E f \in [0..m -> S] : f[0] = base /\ \A k \in 1..m : f[k] = F[k][f[k - 1]]
           T == {m \in 0..n : Up(m)}
<1>1. 0 \in T
  <2> DEFINE f == [k \in 0..0 |-> base]
  <2>1. f \in [0..0 -> S] /\ f[0] = base
    OBVIOUS
  <2>2. \A k \in 1..0 : f[k] = F[k][f[k - 1]]
    OBVIOUS
  <2> HIDE DEF f
  <2>3. Up(0)
    BY <2>1, <2>2, Zenon
  <2> HIDE DEF Up
  <2> QED BY <2>3
<1>2. ASSUME NEW m \in 1..n, m - 1 \in T PROVE m \in T
  <2>1. PICK f \in [0..(m - 1) -> S] : f[0] = base /\ \A k \in 1..(m - 1) : f[k] = F[k][f[k - 1]]
    BY <1>2
  <2> DEFINE g == [k \in 0..m |-> IF k = m THEN F[m][f[m - 1]] ELSE f[k]]
  <2>2. f[m - 1] \in S /\ F[m] \in [S -> S]
    OBVIOUS
  <2>3. g \in [0..m -> S]
    BY <2>2
  <2>4. g[0] = base
    BY <2>1
  <2>5. \A k \in 1..m : g[k] = F[k][g[k - 1]]
    BY <2>1
  <2>6. Up(m)
    BY <2>3, <2>4, <2>5
  <2> HIDE DEF Up
  <2> QED BY <2>6
<1> HIDE DEF T
<1>3. \A m \in 1..n : m - 1 \in T => m \in T
  BY <1>2
<1>4. \A m \in 0..n : m \in T
  BY <1>1, <1>3, Induct
<1>5. n \in T
  BY <1>4
<1>6. Up(n)
  BY <1>5 DEF T
<1> QED BY <1>6, Zenon DEF Iterates

-----------------------------------------------------------------------------
(***************************************************************************)
(* Sizes                                                                   *)
(***************************************************************************)

LEMMA BytesNat == \A t \in Tuples : bytes(t) \in Nat
BY LenAssumption DEF bytes, Tuples

\* f counts the bytes of s up to each position.
Counts(s, f) ==
    f \in [0..Len(s) -> Nat] /\ f[0] = 0 /\ \A k \in 1..Len(s) : f[k] = f[k - 1] + bytes(s[k])

LEMMA SizeCounts ==
    ASSUME NEW s \in Seq(Tuples)
    PROVE  \E f : Counts(s, f) /\ size(s) = f[Len(s)]
<1> DEFINE P(f) == f = [k \in 0..Len(s) |-> IF k = 0 THEN 0 ELSE f[k - 1] + bytes(s[k])]
           F == [k \in 1..Len(s) |-> [x \in Nat |-> x + bytes(s[k])]]
           c == CHOOSE f : P(f)
<1>1. Len(s) \in Nat /\ \A k \in 1..Len(s) : bytes(s[k]) \in Nat
  BY BytesNat
<1>2. F \in [1..Len(s) -> [Nat -> Nat]]
  BY <1>1
<1>2a. Steps(Len(s), Nat, 0, F)
  BY <1>1, <1>2 DEF Steps
<1>2b. PICK f : Iterates(Len(s), Nat, 0, F, f)
  <2> HIDE DEF F
  <2> QED BY <1>2a, Recursion
<1>3. /\ f \in [0..Len(s) -> Nat] /\ f[0] = 0
      /\ \A k \in 1..Len(s) : f[k] = F[k][f[k - 1]]
  BY <1>2b DEF Iterates
<1>4. ASSUME NEW k \in 1..Len(s) PROVE f[k] = f[k - 1] + bytes(s[k])
  <2>1. k - 1 \in 0..Len(s)
    BY <1>1
  <2>2. f[k - 1] \in Nat
    BY <2>1, <1>3
  <2>3. F[k][f[k - 1]] = f[k - 1] + bytes(s[k])
    BY <2>2
  <2> QED BY <2>3, <1>3
<1>5. P(f)
  BY <1>1, <1>3, <1>4
<1>6. P(c)
  <2> HIDE DEF P
  <2> QED BY <1>5
<1>7. size(s) = c[Len(s)]
  BY DEF size
<1>8. c = [k \in 0..Len(s) |-> IF k = 0 THEN 0 ELSE c[k - 1] + bytes(s[k])]
  BY <1>6
<1> HIDE DEF c
<1> DEFINE S == {k \in 0..Len(s) : c[k] \in Nat}
<1>9. \A k \in 0..Len(s) : k \in S
  <2>1. 0 \in S
    BY <1>1, <1>8
  <2>2. ASSUME NEW k \in 1..Len(s), k - 1 \in S PROVE k \in S
    <3>1. c[k] = c[k - 1] + bytes(s[k])
      BY <1>8
    <3> QED BY <3>1, <2>2, <1>1
  <2>3. \A k \in 1..Len(s) : k - 1 \in S => k \in S
    BY <2>2
  <2> HIDE DEF S
  <2> QED BY <1>1, <2>1, <2>3, Induct
<1>10. c \in [0..Len(s) -> Nat]
  BY <1>8, <1>9
<1>11. c[0] = 0 /\ \A k \in 1..Len(s) : c[k] = c[k - 1] + bytes(s[k])
  BY <1>1, <1>8
<1> QED BY <1>7, <1>10, <1>11 DEF Counts

\* Counting gives one result.
LEMMA SizeIs ==
    ASSUME NEW s \in Seq(Tuples), NEW f, f[0] = 0,
           \A k \in 1..Len(s) : f[k] = f[k - 1] + bytes(s[k])
    PROVE  size(s) \in Nat /\ size(s) = f[Len(s)]
<1>1. PICK c : Counts(s, c) /\ size(s) = c[Len(s)]
  BY SizeCounts
<1>2. Len(s) \in Nat
  OBVIOUS
<1> DEFINE S == {k \in 0..Len(s) : c[k] = f[k]}
<1>3. 0 \in S
  BY <1>1, <1>2 DEF Counts
<1>4. \A k \in 1..Len(s) : k - 1 \in S => k \in S
  BY <1>1, <1>2 DEF Counts
<1> HIDE DEF S
<1>5. \A k \in 0..Len(s) : k \in S
  BY <1>2, <1>3, <1>4, Induct
<1>6. Len(s) \in S
  BY <1>2, <1>5
<1> QED BY <1>1, <1>2, <1>6 DEF S, Counts

LEMMA SizeEmpty == size(<<>>) = 0
<1> DEFINE f == [k \in 0..0 |-> 0]
<1>1. <<>> \in Seq(Tuples) /\ Len(<<>>) = 0 /\ f[0] = 0 /\ \A k \in 1..0 : f[k] = f[k - 1] + bytes(<<>>[k])
  OBVIOUS
<1> HIDE DEF f
<1> QED BY <1>1, SizeIs

\* One tuple more.
LEMMA SizePrefix ==
    ASSUME NEW s \in Seq(Tuples), NEW c, Counts(s, c), NEW k \in 0..Len(s)
    PROVE  SubSeq(s, 1, k) \in Seq(Tuples) /\ size(SubSeq(s, 1, k)) = c[k]
<1> DEFINE p == SubSeq(s, 1, k)
<1>1. p \in Seq(Tuples) /\ Len(p) = k /\ \A j \in 1..k : p[j] = s[j]
  OBVIOUS
<1>2. c[0] = 0 /\ \A j \in 1..k : c[j] = c[j - 1] + bytes(p[j])
  BY <1>1 DEF Counts
<1> HIDE DEF p
<1>3. size(p) = c[Len(p)]
  BY <1>1, <1>2, SizeIs
<1> QED BY <1>1, <1>3 DEF p

LEMMA SizeConcat ==
    ASSUME NEW s \in Seq(Tuples), NEW t \in Seq(Tuples)
    PROVE  s \o t \in Seq(Tuples) /\ size(s \o t) = size(s) + size(t)
<1>1. PICK c : Counts(s, c) /\ size(s) = c[Len(s)]
  BY SizeCounts
<1>2. PICK d : Counts(t, d) /\ size(t) = d[Len(t)]
  BY SizeCounts
<1> DEFINE m == Len(s)
           n == Len(t)
           u == s \o t
           f == [k \in 0..(m + n) |-> IF k <= m THEN c[k] ELSE c[m] + d[k - m]]
<1>3. m \in Nat /\ n \in Nat
  OBVIOUS
<1>4. u \in Seq(Tuples) /\ Len(u) = m + n
  OBVIOUS
<1>5. \A k \in 1..(m + n) : u[k] = IF k <= m THEN s[k] ELSE t[k - m]
  OBVIOUS
<1>6. c[m] \in Nat /\ d[n] \in Nat /\ c[0] = 0 /\ d[0] = 0
  BY <1>1, <1>2, <1>3 DEF Counts
<1>7. /\ \A k \in 1..m : c[k] = c[k - 1] + bytes(s[k])
      /\ \A k \in 1..n : d[k] = d[k - 1] + bytes(t[k]) /\ d[k - 1] \in Nat
  BY <1>1, <1>2, <1>3 DEF Counts
<1> HIDE DEF m, n, u
<1>8. ASSUME NEW k \in 1..(m + n) PROVE f[k] = f[k - 1] + bytes(u[k])
  <2>1. CASE k <= m
    <3>1. f[k] = c[k] /\ f[k - 1] = c[k - 1] /\ u[k] = s[k] /\ k \in 1..m
      BY <1>3, <1>5, <2>1
    <3> QED BY <3>1, <1>7
  <2>2. CASE k = m + 1
    <3>0. k - m = 1 /\ k - 1 = m /\ 1 \in 1..n /\ ~(k <= m) /\ m \in 0..(m + n) /\ k \in 0..(m + n)
      BY <1>3, <2>2
    <3>1. f[k] = c[m] + d[1] /\ f[k - 1] = c[m] /\ u[k] = t[1]
      BY <1>3, <1>5, <3>0
    <3>2. d[1] = 0 + bytes(t[1])
      BY <3>0, <1>6, <1>7
    <3>3. bytes(t[1]) \in Nat
      BY <3>0, BytesNat DEF n
    <3> QED BY <3>1, <3>2, <3>3, <1>6
  <2>3. CASE k > m + 1
    <3>1. f[k] = c[m] + d[k - m] /\ f[k - 1] = c[m] + d[k - m - 1] /\ u[k] = t[k - m] /\ k - m \in 1..n
      BY <1>3, <1>5, <2>3
    <3>2. d[k - m] = d[k - m - 1] + bytes(t[k - m]) /\ d[k - m - 1] \in Nat
      BY <3>1, <1>7
    <3>3. bytes(t[k - m]) \in Nat
      BY <3>1, BytesNat DEF n
    <3> QED BY <3>1, <3>2, <3>3, <1>6
  <2> QED BY <1>3, <2>1, <2>2, <2>3
<1>9. f[0] = 0
  BY <1>3, <1>6
<1>10. f[m + n] = c[m] + d[n]
  BY <1>3, <1>6
<1> HIDE DEF f
<1>11. size(u) = f[Len(u)]
  BY <1>4, <1>8, <1>9, SizeIs
<1> QED BY <1>1, <1>2, <1>4, <1>10, <1>11 DEF m, n, u
LEMMA SizeNat ==
    ASSUME NEW s \in Seq(Tuples)
    PROVE  size(s) \in Nat
<1>1. PICK c : Counts(s, c) /\ size(s) = c[Len(s)]
  BY SizeCounts
<1>2. Len(s) \in 0..Len(s)
  OBVIOUS
<1> QED BY <1>1, <1>2 DEF Counts

LEMMA SizeLast ==
    ASSUME NEW s \in Seq(Tuples), NEW k \in 1..Len(s)
    PROVE  /\ SubSeq(s, 1, k) \in Seq(Tuples) /\ SubSeq(s, 1, k - 1) \in Seq(Tuples)
           /\ size(SubSeq(s, 1, k)) = size(SubSeq(s, 1, k - 1)) + bytes(s[k])
           /\ size(SubSeq(s, 1, k - 1)) \in Nat /\ bytes(s[k]) \in Nat
<1>1. PICK c : Counts(s, c)
  BY SizeCounts
<1>2. k \in 0..Len(s) /\ k - 1 \in 0..Len(s) /\ s[k] \in Tuples
  OBVIOUS
<1>3. SubSeq(s, 1, k) \in Seq(Tuples) /\ size(SubSeq(s, 1, k)) = c[k]
  BY <1>1, <1>2, SizePrefix
<1>4. SubSeq(s, 1, k - 1) \in Seq(Tuples) /\ size(SubSeq(s, 1, k - 1)) = c[k - 1]
  BY <1>1, <1>2, SizePrefix
<1>5. c[k] = c[k - 1] + bytes(s[k]) /\ c[k - 1] \in Nat
  BY <1>1, <1>2 DEF Counts
<1> QED BY <1>2, <1>3, <1>4, <1>5, BytesNat

LEMMA Joined ==
    ASSUME NEW s \in Seq(Tuples), NEW t \in Seq(Tuples), NEW m, NEW n, m = Len(s), n = Len(t)
    PROVE  /\ s \o t \in Seq(Tuples) /\ Len(s \o t) = m + n /\ m \in Nat /\ n \in Nat
           /\ \A k \in 1..m : (s \o t)[k] = s[k]
           /\ \A k \in 1..n : (s \o t)[m + k] = t[k]
OBVIOUS

\* r is s without its k-th tuple.
Removed(s, k, r) ==
    /\ r \in Seq(Tuples) /\ Len(r) = Len(s) - 1
    /\ \A j \in 1..(k - 1) : r[j] = s[j]
    /\ \A j \in k..(Len(s) - 1) : r[j] = s[j + 1]
    /\ size(s) = size(r) + bytes(s[k])

LEMMA SizeRemove ==
    ASSUME NEW s \in Seq(Tuples), NEW k \in 1..Len(s)
    PROVE  Removed(s, k, RemoveAt(s, k))
<1> DEFINE l == Len(s)
<1> DEFINE a == SubSeq(s, 1, k - 1)
           b == SubSeq(s, k + 1, Len(s))
           c == SubSeq(s, 1, k)
<1>1. l \in Nat /\ k \in Nat /\ 1 <= k /\ k <= l
  OBVIOUS
<1>2. a \in Seq(Tuples) /\ Len(a) = k - 1 /\ \A j \in 1..(k - 1) : a[j] = s[j]
  BY <1>1
<1>3. b \in Seq(Tuples) /\ Len(b) = l - k /\ \A j \in 1..(l - k) : b[j] = s[k + j]
  BY <1>1
<1>4. c \in Seq(Tuples) /\ Len(c) = k /\ \A j \in 1..k : c[j] = s[j]
  BY <1>1
<1>5. RemoveAt(s, k) = a \o b
  BY DEF RemoveAt
<1>6. size(c) = size(a) + bytes(s[k]) /\ size(a) \in Nat /\ bytes(s[k]) \in Nat
  BY SizeLast
<1> HIDE DEF a, b, c
<1> DEFINE u == c \o b
           v == a \o b
<1>7. /\ u \in Seq(Tuples) /\ Len(u) = k + (l - k)
      /\ \A j \in 1..k : u[j] = c[j]
      /\ \A j \in 1..(l - k) : u[k + j] = b[j]
  BY <1>3, <1>4, Joined
<1>8. /\ v \in Seq(Tuples) /\ Len(v) = (k - 1) + (l - k)
      /\ \A j \in 1..(k - 1) : v[j] = a[j]
      /\ \A j \in 1..(l - k) : v[k - 1 + j] = b[j]
  <2> DEFINE i == k - 1
             e == l - k
  <2>1. a \in Seq(Tuples) /\ Len(a) = i /\ b \in Seq(Tuples) /\ Len(b) = e
    BY <1>2, <1>3
  <2> HIDE DEF i, e
  <2>2. /\ v \in Seq(Tuples) /\ Len(v) = i + e
        /\ \A j \in 1..i : v[j] = a[j]
        /\ \A j \in 1..e : v[i + j] = b[j]
    BY <2>1, Joined
  <2> QED BY <2>2 DEF i, e
<1>9. size(u) = size(c) + size(b) /\ size(v) = size(a) + size(b)
  BY <1>2, <1>3, <1>4, SizeConcat
<1> HIDE DEF u, v
<1>10. s = u
  <2>1. Len(u) = Len(s)
    BY <1>1, <1>7
  <2>2. ASSUME NEW j \in 1..Len(s) PROVE s[j] = u[j]
    <3>1. CASE j <= k
      BY <3>1, <1>1, <1>4, <1>7
    <3>2. CASE j > k
      <4>1. j - k \in 1..(l - k) /\ k + (j - k) = j
        BY <3>2, <1>1
      <4>2. u[j] = b[j - k] /\ b[j - k] = s[j]
        BY <4>1, <1>3, <1>7
      <4> QED BY <4>2
    <3> QED BY <1>1, <3>1, <3>2
  <2> QED BY <2>1, <2>2, <1>7, SeqEqual
<1>11. size(b) \in Nat
  BY <1>3, SizeNat
<1>12. size(s) = size(v) + bytes(s[k])
  BY <1>6, <1>9, <1>10, <1>11
<1>13. Len(v) = l - 1
  BY <1>1, <1>8
<1>14. \A j \in 1..(k - 1) : v[j] = s[j]
  BY <1>2, <1>8
<1>15. ASSUME NEW j \in k..(l - 1) PROVE v[j] = s[j + 1]
  <2>1. j - (k - 1) \in 1..(l - k) /\ k + (j - (k - 1)) = j + 1 /\ k - 1 + (j - (k - 1)) = j
    BY <1>1
  <2>2. v[j] = b[j - (k - 1)] /\ b[j - (k - 1)] = s[j + 1]
    BY <2>1, <1>3, <1>8
  <2> QED BY <2>2
<1> QED BY <1>5, <1>8, <1>12, <1>13, <1>14, <1>15 DEF v, Removed

Differ(s) == \A j, k \in 1..Len(s) : s[j] = s[k] => j = k

\* Different tuples of a sequence are together no longer than the sequence.
LEMMA SizeWithin ==
    ASSUME NEW s \in Seq(Tuples), NEW t \in Seq(Tuples), Differ(s),
           \A j \in 1..Len(s) : \E k \in 1..Len(t) : s[j] = t[k]
    PROVE  size(s) <= size(t)
<1> DEFINE Within(u, v) == \A j \in 1..Len(u) : \E k \in 1..Len(v) : u[j] = v[k]
           Short(m) == \A u, v \in Seq(Tuples) :
                         Len(u) = m /\ Differ(u) /\ Within(u, v) => size(u) <= size(v)
           n == Len(s)
           S == {m \in 0..n : Short(m)}
<1>1. n \in Nat
  OBVIOUS
<1>2. Short(0)
  <2>1. ASSUME NEW u \in Seq(Tuples), NEW v \in Seq(Tuples), Len(u) = 0
        PROVE  size(u) <= size(v)
    <3>1. u = <<>>
      BY <2>1
    <3>2. size(u) = 0
      BY <3>1, SizeEmpty
    <3>3. size(v) \in Nat
      BY SizeNat
    <3> QED BY <3>2, <3>3
  <2> QED BY <2>1
<1>3. ASSUME NEW m \in 1..n, Short(m - 1) PROVE Short(m)
  <2> SUFFICES ASSUME NEW u \in Seq(Tuples), NEW v \in Seq(Tuples),
                      Len(u) = m, Differ(u), Within(u, v)
               PROVE  size(u) <= size(v)
    OBVIOUS
  <2>1. PICK k \in 1..Len(v) : u[m] = v[k]
    OBVIOUS
  <2> DEFINE x == RemoveAt(u, m)
             y == RemoveAt(v, k)
  <2>2. /\ x \in Seq(Tuples) /\ Len(x) = m - 1 /\ size(u) = size(x) + bytes(u[m])
        /\ \A j \in 1..(m - 1) : x[j] = u[j]
    <3>1. m \in 1..Len(u)
      OBVIOUS
    <3>2. Removed(u, m, x)
      BY <3>1, SizeRemove
    <3> QED BY <3>2 DEF Removed
  <2>3. /\ y \in Seq(Tuples) /\ Len(y) = Len(v) - 1 /\ size(v) = size(y) + bytes(v[k])
        /\ \A j \in 1..(k - 1) : y[j] = v[j]
        /\ \A j \in k..(Len(v) - 1) : y[j] = v[j + 1]
    <3>1. Removed(v, k, y)
      BY SizeRemove
    <3> QED BY <3>1 DEF Removed
  <2> HIDE DEF x, y
  <2>4. Differ(x)
    BY <2>2 DEF Differ
  <2>5. ASSUME NEW j \in 1..Len(x) PROVE \E i \in 1..Len(y) : x[j] = y[i]
    <3>1. x[j] = u[j] /\ j \in 1..Len(u) /\ j # m
      BY <2>2
    <3>2. PICK i \in 1..Len(v) : u[j] = v[i]
      BY <3>1
    <3>3. i # k
      BY <3>1, <3>2, <2>1 DEF Differ
    <3>4. CASE i < k
      <4>1. i \in 1..Len(y) /\ y[i] = v[i]
        BY <3>4, <2>3
      <4> QED BY <4>1, <3>1, <3>2
    <3>5. CASE i > k
      <4>1. i - 1 \in 1..Len(y) /\ y[i - 1] = v[i]
        BY <3>5, <2>3
      <4> QED BY <4>1, <3>1, <3>2
    <3> QED BY <3>3, <3>4, <3>5
  <2>6. size(x) <= size(y)
    BY <1>3, <2>2, <2>3, <2>4, <2>5
  <2>7. size(x) \in Nat /\ size(y) \in Nat /\ bytes(u[m]) \in Nat
    BY <2>2, <2>3, SizeNat, BytesNat
  <2> QED BY <2>1, <2>2, <2>3, <2>6, <2>7
<1> HIDE DEF Short
<1>4. 0 \in S /\ \A m \in 1..n : m - 1 \in S => m \in S
  BY <1>1, <1>2, <1>3
<1> HIDE DEF S
<1>5. \A m \in 0..n : m \in S
  BY <1>1, <1>4, Induct
<1>6. Short(n)
  BY <1>1, <1>5 DEF S
<1> QED BY <1>6 DEF Short

-----------------------------------------------------------------------------
(***************************************************************************)
(* The hash table                                                          *)
(***************************************************************************)

Tables == [1..Buckets -> Seq(Tuples)]

\* s is a chain of bucket h: its names belong there, each is there once, and
\* no value is one that _nvram_realloc refuses.
Chain(h, s) ==
    /\ s \in Seq(Tuples)
    /\ \A k \in 1..Len(s) : Hash[s[k][1]] = h /\ Len0[s[k][2]] < Part
    /\ \A j, k \in 1..Len(s) : s[j][1] = s[k][1] => j = k

Good(tab) == tab \in Tables /\ \A b \in 1..Buckets : Chain(b, tab[b])

\* The tuples of a table.
Held(tab) == {t \in Tuples : t \in ToSet(tab[Hash[t[1]]])}

LEMMA SpecialNames == Len(Specials) \in Nat /\ Special \subseteq Names
BY SpecialAssumption DEF Special

LEMMA InSeq ==
    ASSUME NEW s \in Seq(Tuples), NEW x
    PROVE  x \in ToSet(s) <=> \E k \in 1..Len(s) : s[k] = x
BY DEF ToSet

LEMMA TupleParts ==
    ASSUME NEW t \in Tuples
    PROVE  t[1] \in Names /\ t[2] \in Values /\ t = <<t[1], t[2]>>
BY DEF Tuples

LEMMA ChainPut ==
    ASSUME NEW h, NEW s, Chain(h, s), NEW t \in Tuples, Hash[t[1]] = h, Len0[t[2]] < Part,
           \A k \in 1..Len(s) : s[k][1] # t[1]
    PROVE  Chain(h, <<t>> \o s) /\ ToSet(<<t>> \o s) = ToSet(s) \cup {t}
<1> DEFINE a == <<t>>
           n == Len(s)
           u == a \o s
<1>1. s \in Seq(Tuples) /\ n \in Nat /\ n = Len(s)
  BY DEF Chain
<1>2. a \in Seq(Tuples) /\ Len(a) = 1 /\ a[1] = t
  OBVIOUS
<1> HIDE DEF a, n
<1>3. /\ u \in Seq(Tuples) /\ Len(u) = 1 + n /\ \A k \in 1..1 : u[k] = a[k]
      /\ \A k \in 1..n : u[1 + k] = s[k]
  <2> DEFINE m == Len(a)
  <2>1. m = 1
    BY <1>2
  <2>2. a \in Seq(Tuples) /\ s \in Seq(Tuples) /\ m = Len(a) /\ n = Len(s)
    BY <1>1, <1>2
  <2> HIDE DEF m
  <2>3. /\ u \in Seq(Tuples) /\ Len(u) = m + n /\ \A k \in 1..m : u[k] = a[k]
        /\ \A k \in 1..n : u[m + k] = s[k]
    BY <2>2, Joined
  <2> QED BY <2>1, <2>3
<1> HIDE DEF u
<1>4. u[1] = t /\ \A k \in 1..Len(u) : k = 1 \/ (k - 1 \in 1..n /\ u[k] = s[k - 1])
  <2>1. u[1] = t
    BY <1>2, <1>3
  <2>2. ASSUME NEW k \in 1..Len(u), k # 1 PROVE k - 1 \in 1..n /\ u[k] = s[k - 1]
    <3>1. k - 1 \in 1..n /\ 1 + (k - 1) = k
      BY <1>1, <1>3, <2>2
    <3> QED BY <3>1, <1>3
  <2> QED BY <2>1, <2>2
<1>5. Chain(h, u)
  <2>1. /\ \A k \in 1..n : Hash[s[k][1]] = h /\ Len0[s[k][2]] < Part /\ s[k][1] # t[1]
        /\ \A j, k \in 1..n : s[j][1] = s[k][1] => j = k
    BY DEF Chain, n
  <2>2. ASSUME NEW k \in 1..Len(u) PROVE Hash[u[k][1]] = h /\ Len0[u[k][2]] < Part
    BY <2>1, <1>4
  <2>3. ASSUME NEW j \in 1..Len(u), NEW k \in 1..Len(u), u[j][1] = u[k][1] PROVE j = k
    <3>1. CASE j = 1 \/ k = 1
      BY <3>1, <2>1, <2>3, <1>4
    <3>2. CASE j # 1 /\ k # 1
      <4>1. j - 1 = k - 1
        BY <3>2, <2>1, <2>3, <1>4
      <4> QED BY <4>1, <1>1, <1>3
    <3> QED BY <3>1, <3>2
  <2> QED BY <1>3, <2>2, <2>3 DEF Chain
<1>6. ASSUME NEW x PROVE x \in ToSet(u) <=> x \in ToSet(s) \cup {t}
  <2>1. ASSUME x \in ToSet(u) PROVE x \in ToSet(s) \cup {t}
    <3>1. PICK k \in 1..Len(u) : u[k] = x
      BY <2>1, <1>3, InSeq
    <3>2. CASE k = 1
      BY <3>1, <3>2, <1>4
    <3>3. CASE k # 1
      <4>1. k - 1 \in 1..Len(s) /\ s[k - 1] = x
        BY <3>1, <3>3, <1>4 DEF n
      <4> QED BY <4>1, <1>1, InSeq
    <3> QED BY <3>2, <3>3
  <2>2. ASSUME x \in ToSet(s) PROVE x \in ToSet(u)
    <3>1. PICK k \in 1..Len(s) : s[k] = x
      BY <2>2, <1>1, InSeq
    <3>2. 1 + k \in 1..Len(u) /\ u[1 + k] = x
      BY <3>1, <1>1, <1>3 DEF n
    <3> QED BY <3>2, <1>3, InSeq
  <2>3. t \in ToSet(u)
    <3>1. 1 \in 1..Len(u)
      BY <1>1, <1>3
    <3> QED BY <3>1, <1>3, <1>4, InSeq
  <2> QED BY <2>1, <2>2, <2>3
<1> QED BY <1>5, <1>6 DEF u, a

LEMMA ChainReplace ==
    ASSUME NEW h, NEW s, Chain(h, s), NEW t \in Tuples, Len0[t[2]] < Part,
           NEW k \in 1..Len(s), s[k][1] = t[1]
    PROVE  /\ Chain(h, [s EXCEPT ![k] = t])
           /\ ToSet([s EXCEPT ![k] = t]) = {x \in ToSet(s) : x[1] # t[1]} \cup {t}
<1> DEFINE u == [s EXCEPT ![k] = t]
<1>1. s \in Seq(Tuples)
  BY DEF Chain
<1>2. u \in Seq(Tuples) /\ Len(u) = Len(s) /\ u[k] = t /\ \A j \in 1..Len(s) : j # k => u[j] = s[j]
  BY <1>1
<1> HIDE DEF u
<1>3. Chain(h, u)
  BY <1>2 DEF Chain
<1>4. ASSUME NEW x PROVE x \in ToSet(u) <=> x \in {y \in ToSet(s) : y[1] # t[1]} \cup {t}
  <2>1. ASSUME x \in ToSet(u) PROVE x = t \/ (x \in ToSet(s) /\ x[1] # t[1])
    <3>1. PICK j \in 1..Len(u) : u[j] = x
      BY <2>1, <1>2, InSeq
    <3>2. CASE j # k
      <4>1. j \in 1..Len(s) /\ s[j] = x /\ x[1] # t[1]
        BY <3>1, <3>2, <1>2 DEF Chain
      <4> QED BY <4>1, <1>1, InSeq
    <3> QED BY <3>1, <3>2, <1>2
  <2>2. ASSUME x \in ToSet(s), x[1] # t[1] PROVE x \in ToSet(u)
    <3>1. PICK j \in 1..Len(s) : s[j] = x
      BY <2>2, <1>1, InSeq
    <3>2. j \in 1..Len(u) /\ u[j] = x
      BY <3>1, <2>2, <1>2
    <3> QED BY <3>2, <1>2, InSeq
  <2>3. t \in ToSet(u)
    BY <1>2, InSeq
  <2> QED BY <2>1, <2>2, <2>3
<1> QED BY <1>3, <1>4 DEF u

LEMMA ChainRemove ==
    ASSUME NEW h, NEW s, Chain(h, s), NEW k \in 1..Len(s)
    PROVE  /\ Chain(h, RemoveAt(s, k))
           /\ ToSet(RemoveAt(s, k)) = {x \in ToSet(s) : x[1] # s[k][1]}
<1> DEFINE u == RemoveAt(s, k)
<1>1. s \in Seq(Tuples)
  BY DEF Chain
<1>2. Removed(s, k, u)
  BY <1>1, SizeRemove
<1> HIDE DEF u
<1>3. /\ u \in Seq(Tuples) /\ Len(u) = Len(s) - 1
      /\ \A j \in 1..(k - 1) : u[j] = s[j]
      /\ \A j \in k..(Len(s) - 1) : u[j] = s[j + 1]
  BY <1>2 DEF Removed
<1> DEFINE at(j) == IF j < k THEN j ELSE j + 1
<1>4. \A j \in 1..Len(u) : at(j) \in 1..Len(s) /\ at(j) # k /\ u[j] = s[at(j)]
  BY <1>1, <1>3
<1>5. \A i, j \in 1..Len(u) : at(i) = at(j) => i = j
  BY <1>3
<1> HIDE DEF at
<1>6. Chain(h, u)
  BY <1>3, <1>4, <1>5, SMTT(30) DEF Chain
<1>7. ASSUME NEW x PROVE x \in ToSet(u) <=> (x \in ToSet(s) /\ x[1] # s[k][1])
  <2>1. ASSUME x \in ToSet(u) PROVE x \in ToSet(s) /\ x[1] # s[k][1]
    <3>1. PICK j \in 1..Len(u) : u[j] = x
      BY <2>1, <1>3, InSeq
    <3>2. at(j) \in 1..Len(s) /\ s[at(j)] = x /\ at(j) # k
      BY <3>1, <1>4
    <3> QED BY <3>2, <1>1, InSeq DEF Chain
  <2>2. ASSUME x \in ToSet(s), x[1] # s[k][1] PROVE x \in ToSet(u)
    <3>1. PICK j \in 1..Len(s) : s[j] = x
      BY <2>2, <1>1, InSeq
    <3>2. j < k \/ j > k
      BY <3>1, <2>2
    <3>3. CASE j < k
      <4>1. j \in 1..Len(u) /\ u[j] = x
        BY <3>1, <3>3, <1>3
      <4> QED BY <4>1, <1>3, InSeq
    <3>4. CASE j > k
      <4>1. j - 1 \in 1..Len(u) /\ u[j - 1] = x
        BY <3>1, <3>4, <1>3
      <4> QED BY <4>1, <1>3, InSeq
    <3> QED BY <3>2, <3>3, <3>4
  <2> QED BY <2>1, <2>2
<1> QED BY <1>6, <1>7 DEF u

LEMMA HashBucket ==
    ASSUME NEW n \in Names
    PROVE  Hash[n] \in 1..Buckets
BY HashAssumption

\* A chain of the table is replaced.
LEMMA TableChain ==
    ASSUME NEW tab, Good(tab), NEW h \in 1..Buckets, NEW c, Chain(h, c)
    PROVE  /\ Good([tab EXCEPT ![h] = c])
           /\ \A t \in Tuples : t \in Held([tab EXCEPT ![h] = c]) <=>
                IF Hash[t[1]] = h THEN t \in ToSet(c) ELSE t \in Held(tab)
<1> DEFINE u == [tab EXCEPT ![h] = c]
<1>1. tab \in Tables /\ c \in Seq(Tuples)
  BY DEF Good, Chain
<1>2. u \in Tables /\ u[h] = c /\ \A b \in 1..Buckets : b # h => u[b] = tab[b]
  BY <1>1 DEF Tables
<1> HIDE DEF u
<1>3. Good(u)
  BY <1>2 DEF Good
<1>4. ASSUME NEW t \in Tuples
      PROVE  t \in Held(u) <=> IF Hash[t[1]] = h THEN t \in ToSet(c) ELSE t \in Held(tab)
  <2>1. Hash[t[1]] \in 1..Buckets
    BY TupleParts, HashBucket
  <2> QED BY <2>1, <1>2 DEF Held
<1> QED BY <1>3, <1>4 DEF u

\* Where a name is found.
LEMMA Found ==
    ASSUME NEW tab, Good(tab), NEW n \in Names, holds(tab, n)
    PROVE  /\ find(tab, n) \in 1..Len(tab[Hash[n]])
           /\ tab[Hash[n]][find(tab, n)][1] = n
           /\ value(tab, n) \in Values /\ Len0[value(tab, n)] < Part
           /\ <<n, value(tab, n)>> \in Held(tab)
<1> DEFINE c == tab[Hash[n]]
           k == find(tab, n)
<1>1. k \in 1..Len(c) /\ c[k][1] = n
  BY DEF holds, find
<1>2. Hash[n] \in 1..Buckets
  BY HashBucket
<1>3. Chain(Hash[n], c)
  BY <1>2 DEF Good
<1>4. value(tab, n) = c[k][2]
  BY DEF value
<1> HIDE DEF k
<1>5. c \in Seq(Tuples) /\ Len0[c[k][2]] < Part
  BY <1>1, <1>3 DEF Chain
<1> HIDE DEF c
<1>6. c[k] \in Tuples
  BY <1>1, <1>5
<1>7. c[k] = <<n, value(tab, n)>> /\ value(tab, n) \in Values
  BY <1>1, <1>4, <1>6, TupleParts
<1>8. c[k] \in ToSet(c)
  BY <1>1, <1>5, InSeq
<1>9. c[k] \in Held(tab)
  BY <1>1, <1>6, <1>8 DEF Held, c
<1> QED BY <1>1, <1>4, <1>5, <1>7, <1>9 DEF c, k

\* A table has a name at most once.
LEMMA HeldOnce ==
    ASSUME NEW tab, Good(tab), NEW s \in Held(tab), NEW t \in Held(tab), s[1] = t[1]
    PROVE  s = t
<1> DEFINE c == tab[Hash[s[1]]]
<1>1. s \in Tuples /\ t \in Tuples /\ s \in ToSet(c) /\ t \in ToSet(c)
  BY DEF Held
<1>2. Hash[s[1]] \in 1..Buckets
  BY <1>1, TupleParts, HashBucket
<1>3. Chain(Hash[s[1]], c)
  BY <1>2 DEF Good
<1> HIDE DEF c
<1>4. c \in Seq(Tuples)
  BY <1>3 DEF Chain
<1>5. PICK j \in 1..Len(c) : c[j] = s
  BY <1>1, <1>4, InSeq
<1>6. PICK k \in 1..Len(c) : c[k] = t
  BY <1>1, <1>4, InSeq
<1> QED BY <1>3, <1>5, <1>6 DEF Chain

LEMMA HoldsHeld ==
    ASSUME NEW tab, Good(tab), NEW t \in Held(tab)
    PROVE  t \in Tuples /\ t[1] \in Names /\ holds(tab, t[1]) /\ value(tab, t[1]) = t[2]
<1> DEFINE n == t[1]
           c == tab[Hash[n]]
<1>1. t \in Tuples /\ t \in ToSet(c) /\ n \in Names
  BY TupleParts DEF Held
<1>2. Hash[n] \in 1..Buckets
  BY <1>1, HashBucket
<1>3. c \in Seq(Tuples)
  BY <1>2 DEF Good, Tables
<1>4. PICK k \in 1..Len(c) : c[k] = t
  BY <1>1, <1>3, InSeq
<1>5. holds(tab, n)
  BY <1>4 DEF holds
<1>6. <<n, value(tab, n)>> \in Held(tab)
  BY <1>1, <1>5, Found
<1> HIDE DEF n
<1>7. t = <<n, value(tab, n)>>
  <2> DEFINE s == <<n, value(tab, n)>>
  <2>1. s[1] = t[1] /\ s \in Held(tab)
    BY <1>6 DEF n
  <2> HIDE DEF s
  <2>2. s = t
    BY <2>1, HeldOnce
  <2> QED BY <2>2 DEF s
<1> QED BY <1>1, <1>5, <1>7 DEF n

\* What is left when n is taken out.
Others(T, n) == {t \in T : t[1] # n}

LEMMA SetTable ==
    ASSUME NEW tab, Good(tab), NEW n \in Names, NEW v \in Values
    PROVE  /\ Good(nvram_set(tab, n, v))
           /\ Len0[v] < Part => Held(nvram_set(tab, n, v)) = Others(Held(tab), n) \cup {<<n, v>>}
           /\ ~(Len0[v] < Part) => nvram_set(tab, n, v) = tab
<1> DEFINE h == Hash[n]
           c == tab[h]
           t == <<n, v>>
           d == IF holds(tab, n) THEN [c EXCEPT ![find(tab, n)] = t] ELSE <<t>> \o c
<1>1. Len0[v] \in Nat /\ Part \in Nat
  BY LenAssumption, SizeAssumption
<1>2. CASE ~(Len0[v] < Part)
  <2>1. nvram_set(tab, n, v) = tab
    BY <1>1, <1>2 DEF nvram_set
  <2> QED BY <1>2, <2>1
<1>3. CASE Len0[v] < Part
  <2>1. h \in 1..Buckets
    BY HashBucket
  <2>2. Chain(h, c) /\ tab \in Tables
    BY <2>1 DEF Good
  <2>3. t \in Tuples /\ t[1] = n /\ t[2] = v /\ Hash[t[1]] = h
    BY DEF Tuples
  <2>4. nvram_set(tab, n, v) = [tab EXCEPT ![h] = d]
    BY <1>1, <1>3, <2>1, <2>2 DEF nvram_set, Tables
  <2> HIDE DEF t
  <2>5. Chain(h, d) /\ ToSet(d) = {x \in ToSet(c) : x[1] # n} \cup {t}
    <3>1. CASE holds(tab, n)
      <4> DEFINE k == find(tab, n)
      <4>1. k \in 1..Len(c) /\ c[k][1] = t[1] /\ t \in Tuples /\ Len0[t[2]] < Part
        BY <1>3, <3>1, <2>3, Found
      <4> HIDE DEF k, c, h
      <4>2. /\ Chain(h, [c EXCEPT ![k] = t])
            /\ ToSet([c EXCEPT ![k] = t]) = {x \in ToSet(c) : x[1] # t[1]} \cup {t}
        BY <4>1, <2>2, ChainReplace, Zenon
      <4> QED BY <4>2, <3>1, <2>3 DEF k
    <3>2. CASE ~holds(tab, n)
      <4>1. \A k \in 1..Len(c) : c[k][1] # n
        BY <3>2 DEF holds
      <4>2. c \in Seq(Tuples)
        BY <2>2 DEF Chain
      <4> HIDE DEF c, h
      <4>3. Chain(h, <<t>> \o c) /\ ToSet(<<t>> \o c) = ToSet(c) \cup {t}
        BY <4>1, <1>3, <2>2, <2>3, ChainPut
      <4>4. \A x \in ToSet(c) : x[1] # n
        BY <4>1, <4>2, InSeq
      <4> QED BY <3>2, <4>3, <4>4
    <3> QED BY <3>1, <3>2
  <2> HIDE DEF d
  <2>6. /\ Good([tab EXCEPT ![h] = d])
        /\ \A x \in Tuples : x \in Held([tab EXCEPT ![h] = d]) <=>
                IF Hash[x[1]] = h THEN x \in ToSet(d) ELSE x \in Held(tab)
    BY <2>1, <2>5, TableChain
  <2> DEFINE new == [tab EXCEPT ![h] = d]
  <2> HIDE DEF new
  <2>7. ASSUME NEW x \in Tuples PROVE x \in Held(new) <=> x \in Others(Held(tab), n) \cup {t}
    <3>1. x \in Held(new) <=> IF Hash[x[1]] = h THEN x \in ToSet(d) ELSE x \in Held(tab)
      BY <2>6 DEF new
    <3>2. Hash[x[1]] = h => (x \in Held(tab) <=> x \in ToSet(c))
      BY DEF Held
    <3>3. Hash[x[1]] # h => x[1] # n /\ x # t
      BY <2>3
    <3> QED BY <3>1, <3>2, <3>3, <2>5 DEF Others
  <2>8. Held(new) \subseteq Tuples /\ Held(tab) \subseteq Tuples
    BY DEF Held
  <2>9. Held(new) = Others(Held(tab), n) \cup {t}
    BY <2>3, <2>7, <2>8 DEF Others
  <2> QED BY <1>3, <2>4, <2>6, <2>9 DEF new, t
<1> QED BY <1>2, <1>3

LEMMA UnsetTable ==
    ASSUME NEW tab, Good(tab), NEW n \in Names
    PROVE  Good(nvram_unset(tab, n)) /\ Held(nvram_unset(tab, n)) = Others(Held(tab), n)
<1>1. CASE ~holds(tab, n)
  <2>1. \A t \in Held(tab) : t[1] # n
    BY <1>1, HoldsHeld
  <2> QED BY <1>1, <2>1 DEF nvram_unset, Others
<1>2. CASE holds(tab, n)
  <2> DEFINE h == Hash[n]
             c == tab[h]
             k == find(tab, n)
             d == RemoveAt(c, k)
  <2>1. h \in 1..Buckets
    BY HashBucket
  <2>2. Chain(h, c) /\ tab \in Tables
    BY <2>1 DEF Good
  <2>3. k \in 1..Len(c) /\ c[k][1] = n
    BY <1>2, Found
  <2>4. nvram_unset(tab, n) = [tab EXCEPT ![h] = d]
    BY <1>2, <2>1, <2>2 DEF nvram_unset, Tables
  <2>5. Chain(h, d) /\ ToSet(d) = {x \in ToSet(c) : x[1] # n}
    <3> HIDE DEF c, h, k
    <3> QED BY <2>2, <2>3, ChainRemove
  <2> HIDE DEF d
  <2> DEFINE new == [tab EXCEPT ![h] = d]
  <2>6. /\ Good(new)
        /\ \A x \in Tuples : x \in Held(new) <=>
                IF Hash[x[1]] = h THEN x \in ToSet(d) ELSE x \in Held(tab)
    BY <2>1, <2>2, <2>5, TableChain
  <2> HIDE DEF new
  <2>7. ASSUME NEW x \in Tuples PROVE x \in Held(new) <=> x \in Others(Held(tab), n)
    <3>1. x \in Held(new) <=> IF Hash[x[1]] = h THEN x \in ToSet(d) ELSE x \in Held(tab)
      BY <2>6
    <3>2. Hash[x[1]] = h => (x \in Held(tab) <=> x \in ToSet(c))
      BY DEF Held
    <3>3. Hash[x[1]] # h => x[1] # n
      OBVIOUS
    <3> QED BY <3>1, <3>2, <3>3, <2>5 DEF Others
  <2>8. Held(new) \subseteq Tuples /\ Held(tab) \subseteq Tuples
    BY DEF Held
  <2>9. Held(new) = Others(Held(tab), n)
    BY <2>7, <2>8 DEF Others
  <2> QED BY <2>4, <2>6, <2>9 DEF new
<1> QED BY <1>1, <1>2

LEMMA NoTableGood == Good(NoTable) /\ Held(NoTable) = {}
<1>1. NoTable \in Tables /\ \A b \in 1..Buckets : NoTable[b] = <<>>
  BY DEF NoTable, Tables
<1>2. \A b \in 1..Buckets : Chain(b, <<>>)
  BY DEF Chain
<1>3. Good(NoTable)
  BY <1>1, <1>2 DEF Good
<1>4. ToSet(<<>>) = {}
  BY DEF ToSet
<1>5. ASSUME NEW t \in Tuples PROVE t \notin Held(NoTable)
  <2>1. Hash[t[1]] \in 1..Buckets
    BY TupleParts, HashBucket
  <2> QED BY <2>1, <1>1, <1>4 DEF Held
<1> QED BY <1>3, <1>5 DEF Held

-----------------------------------------------------------------------------
(***************************************************************************)
(* From an image to the table                                              *)
(***************************************************************************)

GoodTables == {tab \in Tables : Good(tab)}

LEMMA GoodIsTable ==
    ASSUME NEW tab
    PROVE  Good(tab) <=> tab \in GoodTables
BY DEF Good, GoodTables

\* f has the table after each tuple of s.
Reads(s, f) ==
    /\ f \in [0..Len(s) -> GoodTables] /\ f[0] = NoTable
    /\ \A k \in 1..Len(s) : f[k] = nvram_set(f[k - 1], s[k][1], s[k][2])

LEMMA ReadSteps ==
    ASSUME NEW s \in Seq(Tuples)
    PROVE  \E f : Reads(s, f) /\ read_tuples(s) = f[Len(s)]
<1> DEFINE P(f) == f = [k \in 0..Len(s) |-> IF k = 0 THEN NoTable
                                           ELSE nvram_set(f[k - 1], s[k][1], s[k][2])]
           F == [k \in 1..Len(s) |-> [x \in GoodTables |-> nvram_set(x, s[k][1], s[k][2])]]
           c == CHOOSE f : P(f)
<1>0. Len(s) \in Nat
  OBVIOUS
<1>1. \A k \in 1..Len(s), x \in GoodTables : nvram_set(x, s[k][1], s[k][2]) \in GoodTables
  <2>1. ASSUME NEW k \in 1..Len(s), NEW x \in GoodTables
        PROVE  nvram_set(x, s[k][1], s[k][2]) \in GoodTables
    <3>1. s[k][1] \in Names /\ s[k][2] \in Values
      BY TupleParts
    <3>2. Good(x)
      BY GoodIsTable
    <3> QED BY <3>1, <3>2, SetTable, GoodIsTable
  <2> QED BY <2>1
<1>1a. NoTable \in GoodTables
  BY NoTableGood, GoodIsTable
<1>2. F \in [1..Len(s) -> [GoodTables -> GoodTables]]
  BY <1>1
<1>2a. Steps(Len(s), GoodTables, NoTable, F)
  BY <1>0, <1>1a, <1>2 DEF Steps
<1>2b. PICK f : Iterates(Len(s), GoodTables, NoTable, F, f)
  <2> HIDE DEF F
  <2> QED BY <1>2a, Recursion
<1>3. /\ f \in [0..Len(s) -> GoodTables] /\ f[0] = NoTable
      /\ \A k \in 1..Len(s) : f[k] = F[k][f[k - 1]]
  BY <1>2b DEF Iterates
<1>4. ASSUME NEW k \in 1..Len(s) PROVE f[k] = nvram_set(f[k - 1], s[k][1], s[k][2])
  <2>1. k - 1 \in 0..Len(s)
    BY <1>0
  <2>2. f[k - 1] \in GoodTables
    BY <2>1, <1>3
  <2>3. F[k][f[k - 1]] = nvram_set(f[k - 1], s[k][1], s[k][2])
    BY <2>2
  <2> QED BY <2>3, <1>3
<1>5. P(f)
  BY <1>0, <1>3, <1>4
<1>6. P(c)
  <2> HIDE DEF P
  <2> QED BY <1>5
<1>7. read_tuples(s) = c[Len(s)]
  BY DEF read_tuples
<1>8. c = [k \in 0..Len(s) |-> IF k = 0 THEN NoTable ELSE nvram_set(c[k - 1], s[k][1], s[k][2])]
  BY <1>6
<1> HIDE DEF c
<1> DEFINE S == {k \in 0..Len(s) : c[k] \in GoodTables}
<1>9. \A k \in 0..Len(s) : k \in S
  <2>1. 0 \in S
    BY <1>0, <1>1a, <1>8
  <2>2. ASSUME NEW k \in 1..Len(s), k - 1 \in S PROVE k \in S
    <3>1. c[k] = nvram_set(c[k - 1], s[k][1], s[k][2])
      BY <1>8
    <3> QED BY <3>1, <2>2, <1>1
  <2>3. \A k \in 1..Len(s) : k - 1 \in S => k \in S
    BY <2>2
  <2> HIDE DEF S
  <2> QED BY <1>0, <2>1, <2>3, Induct
<1>10. c \in [0..Len(s) -> GoodTables]
  BY <1>8, <1>9
<1>11. c[0] = NoTable /\ \A k \in 1..Len(s) : c[k] = nvram_set(c[k - 1], s[k][1], s[k][2])
  BY <1>0, <1>8
<1> QED BY <1>7, <1>10, <1>11 DEF Reads

\* Tuples as a command writes them: each name once, no value too long.
Plain(s) ==
    /\ \A k \in 1..Len(s) : Len0[s[k][2]] < Part
    /\ \A j, k \in 1..Len(s) : s[j][1] = s[k][1] => j = k

LEMMA ReadTuples ==
    ASSUME NEW s \in Seq(Tuples)
    PROVE  Good(read_tuples(s)) /\ (Plain(s) => Held(read_tuples(s)) = ToSet(s))
<1>1. PICK f : Reads(s, f) /\ read_tuples(s) = f[Len(s)]
  BY ReadSteps
<1>2. Len(s) \in Nat
  OBVIOUS
<1>3. \A k \in 0..Len(s) : Good(f[k])
  BY <1>1, GoodIsTable DEF Reads
<1>4. Good(read_tuples(s))
  BY <1>1, <1>2, <1>3
<1>5. ASSUME Plain(s) PROVE Held(read_tuples(s)) = ToSet(s)
  <2> DEFINE Up(k) == {s[j] : j \in 1..k}
             Q(k) == Held(f[k]) = Up(k)
             S == {k \in 0..Len(s) : Q(k)}
  <2>1. Q(0)
    <3>1. f[0] = NoTable /\ Up(0) = {}
      BY <1>1 DEF Reads
    <3> HIDE DEF Up
    <3> QED BY <3>1, <1>2, NoTableGood
  <2>2. ASSUME NEW k \in 1..Len(s), Q(k - 1) PROVE Q(k)
    <3>1. f[k] = nvram_set(f[k - 1], s[k][1], s[k][2]) /\ Held(f[k - 1]) = Up(k - 1)
      BY <2>2, <1>1 DEF Reads
    <3>2. s[k][1] \in Names /\ s[k][2] \in Values /\ s[k] = <<s[k][1], s[k][2]>> /\ Len0[s[k][2]] < Part
      BY <1>5, TupleParts DEF Plain
    <3>3. Good(f[k - 1])
      BY <1>2, <1>3
    <3>4. Held(f[k]) = Others(Held(f[k - 1]), s[k][1]) \cup {s[k]}
      <4> HIDE DEF Up
      <4>1. Held(nvram_set(f[k - 1], s[k][1], s[k][2]))
              = Others(Held(f[k - 1]), s[k][1]) \cup {<<s[k][1], s[k][2]>>}
        BY <3>2, <3>3, SetTable
      <4> QED BY <4>1, <3>1, <3>2
    <3>5. Others(Up(k - 1), s[k][1]) = Up(k - 1)
      <4>1. ASSUME NEW t \in Up(k - 1) PROVE t[1] # s[k][1]
        <5>1. PICK j \in 1..(k - 1) : t = s[j]
          OBVIOUS
        <5>2. j \in 1..Len(s) /\ j # k
          BY <1>2
        <5> QED BY <5>1, <5>2, <1>5 DEF Plain
      <4> HIDE DEF Up
      <4> QED BY <4>1 DEF Others
    <3>6. Up(k) = Up(k - 1) \cup {s[k]}
      OBVIOUS
    <3> HIDE DEF Up
    <3> QED BY <3>1, <3>4, <3>5, <3>6
  <2> HIDE DEF Q
  <2>3. 0 \in S /\ \A k \in 1..Len(s) : k - 1 \in S => k \in S
    BY <1>2, <2>1, <2>2
  <2> HIDE DEF S
  <2>4. \A k \in 0..Len(s) : k \in S
    BY <1>2, <2>3, Induct
  <2>5. Q(Len(s))
    BY <1>2, <2>4 DEF S
  <2>6. Held(f[Len(s)]) = Up(Len(s))
    BY <2>5 DEF Q
  <2> QED BY <2>6, <1>1 DEF ToSet
<1> QED BY <1>4, <1>5

\* The variables of m as tuples.
Graph(m) == {<<n, m[n]>> : n \in DOMAIN m}

Named(s) == {t[1] : t \in ToSet(s)}

\* The variables of an image.
LEMMA ViewIs ==
    ASSUME NEW img \in Images
    PROVE  /\ DOMAIN view(img) = Named(img.data) \cup Special
           /\ \A n \in Named(img.data) : \E t \in ToSet(img.data) : t[1] = n /\ view(img)[n] = t[2]
           /\ \A n \in Special \ Named(img.data) : view(img)[n] = Print0[img.hdr[n]]
<1> DEFINE T == ToSet(img.data)
           N == {t[1] : t \in T}
           m == [n \in N \cup Special |->
                   IF n \in N THEN (CHOOSE t \in T : t[1] = n)[2] ELSE Print0[img.hdr[n]]]
<1>1. img # Blank
  BY FileAssumption
<1>2. view(img) = m
  BY <1>1 DEF view
<1>3. Named(img.data) = N
  BY DEF Named
<1> HIDE DEF T
<1>4. ASSUME NEW n \in N PROVE \E t \in T : t[1] = n /\ m[n] = t[2]
  <2> DEFINE t == CHOOSE t \in T : t[1] = n
  <2>1. t \in T /\ t[1] = n
    OBVIOUS
  <2>2. m[n] = t[2]
    OBVIOUS
  <2> HIDE DEF t
  <2> QED BY <2>1, <2>2
<1>5. \A n \in Special \ N : m[n] = Print0[img.hdr[n]]
  OBVIOUS
<1>6. DOMAIN m = N \cup Special
  OBVIOUS
<1> HIDE DEF N, m
<1> QED BY <1>2, <1>3, <1>4, <1>5, <1>6 DEF T

LEMMA ImageParts ==
    ASSUME NEW img \in Images
    PROVE  /\ img.data \in Seq(Tuples) /\ ToSet(img.data) \subseteq Tuples
           /\ Named(img.data) \subseteq Names
           /\ img.hdr \in [Special -> Words] /\ img.len \in 0..Part
<1>1. img.data \in Seq(Tuples) /\ img.hdr \in [Special -> Words] /\ img.len \in 0..Part
  BY DEF Images
<1>2. \A t \in ToSet(img.data) : t \in Tuples
  BY <1>1, InSeq
<1> QED BY <1>1, <1>2, TupleParts DEF Named

LEMMA PlainOnce ==
    ASSUME NEW s \in Seq(Tuples), Plain(s), NEW t \in ToSet(s), NEW u \in ToSet(s), t[1] = u[1]
    PROVE  t = u
<1>1. PICK j \in 1..Len(s) : s[j] = t
  BY InSeq
<1>2. PICK k \in 1..Len(s) : s[k] = u
  BY InSeq
<1> QED BY <1>1, <1>2 DEF Plain

LEMMA ViewTuple ==
    ASSUME NEW img \in Images, Plain(img.data)
    PROVE  \A t \in ToSet(img.data) : t[1] \in DOMAIN view(img) /\ view(img)[t[1]] = t[2]
<1> SUFFICES ASSUME NEW t \in ToSet(img.data)
             PROVE  t[1] \in DOMAIN view(img) /\ view(img)[t[1]] = t[2]
  OBVIOUS
<1>1. t[1] \in Named(img.data)
  BY DEF Named
<1>2. PICK u \in ToSet(img.data) : u[1] = t[1] /\ view(img)[t[1]] = u[2]
  BY <1>1, ViewIs
<1>3. u = t
  BY <1>2, ImageParts, PlainOnce
<1> QED BY <1>1, <1>2, <1>3, ViewIs

LEMMA ViewGraph ==
    ASSUME NEW img \in Images, Plain(img.data)
    PROVE  /\ Graph(view(img)) \subseteq Tuples
           /\ {t \in Graph(view(img)) : t[1] \in Named(img.data)} = ToSet(img.data)
<1> DEFINE m == view(img)
           T == ToSet(img.data)
           N == Named(img.data)
<1>1. T \subseteq Tuples /\ N \subseteq Names /\ img.hdr \in [Special -> Words]
  BY ImageParts
<1>2. DOMAIN m = N \cup Special /\ \A n \in Special \ N : m[n] = Print0[img.hdr[n]]
  BY ViewIs
<1>3. \A t \in T : t[1] \in DOMAIN m /\ m[t[1]] = t[2] /\ t[1] \in N
  BY ViewTuple DEF Named
<1>4. ASSUME NEW n \in N PROVE \E t \in T : t[1] = n /\ m[n] = t[2]
  BY ViewIs
<1> HIDE DEF m, T, N
<1>5. ASSUME NEW n \in DOMAIN m PROVE <<n, m[n]>> \in Tuples /\ (n \in N => <<n, m[n]>> \in T)
  <2>1. CASE n \in N
    <3>1. PICK t \in T : t[1] = n /\ m[n] = t[2]
      BY <1>4, <2>1
    <3>2. t = <<n, m[n]>>
      BY <1>1, <3>1, TupleParts
    <3> QED BY <1>1, <3>2
  <2>2. CASE n \notin N
    <3>1. n \in Special /\ m[n] = Print0[img.hdr[n]]
      BY <1>2, <2>2
    <3>2. n \in Names /\ m[n] \in Values
      BY <3>1, <1>1, SpecialNames, WordAssumption
    <3> QED BY <3>2, <2>2 DEF Tuples
  <2> QED BY <2>1, <2>2
<1>6. ASSUME NEW t \in T PROVE t \in Graph(m) /\ t[1] \in N
  <2>1. t = <<t[1], m[t[1]]>>
    BY <1>1, <1>3, TupleParts
  <2> QED BY <2>1, <1>3 DEF Graph
<1>7. ASSUME NEW t \in Graph(m) PROVE t \in Tuples /\ (t[1] \in N => t \in T)
  <2>1. PICK n \in DOMAIN m : t = <<n, m[n]>>
    BY DEF Graph
  <2> QED BY <2>1, <1>5
<1>8. {t \in Graph(m) : t[1] \in N} = T
  BY <1>6, <1>7
<1> QED BY <1>7, <1>8 DEF m, T, N

\* A special variable from its header field.
AddSpecial(img, tab, n) == IF holds(tab, n) THEN tab ELSE nvram_set(tab, n, Print0[img.hdr[n]])

Fills(img, f) ==
    /\ f \in [0..Len(Specials) -> GoodTables] /\ f[0] = read_tuples(img.data)
    /\ \A k \in 1..Len(Specials) : f[k] = AddSpecial(img, f[k - 1], Specials[k])

LEMMA SpecialName ==
    ASSUME NEW img \in Images, NEW k \in 1..Len(Specials)
    PROVE  /\ Specials[k] \in Special /\ Specials[k] \in Names
           /\ Print0[img.hdr[Specials[k]]] \in Values /\ Len0[Print0[img.hdr[Specials[k]]]] < Part
<1>1. Specials[k] \in Special
  BY DEF Special
<1>2. img.hdr[Specials[k]] \in Words
  BY <1>1, ImageParts
<1> QED BY <1>1, <1>2, SpecialNames, WordAssumption, SizeAssumption

LEMMA AddGood ==
    ASSUME NEW img \in Images, NEW k \in 1..Len(Specials), NEW tab \in GoodTables
    PROVE  AddSpecial(img, tab, Specials[k]) \in GoodTables
<1>1. Good(tab)
  BY GoodIsTable
<1>2. Good(AddSpecial(img, tab, Specials[k]))
  BY <1>1, SpecialName, SetTable DEF AddSpecial
<1> QED BY <1>2, GoodIsTable

LEMMA FillSteps ==
    ASSUME NEW img \in Images
    PROVE  \E f : Fills(img, f) /\ nvram_rehash(img) = f[Len(Specials)]
<1> DEFINE l == Len(Specials)
           d == read_tuples(img.data)
           P(f) == f = [k \in 0..l |-> IF k = 0 THEN d ELSE AddSpecial(img, f[k - 1], Specials[k])]
           F == [k \in 1..l |-> [x \in GoodTables |-> AddSpecial(img, x, Specials[k])]]
           c == CHOOSE f : P(f)
<1>0. l \in Nat
  BY SpecialNames
<1>1. \A k \in 1..l, x \in GoodTables : AddSpecial(img, x, Specials[k]) \in GoodTables
  BY AddGood
<1>1a. d \in GoodTables
  BY ImageParts, ReadTuples, GoodIsTable
<1>7. nvram_rehash(img) = c[l]
  BY DEF nvram_rehash, AddSpecial
<1> HIDE DEF d, l
<1>2. F \in [1..l -> [GoodTables -> GoodTables]]
  BY <1>1
<1>2a. Steps(l, GoodTables, d, F)
  BY <1>0, <1>1a, <1>2 DEF Steps
<1>2b. PICK f : Iterates(l, GoodTables, d, F, f)
  <2> HIDE DEF F
  <2> QED BY <1>2a, Recursion
<1>3. /\ f \in [0..l -> GoodTables] /\ f[0] = d
      /\ \A k \in 1..l : f[k] = F[k][f[k - 1]]
  BY <1>2b DEF Iterates
<1>4. ASSUME NEW k \in 1..l PROVE f[k] = AddSpecial(img, f[k - 1], Specials[k])
  <2>1. k - 1 \in 0..l
    BY <1>0
  <2>2. f[k - 1] \in GoodTables
    BY <2>1, <1>3
  <2>3. F[k][f[k - 1]] = AddSpecial(img, f[k - 1], Specials[k])
    BY <2>2
  <2> QED BY <2>3, <1>3
<1>5. P(f)
  BY <1>0, <1>3, <1>4
<1>6. P(c)
  <2> HIDE DEF P
  <2> QED BY <1>5
<1>8. c = [k \in 0..l |-> IF k = 0 THEN d ELSE AddSpecial(img, c[k - 1], Specials[k])]
  BY <1>6
<1> HIDE DEF c
<1> DEFINE S == {k \in 0..l : c[k] \in GoodTables}
<1>9. \A k \in 0..l : k \in S
  <2>1. 0 \in S
    BY <1>0, <1>1a, <1>8
  <2>2. ASSUME NEW k \in 1..l, k - 1 \in S PROVE k \in S
    <3>0. k \in 0..l /\ k # 0
      BY <1>0
    <3>1. c[k] = AddSpecial(img, c[k - 1], Specials[k])
      BY <1>8, <3>0
    <3> QED BY <3>1, <2>2, <1>1
  <2>3. \A k \in 1..l : k - 1 \in S => k \in S
    BY <2>2
  <2> HIDE DEF S
  <2> QED BY <1>0, <2>1, <2>3, Induct
<1>10. c \in [0..l -> GoodTables]
  BY <1>8, <1>9
<1>11. c[0] = d /\ \A k \in 1..l : c[k] = AddSpecial(img, c[k - 1], Specials[k])
  BY <1>0, <1>8
<1> QED BY <1>7, <1>10, <1>11 DEF Fills, l, d

\* The table of an image has the variables of the image.
LEMMA Rehash ==
    ASSUME NEW img \in Images
    PROVE  /\ Good(nvram_rehash(img))
           /\ Plain(img.data) => Held(nvram_rehash(img)) = Graph(view(img))
<1>1. PICK f : Fills(img, f) /\ nvram_rehash(img) = f[Len(Specials)]
  BY FillSteps
<1> DEFINE l == Len(Specials)
<1>2. l \in Nat
  BY SpecialNames
<1>3. \A k \in 0..l : Good(f[k])
  BY <1>1, GoodIsTable DEF Fills
<1>4. Good(nvram_rehash(img))
  BY <1>1, <1>2, <1>3
<1>5. ASSUME Plain(img.data) PROVE Held(nvram_rehash(img)) = Graph(view(img))
  <2> DEFINE m == view(img)
             G == Graph(m)
             N == Named(img.data)
             Up(k) == N \cup {Specials[j] : j \in 1..k}
             Q(k) == Held(f[k]) = {t \in G : t[1] \in Up(k)}
             S == {k \in 0..l : Q(k)}
  <2>1. G \subseteq Tuples /\ {t \in G : t[1] \in N} = ToSet(img.data)
    BY <1>5, ViewGraph
  <2>2. DOMAIN m = N \cup Special /\ \A n \in Special \ N : m[n] = Print0[img.hdr[n]]
    BY ViewIs
  <2>3. \A t \in G : t[1] \in DOMAIN m /\ t = <<t[1], m[t[1]]>>
    BY DEF Graph
  <2>4. \A n \in DOMAIN m : <<n, m[n]>> \in G
    BY DEF Graph
  <2> HIDE DEF m, G, N
  <2>5. Q(0)
    <3>1. Held(f[0]) = ToSet(img.data)
      BY <1>1, <1>5, ImageParts, ReadTuples DEF Fills
    <3>2. Up(0) = N
      OBVIOUS
    <3> HIDE DEF Up
    <3> QED BY <3>1, <3>2, <2>1
  <2>6. ASSUME NEW k \in 1..l, Q(k - 1) PROVE Q(k)
    <3> DEFINE n == Specials[k]
               g == f[k - 1]
    <3>1. n \in Special /\ n \in Names /\ Print0[img.hdr[n]] \in Values /\ Len0[Print0[img.hdr[n]]] < Part
      BY SpecialName
    <3>2. f[k] = AddSpecial(img, g, n) /\ Good(g)
      BY <1>1, <1>2, <1>3 DEF Fills
    <3>3. Up(k) = Up(k - 1) \cup {n}
      OBVIOUS
    <3>4. N \subseteq Up(k - 1)
      OBVIOUS
    <3>5. Held(g) = {t \in G : t[1] \in Up(k - 1)}
      BY <2>6
    <3> DEFINE U == Up(k - 1)
               V == Up(k)
    <3> HIDE DEF Up, n, g
    <3>6. CASE holds(g, n)
      <4>1. <<n, value(g, n)>> \in Held(g)
        BY <3>1, <3>2, <3>6, Found
      <4>2. n \in U
        BY <4>1, <3>5
      <4>3. f[k] = g
        BY <3>2, <3>6 DEF AddSpecial
      <4> HIDE DEF U, V
      <4>4. V = U
        BY <4>2, <3>3 DEF U, V
      <4> QED BY <4>3, <4>4, <3>5 DEF U, V
    <3>7. CASE ~holds(g, n)
      <4>1. \A t \in Held(g) : t[1] # n
        BY <3>2, <3>7, HoldsHeld
      <4> HIDE DEF U, V
      <4>2. n \notin U
        <5>1. <<n, m[n]>> \in G
          BY <3>1, <2>2, <2>4
        <5> QED BY <5>1, <4>1, <3>5 DEF U
      <4>3. m[n] = Print0[img.hdr[n]] /\ n \in DOMAIN m
        BY <4>2, <3>1, <3>4, <2>2 DEF U
      <4>4. f[k] = nvram_set(g, n, Print0[img.hdr[n]])
        BY <3>2, <3>7 DEF AddSpecial
      <4>5. Held(f[k]) = Others(Held(g), n) \cup {<<n, Print0[img.hdr[n]]>>}
        <5> DEFINE w == Print0[img.hdr[n]]
        <5>1. w \in Values /\ Len0[w] < Part /\ f[k] = nvram_set(g, n, w)
          BY <4>4, <3>1
        <5> HIDE DEF w
        <5>2. Held(nvram_set(g, n, w)) = Others(Held(g), n) \cup {<<n, w>>}
          BY <5>1, <3>1, <3>2, SetTable
        <5> QED BY <5>1, <5>2 DEF w
      <4>6. Held(f[k]) = Held(g) \cup {<<n, m[n]>>}
        BY <4>1, <4>3, <4>5 DEF Others
      <4>7. V = U \cup {n}
        BY <3>3 DEF U, V
      <4>8. {t \in G : t[1] \in V} = {t \in G : t[1] \in U} \cup {<<n, m[n]>>}
        <5>1. <<n, m[n]>> \in G
          BY <4>3, <2>4
        <5>2. \A t \in G : t[1] = n => t = <<n, m[n]>>
          BY <2>3
        <5> QED BY <4>7, <5>1, <5>2
      <4> QED BY <4>6, <4>8, <3>5 DEF U, V
    <3> QED BY <3>6, <3>7
  <2> HIDE DEF Q
  <2>7. 0 \in S /\ \A k \in 1..l : k - 1 \in S => k \in S
    BY <1>2, <2>5, <2>6
  <2> HIDE DEF S
  <2>8. \A k \in 0..l : k \in S
    BY <1>2, <2>7, Induct
  <2>9. Q(l)
    BY <1>2, <2>8 DEF S
  <2>10. Held(f[l]) = {t \in G : t[1] \in Up(l)}
    BY <2>9 DEF Q
  <2>11. DOMAIN m = Up(l)
    BY <2>2 DEF Special
  <2> HIDE DEF Up
  <2>12. {t \in G : t[1] \in Up(l)} = G
    BY <2>3, <2>11
  <2> QED BY <1>1, <2>10, <2>12 DEF m, G
<1> QED BY <1>4, <1>5

-----------------------------------------------------------------------------
(***************************************************************************)
(* From the table to an image                                              *)
(***************************************************************************)

LEMMA MaxIn ==
    ASSUME NEW n \in Nat, NEW S, S \subseteq 0..n, 0 \in S
    PROVE  Max(S) \in S /\ \A y \in S : y <= Max(S)
<1> DEFINE Top(k) == \E x \in S : x <= k /\ \A y \in S : y <= k => y <= x
           T == {k \in 0..n : Top(k)}
<1>1. Top(0)
  OBVIOUS
<1>2. ASSUME NEW k \in 1..n, Top(k - 1) PROVE Top(k)
  <2>1. CASE k \in S
    BY <2>1
  <2>2. CASE k \notin S
    BY <1>2, <2>2
  <2> QED BY <2>1, <2>2
<1> HIDE DEF Top
<1>3. 0 \in T /\ \A k \in 1..n : k - 1 \in T => k \in T
  BY <1>1, <1>2
<1> HIDE DEF T
<1>4. \A k \in 0..n : k \in T
  BY <1>3, Induct
<1>5. Top(n)
  BY <1>4 DEF T
<1>6. PICK x \in S : \A y \in S : x >= y
  BY <1>5 DEF Top
<1>7. Max(S) \in S /\ \A y \in S : Max(S) >= y
  BY <1>6 DEF Max
<1> QED BY <1>7

Lists == {s \in Seq(Tuples) : size(s) <= room}

LEMMA RoomNat == room \in Nat /\ Header \in Nat /\ Part \in Nat /\ room + Header + 2 = Part
BY SizeAssumption DEF room

\* r is out with the first tuples of s, all of them if there is room.
Appended(out, s, r) ==
    /\ r \in Lists
    /\ \E k \in 0..Len(s) :
         /\ Len(r) = Len(out) + k
         /\ \A j \in 1..Len(out) : r[j] = out[j]
         /\ \A j \in 1..k : r[Len(out) + j] = s[j]
         /\ size(out) + size(s) <= room => k = Len(s)

LEMMA WriteChain ==
    ASSUME NEW out \in Lists, NEW s \in Seq(Tuples)
    PROVE  Appended(out, s, write_chain(out, s))
<1> DEFINE Fit(k) == size(out) + size(SubSeq(s, 1, k)) <= room
           K == {k \in 0..Len(s) : Fit(k)}
           k == Max(K)
<1>1. Len(s) \in Nat /\ out \in Seq(Tuples) /\ size(out) \in Nat /\ size(out) <= room /\ room \in Nat
  BY SizeNat, RoomNat DEF Lists
<1>2. 0 \in K
  <2>1. SubSeq(s, 1, 0) = <<>>
    OBVIOUS
  <2>1a. size(SubSeq(s, 1, 0)) = 0
    BY <2>1, SizeEmpty, Zenon
  <2>2. Fit(0)
    <3> DEFINE x == size(out)
               y == size(SubSeq(s, 1, 0))
    <3>1. x \in Nat /\ x <= room /\ y = 0
      BY <1>1, <2>1a
    <3> HIDE DEF x, y
    <3>2. x + y <= room
      BY <3>1
    <3> QED BY <3>2 DEF x, y
  <2> HIDE DEF Fit
  <2> QED BY <1>1, <2>2
<1>3. K \subseteq 0..Len(s)
  OBVIOUS
<1>4. SubSeq(s, 1, Len(s)) = s
  OBVIOUS
<1>5. size(out) + size(s) <= room => Len(s) \in K
  <2>1. Fit(Len(s)) <=> size(out) + size(s) <= room
    BY <1>4
  <2> HIDE DEF Fit
  <2> QED BY <1>1, <2>1
<1>6. write_chain(out, s) = out \o SubSeq(s, 1, k)
  BY DEF write_chain
<1>7. \A j \in K : j \in 0..Len(s) /\ size(out) + size(SubSeq(s, 1, j)) <= room
  OBVIOUS
<1> HIDE DEF K
<1>8. k \in K /\ \A y \in K : y <= k
  BY <1>1, <1>2, <1>3, MaxIn
<1> HIDE DEF k
<1> DEFINE p == SubSeq(s, 1, k)
           m == Len(out)
           r == out \o p
<1>9. k \in 0..Len(s) /\ size(out) + size(p) <= room
  BY <1>7, <1>8
<1>10. p \in Seq(Tuples) /\ Len(p) = k /\ \A j \in 1..k : p[j] = s[j]
  BY <1>1, <1>9
<1>11. size(out) + size(s) <= room => k = Len(s)
  BY <1>1, <1>5, <1>8, <1>9
<1>12. m = Len(out)
  OBVIOUS
<1> HIDE DEF p, m
<1>13. /\ r \in Seq(Tuples) /\ Len(r) = m + k
       /\ \A j \in 1..m : r[j] = out[j]
       /\ \A j \in 1..k : r[m + j] = p[j]
  BY <1>1, <1>10, <1>12, Joined
<1>14. size(r) = size(out) + size(p)
  BY <1>1, <1>10, SizeConcat
<1> HIDE DEF r
<1>15. r \in Lists
  BY <1>9, <1>13, <1>14 DEF Lists
<1>16. Appended(out, s, r)
  BY <1>9, <1>10, <1>11, <1>12, <1>13, <1>15 DEF Appended
<1> QED BY <1>6, <1>16 DEF r, p

\* f has what is written after each chain.
Writes(tab, f) ==
    /\ f \in [0..Buckets -> Lists] /\ f[0] = <<>>
    /\ \A b \in 1..Buckets : f[b] = write_chain(f[b - 1], tab[b])

LEMMA WriteSteps ==
    ASSUME NEW tab \in Tables
    PROVE  \E f : Writes(tab, f) /\ write_tuples(tab) = f[Buckets]
<1> DEFINE P(f) == f = [b \in 0..Buckets |-> IF b = 0 THEN <<>> ELSE write_chain(f[b - 1], tab[b])]
           F == [b \in 1..Buckets |-> [x \in Lists |-> write_chain(x, tab[b])]]
           c == CHOOSE f : P(f)
<1>0. Buckets \in Nat
  BY HashAssumption
<1>1. \A b \in 1..Buckets, x \in Lists : write_chain(x, tab[b]) \in Lists
  <2>1. \A b \in 1..Buckets : tab[b] \in Seq(Tuples)
    BY DEF Tables
  <2> QED BY <2>1, WriteChain DEF Appended
<1>1a. <<>> \in Lists
  BY SizeEmpty, RoomNat DEF Lists
<1>2. F \in [1..Buckets -> [Lists -> Lists]]
  BY <1>1
<1>2a. Steps(Buckets, Lists, <<>>, F)
  BY <1>0, <1>1a, <1>2 DEF Steps
<1>2b. PICK f : Iterates(Buckets, Lists, <<>>, F, f)
  <2> HIDE DEF F
  <2> QED BY <1>2a, Recursion
<1>3. /\ f \in [0..Buckets -> Lists] /\ f[0] = <<>>
      /\ \A b \in 1..Buckets : f[b] = F[b][f[b - 1]]
  BY <1>2b DEF Iterates
<1>4. ASSUME NEW b \in 1..Buckets PROVE f[b] = write_chain(f[b - 1], tab[b])
  <2>1. b - 1 \in 0..Buckets
    BY <1>0
  <2>2. f[b - 1] \in Lists
    BY <2>1, <1>3
  <2>3. F[b][f[b - 1]] = write_chain(f[b - 1], tab[b])
    BY <2>2
  <2> QED BY <2>3, <1>3
<1>5. P(f)
  BY <1>0, <1>3, <1>4
<1>6. P(c)
  <2> HIDE DEF P
  <2> QED BY <1>5
<1>7. write_tuples(tab) = c[Buckets]
  BY DEF write_tuples
<1>8. c = [b \in 0..Buckets |-> IF b = 0 THEN <<>> ELSE write_chain(c[b - 1], tab[b])]
  BY <1>6
<1> HIDE DEF c
<1> DEFINE S == {b \in 0..Buckets : c[b] \in Lists}
<1>9. \A b \in 0..Buckets : b \in S
  <2>1. 0 \in S
    BY <1>0, <1>1a, <1>8
  <2>2. ASSUME NEW b \in 1..Buckets, b - 1 \in S PROVE b \in S
    <3>0. b \in 0..Buckets /\ b # 0
      BY <1>0
    <3>1. c[b] = write_chain(c[b - 1], tab[b])
      BY <1>8, <3>0
    <3> QED BY <3>1, <2>2, <1>1
  <2>3. \A b \in 1..Buckets : b - 1 \in S => b \in S
    BY <2>2
  <2> HIDE DEF S
  <2> QED BY <1>0, <2>1, <2>3, Induct
<1>10. c \in [0..Buckets -> Lists]
  BY <1>8, <1>9
<1>11. c[0] = <<>> /\ \A b \in 1..Buckets : c[b] = write_chain(c[b - 1], tab[b])
  BY <1>0, <1>8
<1> QED BY <1>7, <1>10, <1>11 DEF Writes

\* There is room for all of the table.
Roomy(tab) ==
    \A s \in Seq(Tuples) : Differ(s) /\ ToSet(s) \subseteq Held(tab) => size(s) <= room

\* o is what is written of the chains up to the b-th.
Written(tab, b, o) ==
    /\ o \in Lists /\ Plain(o)
    /\ \A j \in 1..Len(o) : o[j] \in Held(tab) /\ Hash[o[j][1]] <= b
    /\ Roomy(tab) => \A t \in Held(tab) : Hash[t[1]] <= b => t \in ToSet(o)

LEMMA NamesDiffer ==
    ASSUME NEW s, Plain(s)
    PROVE  Differ(s)
BY DEF Plain, Differ

LEMMA WriteOne ==
    ASSUME NEW tab, Good(tab), NEW b \in 1..Buckets, NEW o, Written(tab, b - 1, o),
           NEW r, Appended(o, tab[b], r)
    PROVE  Written(tab, b, r)
<1> DEFINE c == tab[b]
           m == Len(o)
<1>1. Chain(b, c)
  BY DEF Good
<1>2. o \in Seq(Tuples) /\ m \in Nat /\ r \in Lists /\ r \in Seq(Tuples) /\ c \in Seq(Tuples) /\ b \in Int
  BY <1>1, HashAssumption DEF Written, Lists, Appended, Chain
<1>3. PICK k \in 0..Len(c) :
         /\ Len(r) = m + k
         /\ \A j \in 1..m : r[j] = o[j]
         /\ \A j \in 1..k : r[m + j] = c[j]
         /\ size(o) + size(c) <= room => k = Len(c)
  BY DEF Appended
<1>4. ASSUME NEW j \in 1..Len(c)
      PROVE  c[j] \in Held(tab) /\ Hash[c[j][1]] = b /\ Len0[c[j][2]] < Part
  <2>1. c[j] \in Tuples /\ c[j] \in ToSet(c)
    BY <1>2, InSeq
  <2>2. Hash[c[j][1]] = b /\ Len0[c[j][2]] < Part
    BY <1>1 DEF Chain
  <2> QED BY <2>1, <2>2 DEF Held
<1>5. \A i, j \in 1..Len(c) : c[i][1] = c[j][1] => i = j
  BY <1>1 DEF Chain
<1>6. \A j \in 1..m : o[j] \in Held(tab) /\ Hash[o[j][1]] <= b - 1 /\ Len0[o[j][2]] < Part
  BY DEF Written, Plain
<1>7. \A i, j \in 1..m : o[i][1] = o[j][1] => i = j
  BY DEF Written, Plain
<1>8. Len(c) \in Nat
  BY <1>2
<1>8a. \A t \in Held(tab) : Hash[t[1]] \in Int
  <2>1. ASSUME NEW t \in Held(tab) PROVE Hash[t[1]] \in Int
    <3>1. t[1] \in Names
      BY TupleParts DEF Held
    <3> QED BY <3>1, HashAssumption
  <2> QED BY <2>1
<1> HIDE DEF c, m
<1>9. ASSUME NEW j \in 1..Len(r)
      PROVE  \/ j \in 1..m /\ r[j] = o[j]
             \/ j - m \in 1..k /\ j - m \in 1..Len(c) /\ r[j] = c[j - m]
  <2>1. CASE j <= m
    BY <2>1, <1>2, <1>3
  <2>2. CASE ~(j <= m)
    <3>1. j - m \in 1..k /\ j - m \in 1..Len(c) /\ m + (j - m) = j
      BY <2>2, <1>2, <1>3, <1>8
    <3> QED BY <3>1, <1>3
  <2> QED BY <2>1, <2>2
<1>10. ASSUME NEW j \in 1..Len(r)
       PROVE  r[j] \in Held(tab) /\ Hash[r[j][1]] <= b /\ Len0[r[j][2]] < Part
  <2>1. CASE j \in 1..m /\ r[j] = o[j]
    <3>1. o[j] \in Held(tab) /\ Hash[o[j][1]] <= b - 1 /\ Len0[o[j][2]] < Part
      BY <2>1, <1>6
    <3>2. Hash[o[j][1]] \in Int
      BY <3>1, <1>8a
    <3> QED BY <2>1, <3>1, <3>2, <1>2
  <2>2. CASE j - m \in 1..Len(c) /\ r[j] = c[j - m]
    BY <2>2, <1>2, <1>4
  <2> QED BY <1>9, <2>1, <2>2
<1>11. ASSUME NEW i \in 1..Len(r), NEW j \in 1..Len(r), r[i][1] = r[j][1] PROVE i = j
  <2>1. CASE i \in 1..m /\ r[i] = o[i] /\ j \in 1..m /\ r[j] = o[j]
    BY <2>1, <1>11, <1>7
  <2>2. CASE i - m \in 1..Len(c) /\ r[i] = c[i - m] /\ j - m \in 1..Len(c) /\ r[j] = c[j - m]
    <3>1. i - m = j - m
      BY <2>2, <1>11, <1>5
    <3> QED BY <3>1, <1>2
  <2>3. ASSUME NEW x \in 1..Len(r), NEW y \in 1..Len(r), r[x][1] = r[y][1],
               x \in 1..m, r[x] = o[x], y - m \in 1..Len(c), r[y] = c[y - m]
        PROVE  FALSE
    <3>1. Hash[o[x][1]] <= b - 1 /\ o[x] \in Held(tab)
      BY <2>3, <1>6
    <3>2. Hash[c[y - m][1]] = b
      BY <2>3, <1>4
    <3>3. Hash[o[x][1]] = b
      BY <3>2, <2>3
    <3> QED BY <3>1, <3>3, <1>2
  <2> QED BY <1>9, <1>11, <2>1, <2>2, <2>3
<1>12. Plain(r)
  BY <1>10, <1>11 DEF Plain
<1>13. ASSUME Roomy(tab), NEW t \in Held(tab), Hash[t[1]] <= b PROVE t \in ToSet(r)
  <2>1. CASE Hash[t[1]] <= b - 1
    <3>1. t \in ToSet(o)
      BY <1>13, <2>1 DEF Written
    <3>2. PICK j \in 1..m : o[j] = t
      BY <3>1, <1>2, InSeq DEF m
    <3>3. j \in 1..Len(r) /\ r[j] = t
      <4>1. r[j] = t
        BY <3>2, <1>3
      <4>2. j <= m + k /\ 1 <= j /\ j \in Int /\ m + k \in Int
        BY <1>2, <1>8
      <4> QED BY <4>1, <4>2, <1>3
    <3> QED BY <3>3, <1>2, InSeq
  <2>2. CASE ~(Hash[t[1]] <= b - 1)
    <3>1. Hash[t[1]] = b
      BY <1>13, <2>2, <1>2, <1>8a
    <3>2. t \in ToSet(c)
      BY <3>1 DEF Held, c
    <3>3. PICK j \in 1..Len(c) : c[j] = t
      BY <3>2, <1>2, InSeq
    <3>4. k = Len(c)
      <4> DEFINE u == o \o c
                 e == Len(c)
      <4>0. o \in Seq(Tuples) /\ c \in Seq(Tuples) /\ m = Len(o) /\ e = Len(c)
        BY <1>2 DEF m
      <4> HIDE DEF e
      <4>1. /\ u \in Seq(Tuples) /\ Len(u) = m + e
            /\ \A i \in 1..m : u[i] = o[i]
            /\ \A i \in 1..e : u[m + i] = c[i]
        BY <4>0, Joined
      <4>2. size(u) = size(o) + size(c)
        BY <4>0, SizeConcat
      <4> HIDE DEF u
      <4>3. ASSUME NEW i \in 1..Len(u)
            PROVE  \/ i \in 1..m /\ u[i] = o[i] /\ u[i] \in Held(tab) /\ Hash[u[i][1]] <= b - 1
                   \/ i - m \in 1..e /\ u[i] = c[i - m] /\ u[i] \in Held(tab) /\ Hash[u[i][1]] = b
        <5>1. CASE i <= m
          BY <5>1, <4>1, <1>2, <1>6
        <5>2. CASE ~(i <= m)
          <6>1. i - m \in 1..e /\ m + (i - m) = i
            BY <5>2, <4>0, <4>1, <1>2, <1>8
          <6>2. u[i] = c[i - m]
            BY <6>1, <4>1
          <6> QED BY <6>1, <6>2, <4>0, <1>4
        <5> QED BY <5>1, <5>2
      <4>4. Differ(u)
        <5>1. ASSUME NEW x \in 1..Len(u), NEW y \in 1..Len(u), u[x] = u[y] PROVE x = y
          <6>1. CASE x \in 1..m /\ u[x] = o[x] /\ y \in 1..m /\ u[y] = o[y]
            BY <6>1, <5>1, <1>7
          <6>2. CASE x - m \in 1..e /\ u[x] = c[x - m] /\ y - m \in 1..e /\ u[y] = c[y - m]
            <7>1. x - m = y - m
              BY <6>2, <5>1, <4>0, <1>5
            <7> QED BY <7>1, <1>2
          <6>3. ~(Hash[u[x][1]] <= b - 1 /\ Hash[u[y][1]] = b) /\ ~(Hash[u[x][1]] = b /\ Hash[u[y][1]] <= b - 1)
            BY <5>1, <1>2
          <6> QED BY <4>3, <6>1, <6>2, <6>3
        <5> QED BY <5>1 DEF Differ
      <4>5. ToSet(u) \subseteq Held(tab)
        BY <4>1, <4>3, InSeq
      <4>6. size(u) <= room
        BY <4>1, <4>4, <4>5, <1>13 DEF Roomy
      <4> QED BY <4>2, <4>6, <1>3
    <3>5. m + j \in 1..Len(r) /\ r[m + j] = t
      BY <3>3, <3>4, <1>2, <1>3, <1>8
    <3> QED BY <3>5, <1>2, InSeq
  <2> QED BY <2>1, <2>2
<1> QED BY <1>2, <1>10, <1>12, <1>13 DEF Written

\* What is written of a table: some of its tuples, and all when there is room.
LEMMA WriteTuples ==
    ASSUME NEW tab, Good(tab)
    PROVE  /\ write_tuples(tab) \in Seq(Tuples) /\ size(write_tuples(tab)) <= room
           /\ Plain(write_tuples(tab))
           /\ ToSet(write_tuples(tab)) \subseteq Held(tab)
           /\ Roomy(tab) => ToSet(write_tuples(tab)) = Held(tab)
<1>1. tab \in Tables /\ Buckets \in Nat
  BY HashAssumption DEF Good
<1>2. PICK f : Writes(tab, f) /\ write_tuples(tab) = f[Buckets]
  BY <1>1, WriteSteps
<1> DEFINE Q(b) == Written(tab, b, f[b])
           S == {b \in 0..Buckets : Q(b)}
<1>3. Q(0)
  <2>1. f[0] = <<>> /\ f[0] \in Lists /\ Plain(<<>>)
    BY <1>1, <1>2 DEF Writes, Plain
  <2>2. \A t \in Held(tab) : ~(Hash[t[1]] <= 0)
    <3>1. ASSUME NEW t \in Held(tab) PROVE ~(Hash[t[1]] <= 0)
      <4>1. Hash[t[1]] \in 1..Buckets
        BY TupleParts, HashBucket DEF Held
      <4> QED BY <4>1, <1>1
    <3> QED BY <3>1
  <2>3. \A j \in 1..Len(f[0]) : f[0][j] \in Held(tab) /\ Hash[f[0][j][1]] <= 0
    BY <2>1
  <2> QED BY <2>1, <2>2, <2>3 DEF Written
<1>4. ASSUME NEW b \in 1..Buckets, Q(b - 1) PROVE Q(b)
  <2>1. f[b] = write_chain(f[b - 1], tab[b])
    BY <1>2 DEF Writes
  <2>2. f[b - 1] \in Lists /\ tab[b] \in Seq(Tuples)
    BY <1>1, <1>4 DEF Written, Tables
  <2>3. Appended(f[b - 1], tab[b], f[b])
    BY <2>1, <2>2, WriteChain
  <2> QED BY <2>3, <1>4, WriteOne
<1> HIDE DEF Q
<1>5. 0 \in S /\ \A b \in 1..Buckets : b - 1 \in S => b \in S
  BY <1>1, <1>3, <1>4
<1> HIDE DEF S
<1>6. \A b \in 0..Buckets : b \in S
  BY <1>1, <1>5, Induct
<1>7. Q(Buckets)
  BY <1>1, <1>6 DEF S
<1> DEFINE w == write_tuples(tab)
<1>8. Written(tab, Buckets, w)
  BY <1>2, <1>7 DEF Q
<1> HIDE DEF w
<1>9. w \in Seq(Tuples) /\ size(w) <= room /\ Plain(w)
  BY <1>8 DEF Written, Lists
<1>10. ToSet(w) \subseteq Held(tab)
  BY <1>8, <1>9, InSeq DEF Written
<1>11. \A t \in Held(tab) : Hash[t[1]] <= Buckets
  <2>1. ASSUME NEW t \in Held(tab) PROVE Hash[t[1]] <= Buckets
    <3>1. Hash[t[1]] \in 1..Buckets
      BY TupleParts, HashBucket DEF Held
    <3> QED BY <3>1, <1>1
  <2> QED BY <2>1
<1>12. Roomy(tab) => Held(tab) \subseteq ToSet(w)
  BY <1>8, <1>11 DEF Written
<1> QED BY <1>9, <1>10, <1>12 DEF w

-----------------------------------------------------------------------------
-----------------------------------------------------------------------------
(***************************************************************************)
(* Images                                                                  *)
(***************************************************************************)

\* The header says what the variables say, or has the defaults because a
\* special variable was unset.
Agrees(img) ==
    \/ \A n \in Special : img.hdr[n] = Word[view(img)[n]]
    \/ img.hdr = Default /\ \E n \in Special : \A t \in ToSet(img.data) : t[1] # n

Sound == {img \in Images : Plain(img.data)}

LEMMA SoundIs ==
    ASSUME NEW img
    PROVE  img \in Sound <=> img \in Images /\ Plain(img.data)
BY DEF Sound

LEMMA NewImage ==
    ASSUME NEW h \in [Special -> Words], NEW d \in Seq(Tuples), NEW l \in 0..Part, NEW z \in BOOLEAN,
           NEW img, img = [hdr |-> h, data |-> d, len |-> l, nul |-> z]
    PROVE  img \in Images /\ img.hdr = h /\ img.data = d /\ img.len = l /\ img.nul = z
BY DEF Images

\* An image is its fields.
LEMMA SameImage ==
    ASSUME NEW img \in Images
    PROVE  img = [hdr |-> img.hdr, data |-> img.data, len |-> img.len, nul |-> img.nul]
BY DEF Images

LEMMA EmptyPlain == <<>> \in Seq(Tuples) /\ Plain(<<>>)
BY DEF Plain

LEMMA Rounded ==
    ASSUME NEW s \in Seq(Tuples), size(s) <= room
    PROVE  length(s) \in 0..Part
<1> DEFINE x == Header + size(s) + 2
<1>1. x \in Nat /\ x <= Part /\ Part \in Nat /\ Part % 4 = 0
  <2> DEFINE z == size(s)
  <2>1. z \in Nat /\ z <= room
    BY SizeNat
  <2> HIDE DEF z
  <2>2. Header + z + 2 \in Nat /\ Header + z + 2 <= Part
    BY <2>1, RoomNat
  <2> QED BY <2>2, SizeAssumption DEF z
<1>2. length(s) = ((x + 3) \div 4) * 4
  BY DEF length
<1> HIDE DEF x
<1>3. ((x + 3) \div 4) * 4 \in 0..Part
  BY <1>1
<1> QED BY <1>2, <1>3

LEMMA HeaderType ==
    ASSUME NEW tab, Good(tab)
    PROVE  header(tab) \in [Special -> Words]
<1>1. CASE \A n \in Special : holds(tab, n)
  <2>1. \A n \in Special : value(tab, n) \in Values
    BY <1>1, SpecialNames, Found
  <2>2. header(tab) = [n \in Special |-> Word[value(tab, n)]]
    BY <1>1 DEF header
  <2> QED BY <2>1, <2>2, WordAssumption
<1>2. CASE ~\A n \in Special : holds(tab, n)
  BY <1>2, DefaultAssumption DEF header
<1> QED BY <1>1, <1>2

LEMMA ImageOfTable ==
    ASSUME NEW tab, Good(tab)
    PROVE  /\ Image(tab) \in Images /\ Image(tab).hdr = header(tab)
           /\ Image(tab).data = write_tuples(tab)
           /\ Image(tab) = [hdr |-> header(tab), data |-> write_tuples(tab),
                            len |-> length(write_tuples(tab)), nul |-> TRUE]
           /\ length(write_tuples(tab)) \in 0..Part
<1> DEFINE d == write_tuples(tab)
           h == header(tab)
           l == length(d)
           z == TRUE
           img == Image(tab)
<1>1. img = [hdr |-> h, data |-> d, len |-> l, nul |-> z]
  BY DEF Image
<1>2. d \in Seq(Tuples) /\ l \in 0..Part
  BY WriteTuples, Rounded
<1>3. h \in [Special -> Words] /\ z \in BOOLEAN
  BY HeaderType
<1> HIDE DEF d, h, l, z, img
<1>4. img \in Images /\ img.hdr = h /\ img.data = d
  BY <1>1, <1>2, <1>3, NewImage
<1> QED BY <1>1, <1>2, <1>4 DEF d, h, l, z, img

\* What nvram_commit writes.
LEMMA ImageSound ==
    ASSUME NEW tab, Good(tab)
    PROVE  Image(tab) \in Sound /\ Agrees(Image(tab))
<1> DEFINE img == Image(tab)
           N == Named(img.data)
<1>1. /\ img \in Images /\ img.hdr = header(tab) /\ Plain(img.data)
      /\ ToSet(img.data) \subseteq Held(tab)
  BY ImageOfTable, WriteTuples
<1> SUFFICES img \in Sound /\ Agrees(img)
  OBVIOUS
<1> HIDE DEF img
<1>2. CASE \A n \in Special : holds(tab, n)
  <2>1. ASSUME NEW n \in Special PROVE img.hdr[n] = Word[view(img)[n]]
    <3>1. img.hdr[n] = Word[value(tab, n)] /\ img.hdr[n] \in Words
      BY <1>1, <1>2, ImageParts DEF header
    <3>2. CASE n \in N
      <4>1. PICK t \in ToSet(img.data) : t[1] = n /\ view(img)[n] = t[2]
        BY <1>1, <3>2, ViewIs
      <4>2. value(tab, n) = t[2]
        BY <4>1, <1>1, HoldsHeld
      <4> QED BY <3>1, <4>1, <4>2
    <3>3. CASE n \notin N
      <4>1. view(img)[n] = Print0[img.hdr[n]]
        BY <1>1, <3>3, ViewIs
      <4> QED BY <4>1, <3>1, PrintAssumption
    <3> QED BY <3>2, <3>3
  <2>2. Agrees(img)
    BY <2>1 DEF Agrees
  <2> QED BY <1>1, <2>2, SoundIs
<1>3. CASE ~\A n \in Special : holds(tab, n)
  <2>1. PICK n \in Special : ~holds(tab, n)
    BY <1>3
  <2>2. \A t \in ToSet(img.data) : t[1] # n
    BY <1>1, <2>1, HoldsHeld
  <2>3. img.hdr = Default
    BY <1>1, <1>3 DEF header
  <2>4. Agrees(img)
    BY <2>2, <2>3 DEF Agrees
  <2> QED BY <1>1, <2>4, SoundIs
<1> QED BY <1>2, <1>3

\* The copy with a new header, cleared, and with its tuples.
LEMMA HeaderSound ==
    ASSUME NEW tab, Good(tab), NEW img \in Sound
    PROVE  LET new == [img EXCEPT !.hdr = header(tab)]
           IN  new \in Sound /\ new.hdr = header(tab)
<1> DEFINE h == header(tab)
           new == [img EXCEPT !.hdr = h]
<1>1. img \in Images /\ Plain(img.data) /\ h \in [Special -> Words]
  BY SoundIs, HeaderType
<1> HIDE DEF h
<1>2. new \in Images /\ new.data = img.data /\ new.hdr = h
  BY <1>1 DEF Images
<1> HIDE DEF new
<1>3. new \in Sound /\ new.hdr = h
  BY <1>1, <1>2, SoundIs
<1> QED BY <1>3 DEF h, new

LEMMA FreshSound ==
    ASSUME NEW tab, Good(tab)
    PROVE  LET new == [hdr |-> header(tab), data |-> <<>>, len |-> Part, nul |-> FALSE]
           IN  new \in Sound /\ new.hdr = header(tab)
<1> DEFINE h == header(tab)
           d == <<>>
           l == Part
           z == FALSE
           new == [hdr |-> h, data |-> d, len |-> l, nul |-> z]
<1>1. h \in [Special -> Words] /\ d \in Seq(Tuples) /\ l \in 0..Part /\ z \in BOOLEAN /\ Plain(d)
  BY HeaderType, EmptyPlain, SizeAssumption
<1>2. new = [hdr |-> h, data |-> d, len |-> l, nul |-> z]
  OBVIOUS
<1> HIDE DEF h, d, l, z, new
<1>3. new \in Images /\ new.data = d /\ new.hdr = h
  BY <1>1, <1>2, NewImage
<1>4. new \in Sound /\ new.hdr = h
  BY <1>1, <1>3, SoundIs
<1> QED BY <1>4 DEF h, d, l, z, new

LEMMA ClearedSound ==
    ASSUME NEW img \in Sound
    PROVE  LET new == [img EXCEPT !.data = <<>>, !.nul = FALSE]
           IN  new \in Sound /\ new.hdr = img.hdr
<1> DEFINE d == <<>>
           z == FALSE
           mid == [img EXCEPT !.data = d]
           new == [mid EXCEPT !.nul = z]
<1>1. img \in Images /\ d \in Seq(Tuples) /\ z \in BOOLEAN /\ Plain(d)
  BY SoundIs, EmptyPlain
<1> HIDE DEF d, z
<1>2. mid \in Images /\ mid.data = d /\ mid.hdr = img.hdr
  BY <1>1 DEF Images
<1> HIDE DEF mid
<1>3. new \in Images /\ new.data = d /\ new.hdr = img.hdr
  BY <1>1, <1>2 DEF Images
<1> HIDE DEF new
<1>4. new \in Sound /\ new.hdr = img.hdr
  BY <1>1, <1>3, SoundIs
<1>5. new = [img EXCEPT !.data = <<>>, !.nul = FALSE]
  BY Zenon DEF new, mid, d, z
<1> QED BY <1>4, <1>5

LEMMA TuplesSound ==
    ASSUME NEW tab, Good(tab), NEW img \in Sound
    PROVE  LET new == [img EXCEPT !.data = write_tuples(tab), !.len = length(write_tuples(tab)),
                                  !.nul = TRUE]
           IN  new \in Sound /\ (img.hdr = header(tab) => new = Image(tab))
<1> DEFINE d == write_tuples(tab)
           l == length(d)
           z == TRUE
           h == header(tab)
           one == [img EXCEPT !.data = d]
           two == [one EXCEPT !.len = l]
           new == [two EXCEPT !.nul = z]
           goal == Image(tab)
<1>1. /\ img \in Images /\ d \in Seq(Tuples) /\ l \in 0..Part /\ z \in BOOLEAN /\ Plain(d)
      /\ goal \in Images /\ goal = [hdr |-> h, data |-> d, len |-> l, nul |-> z]
  BY SoundIs, WriteTuples, ImageOfTable
<1> HIDE DEF d, l, z, h, goal
<1>2. one \in Images /\ one.data = d /\ one.hdr = img.hdr
  BY <1>1 DEF Images
<1> HIDE DEF one
<1>3. two \in Images /\ two.data = d /\ two.hdr = img.hdr /\ two.len = l
  BY <1>1, <1>2 DEF Images
<1> HIDE DEF two
<1>4. new \in Images /\ new.data = d /\ new.hdr = img.hdr /\ new.len = l /\ new.nul = z
  BY <1>1, <1>3 DEF Images
<1> HIDE DEF new
<1>5. new \in Sound
  BY <1>1, <1>4, SoundIs
<1>6. img.hdr = h => new = goal
  <2>1. new = [hdr |-> img.hdr, data |-> d, len |-> l, nul |-> z]
    BY <1>4, SameImage
  <2> QED BY <2>1, <1>1
<1>7. new = [img EXCEPT !.data = write_tuples(tab), !.len = length(write_tuples(tab)), !.nul = TRUE]
  BY Zenon DEF new, two, one, d, l, z
<1>8. img.hdr = header(tab) => new = Image(tab)
  BY <1>6 DEF h, goal
<1> QED BY <1>5, <1>7, <1>8

-----------------------------------------------------------------------------
(***************************************************************************)
(* Images whose writing was cut short                                      *)
(***************************************************************************)

\* The first k tuples of s, or these and one more that has the name of the next.
Cut(s, k, d) ==
    \/ d = SubSeq(s, 1, k)
    \/ /\ k < Len(s)
       /\ \E v \in Values : Len0[v] < Part /\ d = Append(SubSeq(s, 1, k), <<s[k + 1][1], v>>)

LEMMA CutIs ==
    ASSUME NEW s \in Seq(Tuples), Plain(s), NEW k \in 0..Len(s), NEW d, Cut(s, k, d)
    PROVE  /\ d \in Seq(Tuples) /\ Plain(d) /\ Named(d) \subseteq Named(s)
           /\ \A t, u \in ToSet(d) : t \notin ToSet(s) /\ u \notin ToSet(s) => t = u
<1> DEFINE h == SubSeq(s, 1, k)
<1>1. k \in Nat /\ Len(s) \in Nat /\ k <= Len(s)
  OBVIOUS
<1>2. h \in Seq(Tuples) /\ Len(h) = k /\ \A j \in 1..k : h[j] = s[j]
  BY <1>1
<1>3. \A j \in 1..Len(s) : s[j] \in ToSet(s) /\ s[j] \in Tuples
  BY InSeq DEF ToSet
<1> HIDE DEF h
<1>4. CASE d = h
  <2>1. \A t \in ToSet(d) : \E j \in 1..k : t = s[j]
    BY <1>2, <1>4 DEF ToSet
  <2>2. ToSet(d) \subseteq ToSet(s)
    BY <1>1, <1>3, <2>1
  <2>3. Plain(d)
    BY <1>1, <1>2, <1>4 DEF Plain
  <2> QED BY <1>2, <1>4, <2>2, <2>3 DEF Named
<1>5. ASSUME k < Len(s), NEW v \in Values, Len0[v] < Part, d = Append(h, <<s[k + 1][1], v>>)
      PROVE  /\ d \in Seq(Tuples) /\ Plain(d) /\ Named(d) \subseteq Named(s)
             /\ \A t, u \in ToSet(d) : t \notin ToSet(s) /\ u \notin ToSet(s) => t = u
  <2> DEFINE n == s[k + 1][1]
             e == <<n, v>>
  <2>1. k + 1 \in 1..Len(s) /\ s[k + 1] \in Tuples /\ n \in Names
    BY <1>1, <1>3, <1>5, TupleParts
  <2>2. e \in Tuples /\ e[1] = n /\ e[2] = v
    BY <2>1 DEF Tuples
  <2>3. d = Append(h, e)
    BY <1>5
  <2> HIDE DEF e
  <2>4. d \in Seq(Tuples) /\ Len(d) = k + 1 /\ d[k + 1] = e /\ \A j \in 1..k : d[j] = h[j]
    BY <1>1, <1>2, <2>2, <2>3
  <2>5. \A j \in 1..k : d[j] = s[j]
    BY <1>2, <2>4
  <2>6. \A j \in 1..Len(d) : d[j] = e \/ d[j] \in ToSet(s)
    BY <1>1, <1>3, <2>4, <2>5
  <2>7. \A t \in ToSet(d) : t = e \/ t \in ToSet(s)
    BY <2>6 DEF ToSet
  <2>8. Plain(d)
    <3>1. \A j \in 1..k : j \in 1..Len(s) /\ j # k + 1
      BY <1>1
    <3>2. \A j \in 1..k : d[j] = s[j] /\ Len0[d[j][2]] < Part /\ d[j][1] # n
      BY <2>1, <2>5, <3>1 DEF Plain
    <3>3. \A i, j \in 1..k : d[i][1] = d[j][1] => i = j
      BY <2>5, <3>1 DEF Plain
    <3>4. \A j \in 1..Len(d) : j \in 1..k \/ j = k + 1
      BY <1>1, <2>4
    <3>5. d[k + 1][1] = n /\ Len0[d[k + 1][2]] < Part
      BY <1>5, <2>2, <2>4
    <3> HIDE DEF n
    <3> QED BY <3>2, <3>3, <3>4, <3>5 DEF Plain
  <2>9. n \in Named(s)
    BY <1>3, <2>1 DEF Named
  <2>10. Named(d) \subseteq Named(s)
    BY <2>2, <2>7, <2>9 DEF Named
  <2> QED BY <2>4, <2>7, <2>8, <2>10
<1> QED BY <1>4, <1>5 DEF Cut, h

\* What is left of an image.
LEMMA TornIs ==
    ASSUME NEW img \in Sound, NEW x \in torn(img), x # Blank
    PROVE  \E h \in [Special -> Words], l \in 0..Part, k \in 0..Len(img.data) : \E d :
              Cut(img.data, k, d) /\ x = [hdr |-> h, data |-> d, len |-> l, nul |-> FALSE]
<1> DEFINE s == img.data
           cut(h, d, l) == [hdr |-> h, data |-> d, len |-> l, nul |-> FALSE]
           upto(k) == SubSeq(s, 1, k)
           runs(k) == {v \in Values : /\ Len0[v] < Part
                                      /\ Header + size(upto(k)) + bytes(<<s[k + 1][1], v>>) > Part}
           some(k) == [n \in Special |-> IF n \in {Specials[j] : j \in 1..k} THEN img.hdr[n] ELSE Erased]
           none == [n \in Special |-> Erased]
           Left(y) == \E h \in [Special -> Words], l \in 0..Part, k \in 0..Len(s) : \E d :
                         Cut(s, k, d) /\ y = cut(h, d, l)
<1>0. img \in Images /\ img # Blank
  BY SoundIs, FileAssumption
<1>1. s \in Seq(Tuples) /\ Len(s) \in Nat /\ img.hdr \in [Special -> Words] /\ img.len \in 0..Part
  BY <1>0, ImageParts
<1>2. none \in [Special -> Words] /\ \A k : some(k) \in [Special -> Words]
  BY <1>1, DefaultAssumption
<1>3. 0 \in 0..Len(s) /\ Cut(s, 0, <<>>)
  BY <1>1 DEF Cut
<1>4. Part \in 0..Part
  BY SizeAssumption
<1>5. \/ x = cut(none, <<>>, Part)
      \/ x \in {cut(some(k), <<>>, img.len) : k \in 0..Len(Specials)}
      \/ x \in {cut(img.hdr, upto(k), img.len) : k \in 0..Len(s)}
      \/ x \in UNION {{cut(img.hdr, Append(upto(k), <<s[k + 1][1], v>>), img.len) : v \in runs(k)}
                        : k \in 0..(Len(s) - 1)}
  <2> HIDE DEF cut, none, some, upto, runs
  <2> QED BY <1>0 DEF torn, cut, none, some, upto, runs
<1> HIDE DEF none, some
<1>6. CASE x = cut(none, <<>>, Part)
  <2> HIDE DEF cut
  <2>1. Left(x)
    BY <1>2, <1>3, <1>4, <1>6, Zenon
  <2> QED BY <2>1 DEF cut
<1>7. CASE x \in {cut(some(k), <<>>, img.len) : k \in 0..Len(Specials)}
  <2>1. PICK k \in 0..Len(Specials) : x = cut(some(k), <<>>, img.len)
    BY <1>7
  <2> HIDE DEF cut
  <2>2. Left(x)
    BY <1>1, <1>2, <1>3, <2>1, Zenon
  <2> QED BY <2>2 DEF cut
<1>8. CASE x \in {cut(img.hdr, upto(k), img.len) : k \in 0..Len(s)}
  <2>1. PICK k \in 0..Len(s) : x = cut(img.hdr, upto(k), img.len)
    BY <1>8
  <2>2. Cut(s, k, upto(k))
    BY DEF Cut
  <2> HIDE DEF cut, upto
  <2>3. Left(x)
    BY <1>1, <2>1, <2>2, Zenon
  <2> QED BY <2>3 DEF cut
<1>9. CASE x \in UNION {{cut(img.hdr, Append(upto(k), <<s[k + 1][1], v>>), img.len) : v \in runs(k)}
                          : k \in 0..(Len(s) - 1)}
  <2>0. PICK k \in 0..(Len(s) - 1) :
           x \in {cut(img.hdr, Append(upto(k), <<s[k + 1][1], v>>), img.len) : v \in runs(k)}
    BY <1>9
  <2>1. PICK v \in runs(k) : x = cut(img.hdr, Append(upto(k), <<s[k + 1][1], v>>), img.len)
    BY <2>0
  <2>2. v \in Values /\ Len0[v] < Part
    BY <2>1
  <2>3. k \in 0..Len(s) /\ k < Len(s)
    BY <1>1
  <2> DEFINE d == Append(upto(k), <<s[k + 1][1], v>>)
  <2>4. Cut(s, k, d)
    BY <2>2, <2>3 DEF Cut
  <2> HIDE DEF d, cut
  <2>5. Left(x)
    <3>1. x = cut(img.hdr, d, img.len)
      BY <2>1 DEF d
    <3> QED BY <1>1, <2>3, <2>4, <3>1, Zenon
  <2> QED BY <2>5 DEF cut
<1> QED BY <1>5, <1>6, <1>7, <1>8, <1>9

\* It is sound, and has at most one wrong value.
LEMMA TornSound ==
    ASSUME NEW img \in Sound, NEW x \in torn(img), x # Blank
    PROVE  /\ x \in Sound /\ x.nul = FALSE
           /\ Contract!Torn(view(x), view(img))
<1> DEFINE s == img.data
           z == FALSE
           f == view(x)
           m == view(img)
<1>1. img \in Images /\ Plain(s) /\ s \in Seq(Tuples)
  BY SoundIs, ImageParts
<1>2a. PICK h \in [Special -> Words], l \in 0..Part, k \in 0..Len(s) : \E d :
          Cut(s, k, d) /\ x = [hdr |-> h, data |-> d, len |-> l, nul |-> z]
  BY TornIs
<1>2. PICK d : Cut(s, k, d) /\ x = [hdr |-> h, data |-> d, len |-> l, nul |-> z]
  BY <1>2a
<1>3. /\ d \in Seq(Tuples) /\ Plain(d) /\ Named(d) \subseteq Named(s)
      /\ \A t, u \in ToSet(d) : t \notin ToSet(s) /\ u \notin ToSet(s) => t = u
  BY <1>1, <1>2, CutIs
<1>4. z \in BOOLEAN
  OBVIOUS
<1> HIDE DEF z
<1>5. x \in Images /\ x.data = d /\ x.nul = z
  BY <1>2, <1>3, <1>4, NewImage
<1>6. x \in Sound
  BY <1>3, <1>5, SoundIs
<1>7. DOMAIN f = Named(d) \cup Special /\ DOMAIN m = Named(s) \cup Special
  BY <1>1, <1>5, ViewIs
<1>8. \A n \in Named(d) : \E t \in ToSet(d) : t[1] = n /\ f[n] = t[2]
  BY <1>5, ViewIs
<1>9. \A t \in ToSet(s) : m[t[1]] = t[2]
  BY <1>1, ViewTuple
<1> HIDE DEF f, m
<1>10. ASSUME NEW n \in DOMAIN f \ Special, NEW o \in DOMAIN f \ Special, f[n] # m[n], f[o] # m[o]
       PROVE  n = o
  <2>1. PICK t \in ToSet(d) : t[1] = n /\ f[n] = t[2]
    BY <1>7, <1>8
  <2>2. PICK u \in ToSet(d) : u[1] = o /\ f[o] = u[2]
    BY <1>7, <1>8
  <2>3. t \notin ToSet(s) /\ u \notin ToSet(s)
    BY <1>9, <1>10, <2>1, <2>2
  <2> QED BY <1>3, <2>1, <2>2, <2>3
<1>11. Contract!Torn(f, m)
  BY <1>3, <1>7, <1>10 DEF Contract!Torn
<1> QED BY <1>5, <1>6, <1>11 DEF f, m, z

-----------------------------------------------------------------------------
(***************************************************************************)
(* The commands that run                                                   *)
(***************************************************************************)

Places == {"look", "fetch", "create", "copy", "open", "edit", "header", "clear", "tuples",
           "read", "write", "erased", "part", "unlink"}

\* r is a running command with these fields.
Fields(r, at, cmd, tab, base, file) ==
    /\ r \in Running
    /\ r.at = at /\ r.cmd = cmd /\ r.tab = tab /\ r.base = base /\ r.file = file

LEMMA FieldsOf ==
    ASSUME NEW r \in Running
    PROVE  /\ Fields(r, r.at, r.cmd, r.tab, r.base, r.file)
           /\ r.at \in Places /\ r.cmd \in Commands /\ r.tab \in Tables
           /\ r.base \in Images \cup {None, Empty, Blank}
           /\ r.file \in BOOLEAN /\ r # Idle
<1>1. r.at \in Places /\ r.cmd \in Commands /\ r.tab \in Tables
  BY DEF Running, Places, Tables
<1>2. r.base \in Images \cup {None, Empty, Blank} /\ r.file \in BOOLEAN
  BY DEF Running
<1>3. r # Idle
  BY <1>1 DEF Idle, Places
<1> QED BY <1>1, <1>2, <1>3 DEF Fields

LEMMA NewFields ==
    ASSUME NEW at \in Places, NEW cmd \in Commands, NEW tab \in Tables,
           NEW base \in Images \cup {None, Empty, Blank}, NEW file \in BOOLEAN
    PROVE  Fields([at |-> at, cmd |-> cmd, tab |-> tab, base |-> base, file |-> file],
                  at, cmd, tab, base, file)
BY DEF Fields, Running, Places, Tables

Progress == [Procs -> Running \cup {Idle}]

\* g is h but for p, which runs with these fields.
Moves(h, p, g, at, cmd, tab, base, file) ==
    /\ g \in Progress /\ \A q \in Procs : q # p => g[q] = h[q]
    /\ Fields(g[p], at, cmd, tab, base, file)

LEMMA Stays ==
    ASSUME NEW f \in Progress, NEW p \in Procs, f[p] \in Running
    PROVE  Moves(f, p, f, f[p].at, f[p].cmd, f[p].tab, f[p].base, f[p].file)
BY FieldsOf DEF Moves

LEMMA MoveAt ==
    ASSUME NEW h, NEW p \in Procs, NEW f, NEW at, NEW cmd, NEW tab, NEW base, NEW file,
           Moves(h, p, f, at, cmd, tab, base, file), NEW x \in Places
    PROVE  Moves(h, p, [f EXCEPT ![p].at = x], x, cmd, tab, base, file)
<1> DEFINE g == [f EXCEPT ![p].at = x]
<1>1. f \in Progress /\ f[p] \in Running /\ f[p].at = at
  BY DEF Moves, Fields
<1>2. Fields([f[p] EXCEPT !.at = x], x, cmd, tab, base, file)
  BY <1>1 DEF Moves, Fields, Running, Places, Tables
<1>3. g = [f EXCEPT ![p] = [f[p] EXCEPT !.at = x]]
  BY <1>1 DEF Progress
<1> DEFINE r == [f[p] EXCEPT !.at = x]
<1>4. r \in Running
  BY <1>2 DEF Fields
<1> HIDE DEF r
<1>5. g \in Progress /\ g[p] = r /\ \A q \in Procs : q # p => g[q] = f[q]
  BY <1>1, <1>3, <1>4 DEF r, Progress
<1> HIDE DEF g
<1>6. Fields(g[p], x, cmd, tab, base, file)
  BY <1>2, <1>5 DEF r
<1>7. Moves(h, p, g, x, cmd, tab, base, file)
  BY <1>5, <1>6 DEF Moves
<1> QED BY <1>7 DEF g

LEMMA MoveTab ==
    ASSUME NEW h, NEW p \in Procs, NEW f, NEW at, NEW cmd, NEW tab, NEW base, NEW file,
           Moves(h, p, f, at, cmd, tab, base, file), NEW x \in Tables
    PROVE  Moves(h, p, [f EXCEPT ![p].tab = x], at, cmd, x, base, file)
<1> DEFINE g == [f EXCEPT ![p].tab = x]
<1>1. f \in Progress /\ f[p] \in Running /\ f[p].at = at
  BY DEF Moves, Fields
<1>2. Fields([f[p] EXCEPT !.tab = x], at, cmd, x, base, file)
  BY <1>1 DEF Moves, Fields, Running, Places, Tables
<1>3. g = [f EXCEPT ![p] = [f[p] EXCEPT !.tab = x]]
  BY <1>1 DEF Progress
<1> DEFINE r == [f[p] EXCEPT !.tab = x]
<1>4. r \in Running
  BY <1>2 DEF Fields
<1> HIDE DEF r
<1>5. g \in Progress /\ g[p] = r /\ \A q \in Procs : q # p => g[q] = f[q]
  BY <1>1, <1>3, <1>4 DEF r, Progress
<1> HIDE DEF g
<1>6. Fields(g[p], at, cmd, x, base, file)
  BY <1>2, <1>5 DEF r
<1>7. Moves(h, p, g, at, cmd, x, base, file)
  BY <1>5, <1>6 DEF Moves
<1> QED BY <1>7 DEF g

LEMMA MoveBase ==
    ASSUME NEW h, NEW p \in Procs, NEW f, NEW at, NEW cmd, NEW tab, NEW base, NEW file,
           Moves(h, p, f, at, cmd, tab, base, file), NEW x \in Images \cup {None, Empty, Blank}
    PROVE  Moves(h, p, [f EXCEPT ![p].base = x], at, cmd, tab, x, file)
<1> DEFINE g == [f EXCEPT ![p].base = x]
<1>1. f \in Progress /\ f[p] \in Running /\ f[p].at = at
  BY DEF Moves, Fields
<1>2. Fields([f[p] EXCEPT !.base = x], at, cmd, tab, x, file)
  BY <1>1 DEF Moves, Fields, Running, Places, Tables
<1>3. g = [f EXCEPT ![p] = [f[p] EXCEPT !.base = x]]
  BY <1>1 DEF Progress
<1> DEFINE r == [f[p] EXCEPT !.base = x]
<1>4. r \in Running
  BY <1>2 DEF Fields
<1> HIDE DEF r
<1>5. g \in Progress /\ g[p] = r /\ \A q \in Procs : q # p => g[q] = f[q]
  BY <1>1, <1>3, <1>4 DEF r, Progress
<1> HIDE DEF g
<1>6. Fields(g[p], at, cmd, tab, x, file)
  BY <1>2, <1>5 DEF r
<1>7. Moves(h, p, g, at, cmd, tab, x, file)
  BY <1>5, <1>6 DEF Moves
<1> QED BY <1>7 DEF g

LEMMA MoveFile ==
    ASSUME NEW h, NEW p \in Procs, NEW f, NEW at, NEW cmd, NEW tab, NEW base, NEW file,
           Moves(h, p, f, at, cmd, tab, base, file), NEW x \in BOOLEAN
    PROVE  Moves(h, p, [f EXCEPT ![p].file = x], at, cmd, tab, base, x)
<1> DEFINE g == [f EXCEPT ![p].file = x]
<1>1. f \in Progress /\ f[p] \in Running /\ f[p].at = at
  BY DEF Moves, Fields
<1>2. Fields([f[p] EXCEPT !.file = x], at, cmd, tab, base, x)
  BY <1>1 DEF Moves, Fields, Running, Places, Tables
<1>3. g = [f EXCEPT ![p] = [f[p] EXCEPT !.file = x]]
  BY <1>1 DEF Progress
<1> DEFINE r == [f[p] EXCEPT !.file = x]
<1>4. r \in Running
  BY <1>2 DEF Fields
<1> HIDE DEF r
<1>5. g \in Progress /\ g[p] = r /\ \A q \in Procs : q # p => g[q] = f[q]
  BY <1>1, <1>3, <1>4 DEF r, Progress
<1> HIDE DEF g
<1>6. Fields(g[p], at, cmd, tab, base, x)
  BY <1>2, <1>5 DEF r
<1>7. Moves(h, p, g, at, cmd, tab, base, x)
  BY <1>5, <1>6 DEF Moves
<1> QED BY <1>7 DEF g

-----------------------------------------------------------------------------
(***************************************************************************)
(* What holds with any number of commands at once                          *)
(***************************************************************************)

Parts == Sound \cup {Blank}
Files == Sound \cup {None, Empty, Blank}

\* Where a command has read a partition or a copy of it.
Read == {"create", "copy", "write", "erased", "part"}

\* Where a command has the copy mapped.
Editing == {"edit", "header", "clear", "tuples"}

RunOK(r) ==
    /\ r \in Running /\ Good(r.tab) /\ r.base \in Files
    /\ r.at \in Read => r.base \in Parts

\* What a command knows of the file it has open, if it is still the copy.
Mapped(r, file) ==
    /\ r.at \in Editing /\ r.file => file \in Parts
    /\ r.at = "copy" /\ r.file => file # None

\* Every image anywhere has each name once and no value too long, and a file
\* that is mapped has been written.
Safe ==
    /\ flash \in Parts /\ stg \in Files /\ off \in BOOLEAN /\ pr \in Progress
    /\ \A p \in Procs : pr[p] = Idle \/ RunOK(pr[p])
    /\ \A p \in Procs : Mapped(pr[p], stg)

LEMMA SoundImages ==
    /\ Sound \subseteq Images /\ None \notin Sound /\ Empty \notin Sound /\ Blank \notin Sound
    /\ Parts \subseteq Images \cup {Blank} /\ Files \subseteq Images \cup {None, Empty, Blank}
    /\ Parts \subseteq Files /\ None \notin Parts /\ Empty \notin Parts
BY FileAssumption DEF Sound, Parts, Files

LEMMA IdleMapped == Idle.at = "idle" /\ \A s : Mapped(Idle, s)
BY DEF Idle, Editing, Mapped

LEMMA Runs ==
    ASSUME Safe, NEW p \in Procs, pr[p].at # "idle"
    PROVE  RunOK(pr[p]) /\ pr[p] \in Running
BY IdleMapped DEF Safe, RunOK

LEMMA FieldsOK ==
    ASSUME NEW r, NEW at, NEW cmd, NEW tab, NEW base, NEW file,
           Fields(r, at, cmd, tab, base, file), Good(tab), base \in Files, at \in Read => base \in Parts
    PROVE  RunOK(r)
BY DEF Fields, RunOK

\* p's command goes on or ends, the others do not.
LEMMA SafeStep ==
    ASSUME Safe, NEW p \in Procs, flash' \in Parts, stg' \in Files, off' \in BOOLEAN,
           pr' \in Progress, \A q \in Procs : q # p => pr'[q] = pr[q],
           pr'[p] = Idle \/ RunOK(pr'[p]), Mapped(pr'[p], stg'),
           \A q \in Procs : q # p => Mapped(pr[q], stg')
    PROVE  Safe'
<1>1. \A q \in Procs : pr'[q] = Idle \/ RunOK(pr'[q])
  BY DEF Safe
<1>2. \A q \in Procs : Mapped(pr'[q], stg')
  BY DEF Safe
<1> QED BY <1>1, <1>2 DEF Safe

\* do_set, do_unset.
Edited(tab, e) ==
    CASE e.op = "set"   -> nvram_set(tab, e.n, e.v)
      [] e.op = "unset" -> nvram_unset(tab, e.n)
      [] OTHER          -> tab

\* What a command can be asked to do.
LEMMA EditKinds ==
    ASSUME NEW c \in Commands
    PROVE  \/ c.edit.op = "set" /\ c.edit.n \in Names /\ c.edit.v \in Values
           \/ c.edit.op = "unset" /\ c.edit.n \in Names
           \/ c.edit.op \in {"none", "get"}
<1>1. c.edit \in Edits \cup {NoEdit, Get}
  BY DEF Commands
<1>2. CASE c.edit \in {NoEdit, Get}
  BY <1>2 DEF NoEdit, Get
<1>3. CASE c.edit \in [op : {"unset"}, n : Unsets]
  BY <1>3, EditsAssumption
<1>4. CASE c.edit \in {[op |-> "set", n |-> t[1], v |-> t[2]] : t \in Sets}
  <2>1. PICK t \in Sets : c.edit = [op |-> "set", n |-> t[1], v |-> t[2]]
    BY <1>4
  <2>2. t[1] \in Names /\ t[2] \in Values
    BY EditsAssumption, TupleParts
  <2> QED BY <2>1, <2>2
<1> QED BY <1>1, <1>2, <1>3, <1>4 DEF Edits

LEMMA EditedIs ==
    ASSUME NEW tab, NEW e
    PROVE  /\ e.op = "set" => Edited(tab, e) = nvram_set(tab, e.n, e.v)
           /\ e.op = "unset" => Edited(tab, e) = nvram_unset(tab, e.n)
           /\ e.op \in {"none", "get"} => Edited(tab, e) = tab
BY DEF Edited

LEMMA EditedGood ==
    ASSUME NEW tab, Good(tab), NEW c \in Commands
    PROVE  Good(Edited(tab, c.edit)) /\ Edited(tab, c.edit) \in Tables
<1>1. Good(Edited(tab, c.edit))
  BY EditKinds, EditedIs, SetTable, UnsetTable
<1> QED BY <1>1 DEF Good


\* Where p's command goes, and with what.
LEMMA FindStagingMoves ==
    ASSUME Safe, NEW p \in Procs, nvram_find_staging(p)
    PROVE  /\ RunOK(pr[p]) /\ pr[p].at = "look" /\ UNCHANGED <<flash, stg, off>>
           /\ \E to \in {"fetch", "open"} :
                 /\ to = "fetch" => stg = None
                 /\ Moves(pr, p, pr', to, pr[p].cmd, pr[p].tab, pr[p].base, pr[p].file)
<1> DEFINE r == pr[p]
           to == IF stg = None THEN "fetch" ELSE "open"
           f == [pr EXCEPT ![p].at = to]
<1>1. r.at = "look" /\ UNCHANGED <<flash, stg, off>> /\ pr' = f
  BY DEF nvram_find_staging, go
<1>2. RunOK(r) /\ r \in Running /\ pr \in Progress
  BY <1>1, Runs DEF Safe
<1>3. to \in Places /\ to \in {"fetch", "open"} /\ (to = "fetch" => stg = None)
  BY DEF Places
<1> HIDE DEF to
<1>4. Moves(pr, p, f, to, r.cmd, r.tab, r.base, r.file)
  BY <1>2, <1>3, Stays, MoveAt
<1> HIDE DEF f
<1> QED BY <1>1, <1>2, <1>3, <1>4

LEMMA StagingReadMoves ==
    ASSUME Safe, NEW p \in Procs, staging_read(p)
    PROVE  /\ RunOK(pr[p]) /\ pr[p].at = "fetch" /\ UNCHANGED <<flash, stg, off>>
           /\ Moves(pr, p, pr', "create", pr[p].cmd, pr[p].tab, flash, pr[p].file)
<1> DEFINE r == pr[p]
           f == [pr EXCEPT ![p].at = "create"]
           g == [f EXCEPT ![p].base = flash]
<1>1. r.at = "fetch" /\ UNCHANGED <<flash, stg, off>> /\ pr' = g
  BY DEF staging_read
<1>2. RunOK(r) /\ r \in Running /\ pr \in Progress /\ flash \in Images \cup {None, Empty, Blank}
  BY <1>1, Runs, SoundImages DEF Safe
<1>3. Moves(pr, p, f, "create", r.cmd, r.tab, r.base, r.file)
  BY <1>2, Stays, MoveAt DEF Places
<1> HIDE DEF f
<1>4. Moves(pr, p, g, "create", r.cmd, r.tab, flash, r.file)
  BY <1>2, <1>3, MoveBase
<1> HIDE DEF g
<1> QED BY <1>1, <1>2, <1>4

LEMMA StagingCreateMoves ==
    ASSUME Safe, NEW p \in Procs, staging_create(p)
    PROVE  /\ RunOK(pr[p]) /\ pr[p].at = "create" /\ UNCHANGED <<flash, off>>
           /\ stg' = IF stg = None THEN Empty ELSE stg
           /\ Moves(pr, p, pr', "copy", pr[p].cmd, pr[p].tab, pr[p].base, TRUE)
<1> DEFINE r == pr[p]
           f == [pr EXCEPT ![p].at = "copy"]
           g == [f EXCEPT ![p].file = TRUE]
<1>1. /\ r.at = "create" /\ UNCHANGED <<flash, off>> /\ pr' = g
      /\ stg' = IF stg = None THEN Empty ELSE stg
  BY DEF staging_create
<1>2. RunOK(r) /\ r \in Running /\ pr \in Progress
  BY <1>1, Runs DEF Safe
<1>3. Moves(pr, p, f, "copy", r.cmd, r.tab, r.base, r.file)
  BY <1>2, Stays, MoveAt DEF Places
<1> HIDE DEF f
<1>4. Moves(pr, p, g, "copy", r.cmd, r.tab, r.base, TRUE)
  BY <1>3, MoveFile
<1> HIDE DEF g
<1> QED BY <1>1, <1>2, <1>4

LEMMA StagingWriteMoves ==
    ASSUME Safe, NEW p \in Procs, staging_write(p)
    PROVE  /\ RunOK(pr[p]) /\ pr[p].at = "copy" /\ UNCHANGED <<flash, off>>
           /\ stg' = IF pr[p].file THEN pr[p].base ELSE stg
           /\ Moves(pr, p, pr', "open", pr[p].cmd, pr[p].tab, None, pr[p].file)
<1> DEFINE r == pr[p]
           f == [pr EXCEPT ![p].at = "open"]
           g == [f EXCEPT ![p].base = None]
<1>1. r.at = "copy" /\ UNCHANGED <<flash, off>> /\ pr' = g /\ stg' = IF r.file THEN r.base ELSE stg
  BY DEF staging_write
<1>2. RunOK(r) /\ r \in Running /\ pr \in Progress
  BY <1>1, Runs DEF Safe
<1>3. Moves(pr, p, f, "open", r.cmd, r.tab, r.base, r.file)
  BY <1>2, Stays, MoveAt DEF Places
<1> HIDE DEF f
<1>4. Moves(pr, p, g, "open", r.cmd, r.tab, None, r.file)
  BY <1>3, MoveBase
<1> HIDE DEF g
<1> QED BY <1>1, <1>2, <1>4

LEMMA OpenMoves ==
    ASSUME Safe, NEW p \in Procs, nvram_open(p)
    PROVE  /\ RunOK(pr[p]) /\ pr[p].at = "open" /\ UNCHANGED <<flash, stg, off>>
           /\ \/ end(p)
              \/ /\ stg \in Sound
                 /\ Moves(pr, p, pr', "edit", pr[p].cmd, nvram_rehash(stg), pr[p].base, TRUE)
<1> DEFINE r == pr[p]
           tab == nvram_rehash(stg)
           f == [pr EXCEPT ![p].at = "edit"]
           g == [f EXCEPT ![p].tab = tab]
           h == [g EXCEPT ![p].file = TRUE]
<1>1. /\ r.at = "open" /\ UNCHANGED <<flash, stg, off>>
      /\ end(p) \/ (stg \notin {None, Empty} /\ accepts(stg) /\ pr' = h)
  BY DEF nvram_open
<1>2. RunOK(r) /\ r \in Running /\ pr \in Progress
  BY <1>1, Runs DEF Safe
<1>3. CASE stg \notin {None, Empty} /\ accepts(stg) /\ pr' = h
  <2>1. pr' = h
    BY <1>3
  <2>2. stg \in Sound
    BY <1>3 DEF Safe, Files, accepts
  <2>3. tab \in Tables
    BY <2>2, SoundImages, Rehash DEF Good
  <2> HIDE DEF tab
  <2>4. Moves(pr, p, f, "edit", r.cmd, r.tab, r.base, r.file)
    BY <1>2, Stays, MoveAt DEF Places
  <2> HIDE DEF f
  <2>5. Moves(pr, p, g, "edit", r.cmd, tab, r.base, r.file)
    BY <2>3, <2>4, MoveTab
  <2> HIDE DEF g
  <2>6. Moves(pr, p, h, "edit", r.cmd, tab, r.base, TRUE)
    BY <2>5, MoveFile
  <2> HIDE DEF h
  <2> QED BY <1>1, <1>2, <2>1, <2>2, <2>6 DEF tab
<1>4. CASE end(p)
  BY <1>1, <1>2, <1>4
<1> QED BY <1>1, <1>3, <1>4

LEMMA OpenRdonlyMoves ==
    ASSUME Safe, NEW p \in Procs, nvram_open_rdonly(p)
    PROVE  /\ RunOK(pr[p]) /\ pr[p].at = "look" /\ UNCHANGED <<flash, stg, off>>
           /\ end(p) \/ Moves(pr, p, pr', "read", pr[p].cmd, pr[p].tab, pr[p].base, pr[p].file)
<1> DEFINE r == pr[p]
           f == [pr EXCEPT ![p].at = "read"]
<1>1. r.at = "look" /\ UNCHANGED <<flash, stg, off>> /\ (end(p) \/ pr' = f)
  BY DEF nvram_open_rdonly, go
<1>2. RunOK(r) /\ r \in Running /\ pr \in Progress
  BY <1>1, Runs DEF Safe
<1>3. Moves(pr, p, f, "read", r.cmd, r.tab, r.base, r.file)
  BY <1>2, Stays, MoveAt DEF Places
<1> HIDE DEF f
<1> QED BY <1>1, <1>2, <1>3

LEMMA EditMoves ==
    ASSUME Safe, NEW p \in Procs, edit(p)
    PROVE  /\ RunOK(pr[p]) /\ pr[p].at = "edit" /\ UNCHANGED <<flash, stg, off>>
           /\ Good(Edited(pr[p].tab, pr[p].cmd.edit))
           /\ Moves(pr, p, pr', "header", pr[p].cmd, Edited(pr[p].tab, pr[p].cmd.edit),
                    pr[p].base, pr[p].file)
<1> DEFINE r == pr[p]
           tab == Edited(r.tab, r.cmd.edit)
           f == [pr EXCEPT ![p].at = "header"]
           g == [f EXCEPT ![p].tab = tab]
<1>1. r.at = "edit" /\ UNCHANGED <<flash, stg, off>> /\ pr' = g
  BY DEF edit, Edited
<1>2. RunOK(r) /\ r \in Running /\ pr \in Progress
  BY <1>1, Runs DEF Safe
<1>3. r.cmd \in Commands /\ Good(r.tab)
  BY <1>2, FieldsOf DEF RunOK
<1>4. Good(tab) /\ tab \in Tables
  BY <1>3, EditedGood
<1> HIDE DEF tab
<1>5. Moves(pr, p, f, "header", r.cmd, r.tab, r.base, r.file)
  BY <1>2, Stays, MoveAt DEF Places
<1> HIDE DEF f
<1>6. Moves(pr, p, g, "header", r.cmd, tab, r.base, r.file)
  BY <1>4, <1>5, MoveTab
<1> HIDE DEF g
<1> QED BY <1>1, <1>2, <1>4, <1>6 DEF tab

LEMMA HeaderMoves ==
    ASSUME Safe, NEW p \in Procs, commit_header(p)
    PROVE  /\ RunOK(pr[p]) /\ pr[p].at = "header" /\ UNCHANGED <<flash, off>>
           /\ pr[p].file => stg \in Parts /\ stg' \in Sound /\ stg'.hdr = header(pr[p].tab)
           /\ ~pr[p].file => stg' = stg
           /\ Moves(pr, p, pr', "clear", pr[p].cmd, pr[p].tab, stg, pr[p].file)
<1> DEFINE r == pr[p]
           f == [pr EXCEPT ![p].at = "clear"]
           g == [f EXCEPT ![p].base = stg]
           new == [hdr |-> header(r.tab), data |-> <<>>, len |-> Part, nul |-> FALSE]
           same == [stg EXCEPT !.hdr = header(r.tab)]
<1>1. /\ r.at = "header" /\ UNCHANGED <<flash, off>> /\ pr' = g
      /\ stg' = IF ~r.file THEN stg ELSE IF stg = Blank THEN new ELSE same
  BY DEF commit_header
<1>2. RunOK(r) /\ r \in Running /\ pr \in Progress /\ Mapped(r, stg) /\ Good(r.tab)
  BY <1>1, Runs DEF Safe, RunOK
<1>3. Moves(pr, p, f, "clear", r.cmd, r.tab, r.base, r.file)
  BY <1>2, Stays, MoveAt DEF Places
<1> HIDE DEF f
<1>4. stg \in Images \cup {None, Empty, Blank}
  BY SoundImages DEF Safe
<1>5. Moves(pr, p, g, "clear", r.cmd, r.tab, stg, r.file)
  BY <1>3, <1>4, MoveBase
<1> HIDE DEF g
<1>6. ASSUME r.file PROVE stg \in Parts
  BY <1>6, <1>1, <1>2 DEF Mapped, Editing
<1>7. ASSUME r.file PROVE stg' \in Sound /\ stg'.hdr = header(r.tab)
  <2>1. new \in Sound /\ new.hdr = header(r.tab)
    BY <1>2, FreshSound, Zenon
  <2>2. stg # Blank => same \in Sound /\ same.hdr = header(r.tab)
    <3> SUFFICES ASSUME stg # Blank PROVE same \in Sound /\ same.hdr = header(r.tab)
      OBVIOUS
    <3>1. stg \in Sound
      BY <1>6, <1>7 DEF Parts
    <3> QED BY <1>2, <3>1, HeaderSound, Zenon
  <2> HIDE DEF new, same
  <2> QED BY <1>1, <1>7, <2>1, <2>2
<1> QED BY <1>1, <1>2, <1>5, <1>6, <1>7

LEMMA ClearMoves ==
    ASSUME Safe, NEW p \in Procs, commit_clear(p)
    PROVE  /\ RunOK(pr[p]) /\ pr[p].at = "clear" /\ UNCHANGED <<flash, off>>
           /\ pr[p].file => stg \in Parts /\ stg' \in Parts
           /\ pr[p].file /\ stg \in Sound => stg' \in Sound /\ stg'.hdr = stg.hdr
           /\ ~pr[p].file => stg' = stg
           /\ Moves(pr, p, pr', "tuples", pr[p].cmd, pr[p].tab, pr[p].base, pr[p].file)
<1> DEFINE r == pr[p]
           f == [pr EXCEPT ![p].at = "tuples"]
           new == [stg EXCEPT !.data = <<>>, !.nul = FALSE]
<1>1. /\ r.at = "clear" /\ UNCHANGED <<flash, off>> /\ pr' = f
      /\ stg' = IF ~r.file \/ stg = Blank THEN stg ELSE new
  BY DEF commit_clear, go
<1>2. RunOK(r) /\ r \in Running /\ pr \in Progress /\ Mapped(r, stg)
  BY <1>1, Runs DEF Safe, RunOK
<1>3. Moves(pr, p, f, "tuples", r.cmd, r.tab, r.base, r.file)
  BY <1>2, Stays, MoveAt DEF Places
<1> HIDE DEF f
<1>4. ASSUME r.file PROVE stg \in Parts
  BY <1>4, <1>1, <1>2 DEF Mapped, Editing
<1>5. stg \in Sound => new \in Sound /\ new.hdr = stg.hdr
  BY ClearedSound, Zenon
<1> HIDE DEF new
<1>6. stg \in Sound => stg # Blank
  BY SoundImages
<1> QED BY <1>1, <1>2, <1>3, <1>4, <1>5, <1>6 DEF Parts

LEMMA TuplesMoves ==
    ASSUME Safe, NEW p \in Procs, commit_tuples(p)
    PROVE  /\ RunOK(pr[p]) /\ pr[p].at = "tuples" /\ UNCHANGED <<flash, off>>
           /\ pr[p].file => stg \in Parts /\ stg' \in Parts
           /\ (pr[p].file /\ stg \in Sound /\ stg.hdr = header(pr[p].tab)) => stg' = Image(pr[p].tab)
           /\ ~pr[p].file => stg' = stg
           /\ \/ end(p) /\ ~pr[p].cmd.commit
              \/ Moves(pr, p, pr', "read", pr[p].cmd, NoTable, None, pr[p].file)
<1> DEFINE r == pr[p]
           data == write_tuples(r.tab)
           new == [stg EXCEPT !.data = data, !.len = length(data), !.nul = TRUE]
<1>1. /\ r.at = "tuples" /\ UNCHANGED <<flash, off>>
      /\ stg' = IF ~r.file \/ stg = Blank THEN stg ELSE new
  BY DEF commit_tuples
<1>2. RunOK(r) /\ r \in Running /\ pr \in Progress /\ Mapped(r, stg) /\ Good(r.tab)
  BY <1>1, Runs DEF Safe, RunOK
<1>3. r.file => stg \in Parts
  BY <1>1, <1>2 DEF Mapped, Editing
<1>4. stg \in Sound => new \in Sound /\ (stg.hdr = header(r.tab) => new = Image(r.tab))
  BY <1>2, TuplesSound, Zenon
<1> HIDE DEF new
<1>5. stg \in Sound => stg # Blank
  BY SoundImages
<1>6. /\ r.file => stg' \in Parts
      /\ (r.file /\ stg \in Sound /\ stg.hdr = header(r.tab)) => stg' = Image(r.tab)
      /\ ~r.file => stg' = stg
  BY <1>1, <1>3, <1>4, <1>5 DEF Parts
<1>7. CASE r.cmd.commit
  <2> DEFINE f == [pr EXCEPT ![p].at = "read"]
             g == [f EXCEPT ![p].tab = NoTable]
             h == [g EXCEPT ![p].base = None]
  <2>1. pr' = h
    BY <1>7 DEF commit_tuples
  <2>2. NoTable \in Tables
    BY NoTableGood DEF Good
  <2>3. Moves(pr, p, f, "read", r.cmd, r.tab, r.base, r.file)
    BY <1>2, Stays, MoveAt DEF Places
  <2> HIDE DEF f
  <2>4. Moves(pr, p, g, "read", r.cmd, NoTable, r.base, r.file)
    BY <2>2, <2>3, MoveTab
  <2> HIDE DEF g
  <2>5. Moves(pr, p, h, "read", r.cmd, NoTable, None, r.file)
    BY <2>4, MoveBase
  <2> HIDE DEF h
  <2> QED BY <1>1, <1>2, <1>3, <1>6, <2>1, <2>5
<1>8. CASE ~r.cmd.commit
  <2>1. end(p)
    BY <1>8 DEF commit_tuples
  <2> QED BY <1>1, <1>2, <1>3, <1>6, <1>8, <2>1
<1> QED BY <1>7, <1>8

LEMMA ReadMoves ==
    ASSUME Safe, NEW p \in Procs, stage_read(p)
    PROVE  /\ RunOK(pr[p]) /\ pr[p].at = "read" /\ UNCHANGED <<flash, stg, off>>
           /\ \/ end(p)
              \/ /\ stg \in Parts
                 /\ Moves(pr, p, pr', "write", pr[p].cmd, pr[p].tab, stg, pr[p].file)
<1> DEFINE r == pr[p]
<1>1. r.at = "read" /\ UNCHANGED <<flash, stg, off>>
  BY DEF stage_read
<1>2. RunOK(r) /\ r \in Running /\ pr \in Progress
  BY <1>1, Runs DEF Safe
<1>3. CASE stg \in {None, Empty}
  BY <1>1, <1>2, <1>3 DEF stage_read
<1>4. CASE stg \notin {None, Empty}
  <2> DEFINE f == [pr EXCEPT ![p].at = "write"]
             g == [f EXCEPT ![p].base = stg]
  <2>1. pr' = g
    BY <1>4 DEF stage_read
  <2>2. stg \in Parts /\ stg \in Images \cup {None, Empty, Blank}
    BY <1>4, SoundImages DEF Safe, Files, Parts
  <2>3. Moves(pr, p, f, "write", r.cmd, r.tab, r.base, r.file)
    BY <1>2, Stays, MoveAt DEF Places
  <2> HIDE DEF f
  <2>4. Moves(pr, p, g, "write", r.cmd, r.tab, stg, r.file)
    BY <2>2, <2>3, MoveBase
  <2> HIDE DEF g
  <2> QED BY <1>1, <1>2, <2>1, <2>2, <2>4
<1> QED BY <1>3, <1>4

LEMMA EraseMoves ==
    ASSUME Safe, NEW p \in Procs, stage_erase(p)
    PROVE  /\ RunOK(pr[p]) /\ pr[p].at = "write" /\ UNCHANGED <<stg, off>>
           /\ \/ /\ flash' = Blank
                 /\ Moves(pr, p, pr', "erased", pr[p].cmd, pr[p].tab, pr[p].base, pr[p].file)
              \/ /\ "writeFails" \in Env /\ flash' = flash
                 /\ \/ end(p)
                    \/ Moves(pr, p, pr', "unlink", pr[p].cmd, pr[p].tab, pr[p].base, pr[p].file)
<1> DEFINE r == pr[p]
           f == [pr EXCEPT ![p].at = "erased"]
           h == [pr EXCEPT ![p].at = "unlink"]
<1>1. r.at = "write" /\ UNCHANGED <<stg, off>>
  BY DEF stage_erase
<1>2. RunOK(r) /\ r \in Running /\ pr \in Progress
  BY <1>1, Runs DEF Safe
<1>3. \/ flash' = Blank /\ pr' = f
      \/ "writeFails" \in Env /\ (pr' = h \/ end(p)) /\ flash' = flash
  BY DEF stage_erase, go
<1>4. Moves(pr, p, f, "erased", r.cmd, r.tab, r.base, r.file)
  BY <1>2, Stays, MoveAt DEF Places
<1> HIDE DEF f
<1>5. Moves(pr, p, h, "unlink", r.cmd, r.tab, r.base, r.file)
  BY <1>2, Stays, MoveAt DEF Places
<1> HIDE DEF h
<1> QED BY <1>1, <1>2, <1>3, <1>4, <1>5

LEMMA TornPart ==
    ASSUME NEW img \in Parts, NEW x \in torn(img)
    PROVE  x \in Parts
<1>1. CASE img = Blank
  BY <1>1 DEF torn, Parts
<1>2. CASE img \in Sound
  BY <1>2, TornSound DEF Parts
<1> QED BY <1>1, <1>2 DEF Parts

LEMMA PartMoves ==
    ASSUME Safe, NEW p \in Procs, stage_part(p)
    PROVE  /\ RunOK(pr[p]) /\ pr[p].at = "erased" /\ UNCHANGED <<stg, off>>
           /\ flash' \in torn(pr[p].base)
           /\ Moves(pr, p, pr', "part", pr[p].cmd, pr[p].tab, pr[p].base, pr[p].file)
<1> DEFINE r == pr[p]
           f == [pr EXCEPT ![p].at = "part"]
<1>1. r.at = "erased" /\ UNCHANGED <<stg, off>> /\ pr' = f /\ flash' \in torn(r.base)
  BY DEF stage_part, go
<1>2. RunOK(r) /\ r \in Running /\ pr \in Progress
  BY <1>1, Runs DEF Safe
<1>3. Moves(pr, p, f, "part", r.cmd, r.tab, r.base, r.file)
  BY <1>2, Stays, MoveAt DEF Places
<1> HIDE DEF f
<1> QED BY <1>1, <1>2, <1>3

LEMMA WriteMoves ==
    ASSUME Safe, NEW p \in Procs, stage_write(p)
    PROVE  /\ RunOK(pr[p]) /\ pr[p].at = "part" /\ UNCHANGED <<stg, off>> /\ flash' = pr[p].base
           /\ Moves(pr, p, pr', "unlink", pr[p].cmd, pr[p].tab, pr[p].base, pr[p].file)
<1> DEFINE r == pr[p]
           f == [pr EXCEPT ![p].at = "unlink"]
<1>1. r.at = "part" /\ UNCHANGED <<stg, off>> /\ pr' = f /\ flash' = r.base
  BY DEF stage_write, go
<1>2. RunOK(r) /\ r \in Running /\ pr \in Progress
  BY <1>1, Runs DEF Safe
<1>3. Moves(pr, p, f, "unlink", r.cmd, r.tab, r.base, r.file)
  BY <1>2, Stays, MoveAt DEF Places
<1> HIDE DEF f
<1> QED BY <1>1, <1>2, <1>3

\* p's command goes on.
LEMMA SafeMoves ==
    ASSUME Safe, NEW p \in Procs, flash' \in Parts, stg' \in Files, off' \in BOOLEAN,
           NEW at, NEW cmd, NEW tab, NEW base, NEW file,
           Moves(pr, p, pr', at, cmd, tab, base, file),
           Good(tab), base \in Files, at \in Read => base \in Parts,
           at \in Editing /\ file => stg' \in Parts, at = "copy" /\ file => stg' # None,
           \A q \in Procs : q # p => Mapped(pr[q], stg')
    PROVE  Safe'
<1>1. /\ pr' \in Progress /\ \A q \in Procs : q # p => pr'[q] = pr[q]
      /\ Fields(pr'[p], at, cmd, tab, base, file)
  BY DEF Moves
<1>2. RunOK(pr'[p])
  BY <1>1, FieldsOK
<1>3. Mapped(pr'[p], stg')
  BY <1>1 DEF Fields, Mapped
<1> QED BY <1>1, <1>2, <1>3, SafeStep

\* The same where it has nothing mapped and has not read anything.
LEMMA SafeGoes ==
    ASSUME Safe, NEW p \in Procs, flash' \in Parts, stg' \in Files, off' \in BOOLEAN,
           NEW at \in {"look", "fetch", "open", "read", "unlink"}, NEW cmd, NEW tab, NEW base, NEW file,
           Moves(pr, p, pr', at, cmd, tab, base, file), Good(tab), base \in Files,
           \A q \in Procs : q # p => Mapped(pr[q], stg')
    PROVE  Safe'
<1>1. at \notin Read /\ at \notin Editing /\ at # "copy"
  BY DEF Read, Editing
<1> QED BY <1>1, SafeMoves

LEMMA SafeEnds ==
    ASSUME Safe, NEW p \in Procs, end(p), flash' \in Parts, stg' \in Files, off' \in BOOLEAN,
           \A q \in Procs : q # p => Mapped(pr[q], stg')
    PROVE  Safe'
<1>1. pr \in Progress /\ pr' = [pr EXCEPT ![p] = Idle]
  BY DEF Safe, end
<1>2. pr' \in Progress /\ pr'[p] = Idle /\ \A q \in Procs : q # p => pr'[q] = pr[q]
  BY <1>1 DEF Progress
<1> QED BY <1>2, IdleMapped, SafeStep

LEMMA StillMapped ==
    ASSUME Safe, stg' = stg
    PROVE  stg' \in Files /\ \A q \in Procs : Mapped(pr[q], stg')
BY DEF Safe

\* What is written to the copy is a partition.
LEMMA RewriteMapped ==
    ASSUME Safe, stg' \in Parts
    PROVE  stg' \in Files /\ \A q \in Procs : Mapped(pr[q], stg')
BY SoundImages DEF Safe, Mapped

LEMMA MainSafe ==
    ASSUME Safe, NEW p \in Procs, main(p)
    PROVE  Safe'
<1>1. PICK c \in Commands : pr' = [pr EXCEPT ![p] =
            [at |-> "look", cmd |-> c, tab |-> NoTable, base |-> None, file |-> TRUE]]
  BY DEF main
<1> DEFINE r == [at |-> "look", cmd |-> c, tab |-> NoTable, base |-> None, file |-> TRUE]
<1>2. NoTable \in Tables /\ Good(NoTable)
  BY NoTableGood DEF Good
<1>3. Fields(r, "look", c, NoTable, None, TRUE)
  BY <1>2, NewFields DEF Places
<1>4. pr' = [pr EXCEPT ![p] = r] /\ pr \in Progress
  BY <1>1 DEF Safe
<1> HIDE DEF r
<1>5. r \in Running
  BY <1>3 DEF Fields
<1>6. pr' \in Progress /\ pr'[p] = r /\ \A q \in Procs : q # p => pr'[q] = pr[q]
  BY <1>4, <1>5 DEF Progress
<1>7. Moves(pr, p, pr', "look", c, NoTable, None, TRUE)
  BY <1>3, <1>6 DEF Moves
<1>8. UNCHANGED <<flash, stg, off>> /\ flash' \in Parts /\ off' \in BOOLEAN
  BY DEF main, Safe
<1>9. None \in Files
  BY DEF Files
<1> QED BY <1>2, <1>7, <1>8, <1>9, StillMapped, SafeGoes

LEMMA FindStagingSafe ==
    ASSUME Safe, NEW p \in Procs, nvram_find_staging(p)
    PROVE  Safe'
<1> DEFINE r == pr[p]
<1>1. /\ RunOK(r) /\ UNCHANGED <<flash, stg, off>>
      /\ \E to \in {"fetch", "open"} : Moves(pr, p, pr', to, r.cmd, r.tab, r.base, r.file)
  BY FindStagingMoves
<1>2. Good(r.tab) /\ r.base \in Files /\ flash' \in Parts /\ off' \in BOOLEAN
  BY <1>1 DEF RunOK, Safe
<1> QED BY <1>1, <1>2, StillMapped, SafeGoes

LEMMA StagingReadSafe ==
    ASSUME Safe, NEW p \in Procs, staging_read(p)
    PROVE  Safe'
<1> DEFINE r == pr[p]
           at == "create"
<1>1. /\ RunOK(r) /\ UNCHANGED <<flash, stg, off>>
      /\ Moves(pr, p, pr', at, r.cmd, r.tab, flash, r.file)
  BY StagingReadMoves
<1>2. Good(r.tab) /\ flash \in Parts /\ flash \in Files /\ flash' \in Parts /\ off' \in BOOLEAN
  BY <1>1, SoundImages DEF RunOK, Safe
<1>3. at \notin Editing /\ at # "copy"
  BY DEF Editing
<1> HIDE DEF at
<1> QED BY <1>1, <1>2, <1>3, StillMapped, SafeMoves

LEMMA StagingCreateSafe ==
    ASSUME Safe, NEW p \in Procs, staging_create(p)
    PROVE  Safe'
<1> DEFINE r == pr[p]
           at == "copy"
           file == TRUE
<1>1. /\ RunOK(r) /\ r.at = "create" /\ UNCHANGED <<flash, off>>
      /\ stg' = IF stg = None THEN Empty ELSE stg
      /\ Moves(pr, p, pr', at, r.cmd, r.tab, r.base, file)
  BY StagingCreateMoves
<1>2. Good(r.tab) /\ r.base \in Files /\ r.base \in Parts /\ flash' \in Parts /\ off' \in BOOLEAN
  BY <1>1, SoundImages DEF RunOK, Safe, Read
<1>3. at \notin Editing /\ at = "copy"
  BY DEF Editing
<1> HIDE DEF at, file
<1>4. stg' # None /\ stg' \in Files
  BY <1>1, FileAssumption DEF Safe, Files
<1>5. \A q \in Procs : Mapped(pr[q], stg')
  <2>1. CASE stg = None
    BY <1>4, <2>1, SoundImages DEF Safe, Mapped
  <2>2. CASE stg # None
    BY <1>1, <2>2 DEF Safe
  <2> QED BY <2>1, <2>2
<1> QED BY <1>1, <1>2, <1>3, <1>4, <1>5, SafeMoves

LEMMA StagingWriteSafe ==
    ASSUME Safe, NEW p \in Procs, staging_write(p)
    PROVE  Safe'
<1> DEFINE r == pr[p]
<1>1. /\ RunOK(r) /\ r.at = "copy" /\ UNCHANGED <<flash, off>>
      /\ stg' = IF r.file THEN r.base ELSE stg
      /\ Moves(pr, p, pr', "open", r.cmd, r.tab, None, r.file)
  BY StagingWriteMoves
<1>2. Good(r.tab) /\ None \in Files /\ flash' \in Parts /\ off' \in BOOLEAN /\ r.base \in Parts
  BY <1>1 DEF RunOK, Files, Safe, Read
<1>3. stg' \in Files /\ \A q \in Procs : Mapped(pr[q], stg')
  BY <1>1, <1>2, StillMapped, RewriteMapped
<1> QED BY <1>1, <1>2, <1>3, SafeGoes

LEMMA OpenSafe ==
    ASSUME Safe, NEW p \in Procs, nvram_open(p)
    PROVE  Safe'
<1> DEFINE r == pr[p]
<1>1. /\ RunOK(r) /\ UNCHANGED <<flash, stg, off>>
      /\ end(p) \/ (stg \in Sound /\ Moves(pr, p, pr', "edit", r.cmd, nvram_rehash(stg), r.base, TRUE))
  BY OpenMoves
<1>2. r.base \in Files /\ flash' \in Parts /\ off' \in BOOLEAN
  BY <1>1 DEF RunOK, Safe
<1>3. stg \in Sound => Good(nvram_rehash(stg))
  BY SoundImages, Rehash
<1>4. stg' \in Files /\ \A q \in Procs : Mapped(pr[q], stg')
  BY <1>1, StillMapped
<1>5. CASE end(p)
  BY <1>2, <1>4, <1>5, SafeEnds
<1>6. CASE stg \in Sound /\ Moves(pr, p, pr', "edit", r.cmd, nvram_rehash(stg), r.base, TRUE)
  <2> DEFINE tab == nvram_rehash(stg)
             file == TRUE
             at == "edit"
  <2>1. /\ Good(tab) /\ Moves(pr, p, pr', at, r.cmd, tab, r.base, file) /\ stg' \in Parts
        /\ at \notin Read /\ at # "copy"
    BY <1>1, <1>3, <1>6 DEF Parts, Read
  <2> HIDE DEF tab, file, at
  <2> QED BY <1>2, <1>4, <2>1, SafeMoves
<1> QED BY <1>1, <1>5, <1>6

LEMMA OpenRdonlySafe ==
    ASSUME Safe, NEW p \in Procs, nvram_open_rdonly(p)
    PROVE  Safe'
<1> DEFINE r == pr[p]
<1>1. /\ RunOK(r) /\ UNCHANGED <<flash, stg, off>>
      /\ end(p) \/ Moves(pr, p, pr', "read", r.cmd, r.tab, r.base, r.file)
  BY OpenRdonlyMoves
<1>2. Good(r.tab) /\ r.base \in Files /\ flash' \in Parts /\ off' \in BOOLEAN
  BY <1>1 DEF RunOK, Safe
<1> QED BY <1>1, <1>2, StillMapped, SafeGoes, SafeEnds

LEMMA EditSafe ==
    ASSUME Safe, NEW p \in Procs, edit(p)
    PROVE  Safe'
<1> DEFINE r == pr[p]
           tab == Edited(r.tab, r.cmd.edit)
           at == "header"
<1>1. /\ RunOK(r) /\ r.at = "edit" /\ UNCHANGED <<flash, stg, off>>
      /\ Good(tab) /\ Moves(pr, p, pr', at, r.cmd, tab, r.base, r.file)
  BY EditMoves
<1>2. at \notin Read /\ at # "copy"
  BY DEF Read
<1> HIDE DEF tab, at
<1>3. r.base \in Files /\ flash' \in Parts /\ off' \in BOOLEAN
  BY <1>1 DEF RunOK, Safe
<1>4. r.file => stg' \in Parts
  BY <1>1 DEF Safe, Mapped, Editing
<1> QED BY <1>1, <1>2, <1>3, <1>4, StillMapped, SafeMoves

LEMMA HeaderSafe ==
    ASSUME Safe, NEW p \in Procs, commit_header(p)
    PROVE  Safe'
<1> DEFINE r == pr[p]
           at == "clear"
<1>1. /\ RunOK(r) /\ UNCHANGED <<flash, off>>
      /\ r.file => stg' \in Parts
      /\ ~r.file => stg' = stg
      /\ Moves(pr, p, pr', at, r.cmd, r.tab, stg, r.file)
  BY HeaderMoves DEF Parts
<1>2. Good(r.tab) /\ flash' \in Parts /\ off' \in BOOLEAN /\ stg \in Files
  BY <1>1 DEF RunOK, Safe
<1>3. stg' \in Files /\ \A q \in Procs : Mapped(pr[q], stg')
  BY <1>1, StillMapped, RewriteMapped
<1>4. at \notin Read /\ at # "copy"
  BY DEF Read
<1> HIDE DEF at
<1> QED BY <1>1, <1>2, <1>3, <1>4, SafeMoves

LEMMA ClearSafe ==
    ASSUME Safe, NEW p \in Procs, commit_clear(p)
    PROVE  Safe'
<1> DEFINE r == pr[p]
           at == "tuples"
<1>1. /\ RunOK(r) /\ UNCHANGED <<flash, off>>
      /\ r.file => stg' \in Parts
      /\ ~r.file => stg' = stg
      /\ Moves(pr, p, pr', at, r.cmd, r.tab, r.base, r.file)
  BY ClearMoves
<1>2. Good(r.tab) /\ r.base \in Files /\ flash' \in Parts /\ off' \in BOOLEAN
  BY <1>1 DEF RunOK, Safe
<1>3. stg' \in Files /\ \A q \in Procs : Mapped(pr[q], stg')
  BY <1>1, StillMapped, RewriteMapped
<1>4. at \notin Read /\ at # "copy"
  BY DEF Read
<1> HIDE DEF at
<1> QED BY <1>1, <1>2, <1>3, <1>4, SafeMoves

LEMMA TuplesSafe ==
    ASSUME Safe, NEW p \in Procs, commit_tuples(p)
    PROVE  Safe'
<1> DEFINE r == pr[p]
<1>1. /\ RunOK(r) /\ UNCHANGED <<flash, off>>
      /\ r.file => stg' \in Parts
      /\ ~r.file => stg' = stg
      /\ end(p) \/ Moves(pr, p, pr', "read", r.cmd, NoTable, None, r.file)
  BY TuplesMoves
<1>2. Good(NoTable) /\ flash' \in Parts /\ off' \in BOOLEAN /\ None \in Files
  BY <1>1, NoTableGood DEF RunOK, Safe, Files
<1>3. stg' \in Files /\ \A q \in Procs : Mapped(pr[q], stg')
  BY <1>1, StillMapped, RewriteMapped
<1>4. CASE end(p)
  BY <1>2, <1>3, <1>4, SafeEnds
<1>5. CASE Moves(pr, p, pr', "read", r.cmd, NoTable, None, r.file)
  BY <1>2, <1>3, <1>5, SafeGoes
<1> QED BY <1>1, <1>4, <1>5

LEMMA ReadSafe ==
    ASSUME Safe, NEW p \in Procs, stage_read(p)
    PROVE  Safe'
<1> DEFINE r == pr[p]
           at == "write"
<1>1. /\ RunOK(r) /\ UNCHANGED <<flash, stg, off>>
      /\ end(p) \/ (stg \in Parts /\ Moves(pr, p, pr', at, r.cmd, r.tab, stg, r.file))
  BY ReadMoves
<1>2. Good(r.tab) /\ flash' \in Parts /\ off' \in BOOLEAN /\ stg \in Files
  BY <1>1 DEF RunOK, Safe
<1>3. stg' \in Files /\ \A q \in Procs : Mapped(pr[q], stg')
  BY <1>1, StillMapped
<1>4. CASE end(p)
  BY <1>2, <1>3, <1>4, SafeEnds
<1>5. at \notin Editing /\ at # "copy"
  BY DEF Editing
<1> HIDE DEF at
<1>6. CASE stg \in Parts /\ Moves(pr, p, pr', at, r.cmd, r.tab, stg, r.file)
  BY <1>2, <1>3, <1>5, <1>6, SafeMoves
<1> QED BY <1>1, <1>4, <1>6

LEMMA EraseSafe ==
    ASSUME Safe, NEW p \in Procs, stage_erase(p)
    PROVE  Safe'
<1> DEFINE r == pr[p]
           at == "erased"
<1>1. /\ RunOK(r) /\ r.at = "write" /\ UNCHANGED <<stg, off>>
      /\ flash' = Blank \/ flash' = flash
      /\ \/ Moves(pr, p, pr', at, r.cmd, r.tab, r.base, r.file)
         \/ Moves(pr, p, pr', "unlink", r.cmd, r.tab, r.base, r.file)
         \/ end(p)
  BY EraseMoves
<1>2. Good(r.tab) /\ r.base \in Files /\ r.base \in Parts /\ flash' \in Parts /\ off' \in BOOLEAN
  BY <1>1 DEF RunOK, Safe, Parts, Read
<1>3. stg' \in Files /\ \A q \in Procs : Mapped(pr[q], stg')
  BY <1>1, StillMapped
<1>4. at \notin Editing /\ at # "copy"
  BY DEF Editing
<1> HIDE DEF at
<1>5. CASE Moves(pr, p, pr', at, r.cmd, r.tab, r.base, r.file)
  BY <1>2, <1>3, <1>4, <1>5, SafeMoves
<1>6. CASE Moves(pr, p, pr', "unlink", r.cmd, r.tab, r.base, r.file)
  BY <1>2, <1>3, <1>6, SafeGoes
<1>7. CASE end(p)
  BY <1>2, <1>3, <1>7, SafeEnds
<1> QED BY <1>1, <1>5, <1>6, <1>7

LEMMA PartSafe ==
    ASSUME Safe, NEW p \in Procs, stage_part(p)
    PROVE  Safe'
<1> DEFINE r == pr[p]
           at == "part"
<1>1. /\ RunOK(r) /\ r.at = "erased" /\ UNCHANGED <<stg, off>> /\ flash' \in torn(r.base)
      /\ Moves(pr, p, pr', at, r.cmd, r.tab, r.base, r.file)
  BY PartMoves
<1>2. Good(r.tab) /\ r.base \in Files /\ r.base \in Parts /\ off' \in BOOLEAN
  BY <1>1 DEF RunOK, Safe, Read
<1>3. flash' \in Parts
  BY <1>1, <1>2, TornPart
<1>4. at \notin Editing /\ at # "copy"
  BY DEF Editing
<1> HIDE DEF at
<1> QED BY <1>1, <1>2, <1>3, <1>4, StillMapped, SafeMoves

LEMMA WriteSafe ==
    ASSUME Safe, NEW p \in Procs, stage_write(p)
    PROVE  Safe'
<1> DEFINE r == pr[p]
<1>1. /\ RunOK(r) /\ r.at = "part" /\ UNCHANGED <<stg, off>> /\ flash' = r.base
      /\ Moves(pr, p, pr', "unlink", r.cmd, r.tab, r.base, r.file)
  BY WriteMoves
<1>2. Good(r.tab) /\ r.base \in Files /\ flash' \in Parts /\ off' \in BOOLEAN
  BY <1>1 DEF RunOK, Safe, Read
<1> QED BY <1>1, <1>2, StillMapped, SafeGoes

LEMMA UnlinkSafe ==
    ASSUME Safe, NEW p \in Procs, stage_unlink(p)
    PROVE  Safe'
<1>1. stg' = None /\ UNCHANGED <<flash, off>> /\ stg' \in Files
  BY DEF stage_unlink, Files
<1>2. ASSUME NEW q \in Procs
      PROVE  /\ pr'[q] \in Running \cup {Idle} /\ (pr'[q] = Idle \/ RunOK(pr'[q]))
             /\ Mapped(pr'[q], stg')
  <2>0. pr'[q] = IF q = p \/ pr[q] = Idle THEN Idle ELSE [pr[q] EXCEPT !.file = FALSE]
    BY DEF stage_unlink
  <2>1. CASE q = p \/ pr[q] = Idle
    <3>1. pr'[q] = Idle
      BY <2>0, <2>1
    <3> QED BY <3>1, IdleMapped
  <2>2. CASE ~(q = p \/ pr[q] = Idle)
    <3> DEFINE r == pr[q]
               u == [r EXCEPT !.file = FALSE]
    <3>1. RunOK(r) /\ r \in Running
      BY <2>2 DEF Safe, RunOK
    <3>2. Fields(u, r.at, r.cmd, r.tab, r.base, FALSE)
      BY <3>1, FieldsOf DEF Fields, Running
    <3>3. pr'[q] = u
      BY <2>0, <2>2
    <3> HIDE DEF u
    <3>4. RunOK(u) /\ u \in Running /\ u.file = FALSE
      BY <3>1, <3>2, FieldsOK DEF RunOK, Fields
    <3>5. Mapped(u, stg')
      BY <3>4 DEF Mapped
    <3> QED BY <3>3, <3>4, <3>5
  <2> QED BY <2>1, <2>2
<1>3. pr' \in Progress
  <2>1. pr' = [q \in Procs |-> pr'[q]]
    BY DEF stage_unlink
  <2> QED BY <2>1, <1>2 DEF Progress
<1> QED BY <1>1, <1>2, <1>3 DEF Safe

LEMMA PowerSafe ==
    ASSUME Safe, power_loss \/ boot
    PROVE  Safe'
<1>1. CASE boot
  BY <1>1 DEF boot, Safe
<1>2. CASE power_loss
  <2>1. flash' = flash /\ stg' = None /\ off' = TRUE /\ pr' = [p \in Procs |-> Idle]
    BY <1>2 DEF power_loss
  <2>2. pr' \in Progress /\ \A p \in Procs : pr'[p] = Idle
    BY <2>1 DEF Progress
  <2>3. stg' \in Files /\ flash' \in Parts
    BY <2>1 DEF Safe, Files
  <2> QED BY <2>1, <2>2, <2>3, IdleMapped DEF Safe
<1> QED BY <1>1, <1>2

LEMMA SafeStays ==
    ASSUME Safe, [Next]_vars
    PROVE  Safe'
<1>1. CASE UNCHANGED vars
  BY <1>1 DEF Safe, vars
<1>2. CASE power_loss \/ boot
  BY <1>2, PowerSafe
<1>3. ASSUME NEW p \in Procs, main(p) \/ step(p) PROVE Safe'
  BY <1>3, MainSafe, FindStagingSafe, StagingReadSafe, StagingCreateSafe, StagingWriteSafe, OpenSafe,
     OpenRdonlySafe, EditSafe, HeaderSafe, ClearSafe, TuplesSafe, ReadSafe, EraseSafe, PartSafe,
     WriteSafe, UnlinkSafe DEF step
<1> QED BY <1>1, <1>2, <1>3 DEF Next

LEMMA InitSafe ==
    ASSUME Init
    PROVE  Safe /\ flash \in Sound /\ Agrees(flash) /\ stg = None /\ \A p \in Procs : pr[p] = Idle
<1>1. flash \in Sound /\ Agrees(flash)
  BY FirstAssumption, ReadTuples, ImageSound DEF Init
<1>2. pr \in Progress /\ \A p \in Procs : pr[p] = Idle
  BY DEF Init, Progress
<1>3. stg = None /\ off = FALSE
  BY DEF Init
<1> QED BY <1>1, <1>2, <1>3, IdleMapped DEF Safe, Files, Parts

LEMMA AlwaysSafe == Spec => []Safe
<1>1. Init => Safe
  BY InitSafe
<1>2. Safe /\ [Next]_vars => Safe'
  BY SafeStays
<1> QED BY <1>1, <1>2, PTL DEF Spec

\* The partition, the copy and the commands always have their types: the tuples
\* never outgrow the partition, and a command that writes the copy finds it
\* there, with any number of commands at once and wherever power is lost
\* (nvram_open, nvram_commit, nvram_to_staging, staging_to_nvram).
THEOREM Typed == Spec => []TypeOK
<1>1. Safe => TypeOK
  BY SoundImages DEF Safe, TypeOK, Progress
<1> QED BY <1>1, AlwaysSafe, PTL

-----------------------------------------------------------------------------
(***************************************************************************)
(* Variables and the room for them                                         *)
(***************************************************************************)

LEMMA SetAsSeq ==
    ASSUME NEW G, IsFiniteSet(G), G \subseteq Tuples
    PROVE  SetToSeq(G) \in Seq(Tuples) /\ ToSet(SetToSeq(G)) = G /\ Differ(SetToSeq(G))
<1> DEFINE n == Cardinality(G)
           s == SetToSeq(G)
<1>1. n \in Nat /\ ExistsBijection(1..n, G)
  BY FS_CardinalityType
<1>2. PICK f \in [1..n -> G] : IsInjective(f)
  BY <1>1 DEF ExistsBijection, Bijection, Injection, IsInjective
<1>3. s \in [1..n -> G] /\ IsInjective(s)
  BY <1>2 DEF SetToSeq
<1> HIDE DEF s
<1>4. s \in Injection(1..n, G)
  BY <1>3 DEF Injection, IsInjective
<1>5. Cardinality(1..n) = n
  BY <1>1, FS_Interval
<1>6. s \in Surjection(1..n, G)
  BY <1>4, <1>5, FS_Injection
<1>7. \A x \in G : \E k \in 1..n : s[k] = x
  BY <1>6 DEF Surjection
<1>8. s \in Seq(Tuples) /\ Len(s) = n
  BY <1>1, <1>3
<1>9. ToSet(s) = G
  BY <1>3, <1>7, <1>8, InSeq
<1>10. Differ(s)
  BY <1>3, <1>8 DEF IsInjective, Differ
<1> QED BY <1>8, <1>9, <1>10 DEF s

LEMMA SubsetFits ==
    ASSUME NEW G, IsFiniteSet(G), G \subseteq Tuples, size(SetToSeq(G)) <= room,
           NEW s \in Seq(Tuples), Differ(s), ToSet(s) \subseteq G
    PROVE  size(s) <= room
<1> DEFINE t == SetToSeq(G)
<1>1. t \in Seq(Tuples) /\ ToSet(t) = G /\ size(t) <= room
  BY SetAsSeq
<1> HIDE DEF t
<1>2. ASSUME NEW j \in 1..Len(s) PROVE \E k \in 1..Len(t) : s[j] = t[k]
  <2>1. s[j] \in ToSet(t)
    BY <1>1, InSeq
  <2> QED BY <2>1, <1>1, InSeq
<1>3. size(s) <= size(t)
  BY <1>1, <1>2, SizeWithin
<1> QED BY <1>1, <1>3, SizeNat, RoomNat

LEMMA FitsRoomy ==
    ASSUME NEW tab, NEW G, IsFiniteSet(G), G \subseteq Tuples, size(SetToSeq(G)) <= room,
           Held(tab) \subseteq G
    PROVE  Roomy(tab)
<1>1. ASSUME NEW s \in Seq(Tuples), Differ(s), ToSet(s) \subseteq Held(tab) PROVE size(s) <= room
  BY <1>1, SubsetFits
<1> QED BY <1>1 DEF Roomy

\* A function from names to values that has the special ones.
Full(m) ==
    /\ m \in [DOMAIN m -> Values] /\ DOMAIN m \subseteq Names /\ Special \subseteq DOMAIN m
    /\ IsFiniteSet(DOMAIN m)

LEMMA FiniteImage ==
    ASSUME NEW S, IsFiniteSet(S), NEW T, NEW f \in [S -> T], T = {f[x] : x \in S}
    PROVE  IsFiniteSet(T)
<1>1. f \in Surjection(S, T)
  BY DEF Surjection
<1> QED BY <1>1, FS_Surjection

LEMMA NamedFinite ==
    ASSUME NEW s \in Seq(Tuples)
    PROVE  IsFiniteSet(Named(s))
<1> DEFINE n == Len(s)
           f == [k \in 1..n |-> s[k][1]]
           T == {f[k] : k \in 1..n}
<1>1. n \in Nat
  OBVIOUS
<1>2. IsFiniteSet(1..n)
  BY <1>1, FS_Interval
<1>3. Named(s) = T
  <2>1. \A x : x \in ToSet(s) <=> \E k \in 1..n : s[k] = x
    BY InSeq
  <2> QED BY <2>1 DEF Named
<1>4. f \in [1..n -> T]
  OBVIOUS
<1> HIDE DEF f, n
<1>5. IsFiniteSet(T)
  BY <1>2, <1>4, FiniteImage
<1> QED BY <1>3, <1>5

LEMMA SpecialFinite == IsFiniteSet(Special)
<1> DEFINE n == Len(Specials)
           f == [k \in 1..n |-> Specials[k]]
           T == {f[k] : k \in 1..n}
<1>1. n \in Nat
  BY SpecialNames
<1>2. IsFiniteSet(1..n)
  BY <1>1, FS_Interval
<1>3. Special = T
  BY DEF Special
<1>4. f \in [1..n -> T]
  OBVIOUS
<1> HIDE DEF f, n
<1>5. IsFiniteSet(T)
  BY <1>2, <1>4, FiniteImage
<1> QED BY <1>3, <1>5

LEMMA GraphFinite ==
    ASSUME NEW m, Full(m)
    PROVE  IsFiniteSet(Graph(m)) /\ Graph(m) \subseteq Tuples
<1> DEFINE D == DOMAIN m
           f == [n \in D |-> <<n, m[n]>>]
           T == {f[n] : n \in D}
<1>1. IsFiniteSet(D)
  BY DEF Full
<1>2. Graph(m) = T
  BY DEF Graph
<1>3. f \in [D -> T]
  OBVIOUS
<1> HIDE DEF f, D
<1>4. IsFiniteSet(T)
  BY <1>1, <1>3, FiniteImage
<1>5. \A n \in DOMAIN m : n \in Names /\ m[n] \in Values
  BY DEF Full
<1>6. Graph(m) \subseteq Tuples
  BY <1>5 DEF Graph, Tuples
<1> QED BY <1>2, <1>4, <1>6

LEMMA ViewFull ==
    ASSUME NEW img \in Sound
    PROVE  Full(view(img)) /\ Held(nvram_rehash(img)) = Graph(view(img)) /\ Good(nvram_rehash(img))
<1> DEFINE m == view(img)
<1>1. img \in Images /\ Plain(img.data)
  BY SoundIs
<1>2. DOMAIN m = Named(img.data) \cup Special
  BY <1>1, ViewIs
<1>3. img.data \in Seq(Tuples) /\ Named(img.data) \subseteq Names
  BY <1>1, ImageParts
<1>4. IsFiniteSet(DOMAIN m)
  BY <1>2, <1>3, NamedFinite, SpecialFinite, FS_Union
<1>5. DOMAIN m \subseteq Names /\ Special \subseteq DOMAIN m
  BY <1>2, <1>3, SpecialNames
<1>6. Graph(m) \subseteq Tuples
  BY <1>1, ViewGraph
<1>7. \A n \in DOMAIN m : <<n, m[n]>> \in Graph(m)
  BY DEF Graph
<1>8. \A n \in DOMAIN m : m[n] \in Values
  BY <1>6, <1>7 DEF Tuples
<1>9. m = [n \in DOMAIN m |-> m[n]]
  <2>1. img # Blank
    BY <1>1, FileAssumption
  <2> QED BY <2>1 DEF view
<1>10. Full(m)
  BY <1>4, <1>5, <1>8, <1>9 DEF Full
<1> QED BY <1>1, <1>10, Rehash

LEMMA WithGraph ==
    ASSUME NEW m, Full(m), NEW n \in Names, NEW v \in Values
    PROVE  Full(Contract!With(m, n, v)) /\ Graph(Contract!With(m, n, v)) = Others(Graph(m), n) \cup {<<n, v>>}
<1> DEFINE w == Contract!With(m, n, v)
<1>1. w = [x \in DOMAIN m \cup {n} |-> IF x = n THEN v ELSE m[x]]
  BY DEF Contract!With
<1>2. DOMAIN w = DOMAIN m \cup {n} /\ \A x \in DOMAIN w : w[x] = IF x = n THEN v ELSE m[x]
  BY <1>1
<1>3. w \in [DOMAIN w -> Values]
  BY <1>1 DEF Full
<1> HIDE DEF w
<1>4. Full(w)
  BY <1>2, <1>3, FS_AddElement DEF Full
<1>5. Graph(w) = Others(Graph(m), n) \cup {<<n, v>>}
  BY <1>2 DEF Graph, Others
<1> QED BY <1>4, <1>5 DEF w

LEMMA WithoutGraph ==
    ASSUME NEW m, Full(m), NEW n \in Names \ Special
    PROVE  Full(Contract!Without(m, n)) /\ Graph(Contract!Without(m, n)) = Others(Graph(m), n)
<1> DEFINE w == Contract!Without(m, n)
<1>1. w = [x \in DOMAIN m \ {n} |-> m[x]]
  BY DEF Contract!Without
<1>2. DOMAIN w = DOMAIN m \ {n} /\ \A x \in DOMAIN w : w[x] = m[x]
  BY <1>1
<1>3. w \in [DOMAIN w -> Values]
  BY <1>1 DEF Full
<1> HIDE DEF w
<1>4. Full(w)
  BY <1>2, <1>3, FS_RemoveElement DEF Full
<1>5. Graph(w) = Others(Graph(m), n)
  BY <1>2 DEF Graph, Others
<1> QED BY <1>4, <1>5 DEF w

LEMMA FitsIs ==
    ASSUME NEW m
    PROVE  fits(m) <=> size(SetToSeq(Graph(m))) <= room
BY DEF fits, Graph

LEMMA LessFits ==
    ASSUME NEW m, Full(m), NEW k, Full(k), Graph(k) \subseteq Graph(m), fits(m)
    PROVE  fits(k)
<1> DEFINE s == SetToSeq(Graph(k))
<1>1. IsFiniteSet(Graph(m)) /\ Graph(m) \subseteq Tuples /\ size(SetToSeq(Graph(m))) <= room
  BY GraphFinite, FitsIs
<1>2. s \in Seq(Tuples) /\ ToSet(s) = Graph(k) /\ Differ(s)
  BY GraphFinite, SetAsSeq
<1> HIDE DEF s
<1>3. ToSet(s) \subseteq Graph(m)
  BY <1>2
<1>4. size(s) <= room
  BY <1>1, <1>2, <1>3, SubsetFits
<1> QED BY <1>4, FitsIs DEF s

LEMMA GraphAt ==
    ASSUME NEW m
    PROVE  /\ \A n \in DOMAIN m : <<n, m[n]>> \in Graph(m)
           /\ \A t \in Graph(m) : t[1] \in DOMAIN m /\ t = <<t[1], m[t[1]]>> /\ t[2] = m[t[1]]
BY DEF Graph

LEMMA SameMap ==
    ASSUME NEW f, NEW m, Full(f), Full(m), DOMAIN f = DOMAIN m, \A n \in DOMAIN m : f[n] = m[n]
    PROVE  f = m
BY DEF Full

\* f is what is left of m.
Remains(f, m) == DOMAIN f \subseteq DOMAIN m /\ \A n \in DOMAIN f \ Special : f[n] = m[n]

LEMMA KeptIs ==
    ASSUME NEW f, NEW m, Remains(f, m), fits(m) => f = m
    PROVE  Contract!Kept(f, m)
BY DEF Contract!Kept, Remains

\* The image of a table with the variables of m, where a special one that the
\* table has not is printed from the header.
LEMMA Rewritten ==
    ASSUME NEW tab, Good(tab), NEW m, Full(m), Held(tab) \subseteq Graph(m),
           \A n \in DOMAIN m :
              \/ <<n, m[n]>> \in Held(tab)
              \/ /\ n \in Special /\ m[n] = Print0[header(tab)[n]]
                 /\ \A t \in Held(tab) : t[1] # n
    PROVE  /\ Remains(view(Image(tab)), m) /\ Full(view(Image(tab)))
           /\ fits(m) => view(Image(tab)) = m
<1> DEFINE img == Image(tab)
           f == view(img)
           T == ToSet(img.data)
           N == Named(img.data)
<1>1. img \in Sound /\ img \in Images /\ Plain(img.data) /\ img.hdr = header(tab)
  BY ImageSound, SoundIs, ImageOfTable
<1>2. T \subseteq Held(tab) /\ (Roomy(tab) => T = Held(tab))
  BY ImageOfTable, WriteTuples
<1> HIDE DEF img
<1>3. Full(f)
  BY <1>1, ViewFull
<1>4. DOMAIN f = N \cup Special /\ \A n \in Special \ N : f[n] = Print0[img.hdr[n]]
  BY <1>1, ViewIs
<1>5. \A t \in T : t[1] \in N /\ f[t[1]] = t[2]
  BY <1>1, ViewTuple DEF Named
<1>6. \A n \in N : \E t \in T : t[1] = n
  BY DEF Named
<1> HIDE DEF f, T, N
<1>7. \A t \in T : t[1] \in DOMAIN m /\ f[t[1]] = m[t[1]]
  BY <1>2, <1>5, GraphAt
<1>8. \A n \in N : n \in DOMAIN m /\ f[n] = m[n]
  BY <1>6, <1>7
<1>9. Remains(f, m)
  BY <1>4, <1>8 DEF Remains, Full
<1>10. ASSUME fits(m) PROVE f = m
  <2>1. Roomy(tab)
    BY <1>10, FitsIs, GraphFinite, FitsRoomy
  <2>2. T = Held(tab)
    BY <1>2, <2>1
  <2>3. ASSUME NEW n \in DOMAIN m PROVE n \in DOMAIN f /\ f[n] = m[n]
    <3>1. CASE <<n, m[n]>> \in Held(tab)
      <4>1. n \in N
        BY <2>2, <3>1, <1>5
      <4> QED BY <4>1, <1>4, <1>8
    <3>2. CASE n \in Special /\ m[n] = Print0[header(tab)[n]] /\ \A t \in Held(tab) : t[1] # n
      <4>1. n \notin N
        BY <3>2, <1>2, <1>6
      <4> QED BY <4>1, <3>2, <1>1, <1>4
    <3> QED BY <3>1, <3>2
  <2>4. DOMAIN f = DOMAIN m
    BY <2>3, <1>9 DEF Remains
  <2> QED BY <1>3, <2>3, <2>4, SameMap
<1> QED BY <1>3, <1>9, <1>10 DEF f, img

LEMMA ValueFits ==
    ASSUME NEW m, Full(m), NEW n \in DOMAIN m, fits(m)
    PROVE  Len0[m[n]] < Part
<1> DEFINE t == <<n, m[n]>>
           s == <<t>>
<1>1. t \in Graph(m) /\ t \in Tuples /\ n \in Names /\ m[n] \in Values
  BY GraphAt, GraphFinite DEF Full
<1>2. bytes(t) = Len0[n] + 1 + Len0[m[n]] + 1 /\ Len0[n] \in Nat /\ Len0[m[n]] \in Nat
  BY <1>1, LenAssumption DEF bytes
<1> HIDE DEF t
<1>3. s \in Seq(Tuples) /\ Len(s) = 1 /\ s[1] = t
  BY <1>1
<1> HIDE DEF s
<1>4. Differ(s) /\ ToSet(s) \subseteq Graph(m)
  BY <1>1, <1>3, InSeq DEF Differ
<1>5. size(s) = 0 + bytes(t)
  <2> DEFINE f == [k \in 0..1 |-> IF k = 0 THEN 0 ELSE 0 + bytes(t)]
  <2>1. f[0] = 0 /\ f[1] = 0 + bytes(t)
    OBVIOUS
  <2> HIDE DEF f
  <2>2. \A k \in 1..Len(s) : f[k] = f[k - 1] + bytes(s[k])
    BY <1>3, <2>1
  <2>3. size(s) = f[Len(s)]
    BY <1>3, <2>1, <2>2, SizeIs
  <2> QED BY <1>3, <2>1, <2>3
<1>6. size(s) <= room
  BY <1>3, <1>4, GraphFinite, FitsIs, SubsetFits
<1> QED BY <1>2, <1>5, <1>6, RoomNat

\* A command that rewrites the copy without a change.
LEMMA NoEffect ==
    ASSUME NEW base \in Sound
    PROVE  /\ Remains(view(Image(nvram_rehash(base))), view(base))
           /\ Full(view(Image(nvram_rehash(base))))
           /\ fits(view(base)) => view(Image(nvram_rehash(base))) = view(base)
<1> DEFINE tab == nvram_rehash(base)
           m == view(base)
<1>1. Good(tab) /\ Full(m) /\ Held(tab) = Graph(m)
  BY ViewFull
<1> HIDE DEF tab, m
<1>2. Held(tab) \subseteq Graph(m) /\ \A n \in DOMAIN m : <<n, m[n]>> \in Held(tab)
  BY <1>1, GraphAt
<1>3. Remains(view(Image(tab)), m) /\ Full(view(Image(tab))) /\ (fits(m) => view(Image(tab)) = m)
  BY <1>1, <1>2, Rewritten
<1> QED BY <1>3 DEF tab, m

LEMMA SetEffect ==
    ASSUME NEW base \in Sound, NEW n \in Names, NEW v \in Values, Len0[v] < Part,
           NEW tab, tab = nvram_set(nvram_rehash(base), n, v), NEW m, m = Contract!With(view(base), n, v)
    PROVE  /\ Remains(view(Image(tab)), m) /\ Full(view(Image(tab)))
           /\ fits(m) => view(Image(tab)) = m
<1> DEFINE old == view(base)
           was == nvram_rehash(base)
<1>1. Good(was) /\ Full(old) /\ Held(was) = Graph(old)
  BY ViewFull
<1>2. tab = nvram_set(was, n, v) /\ m = Contract!With(old, n, v)
  OBVIOUS
<1> HIDE DEF old, was
<1>3. Full(m) /\ Graph(m) = Others(Graph(old), n) \cup {<<n, v>>}
  BY <1>1, <1>2, WithGraph
<1>4. Good(tab) /\ Held(tab) = Others(Held(was), n) \cup {<<n, v>>}
  BY <1>1, <1>2, SetTable
<1>5. Held(tab) = Graph(m)
  BY <1>1, <1>3, <1>4
<1>6. Held(tab) \subseteq Graph(m) /\ \A x \in DOMAIN m : <<x, m[x]>> \in Held(tab)
  BY <1>5, GraphAt
<1> QED BY <1>3, <1>4, <1>6, Rewritten

\* A special variable that is unset falls back to its default.
LEMMA UnsetEffect ==
    ASSUME NEW base \in Sound, NEW n \in Names,
           NEW tab, tab = nvram_unset(nvram_rehash(base), n), NEW m,
           m = IF n \in Special THEN Contract!With(view(base), n, Print0[Default[n]])
               ELSE Contract!Without(view(base), n)
    PROVE  /\ Remains(view(Image(tab)), m) /\ Full(view(Image(tab))) /\ Full(m)
           /\ fits(m) => view(Image(tab)) = m
<1> DEFINE old == view(base)
           was == nvram_rehash(base)
           d == Print0[Default[n]]
<1>1. Good(was) /\ Full(old) /\ Held(was) = Graph(old)
  BY ViewFull
<1>2. /\ tab = nvram_unset(was, n)
      /\ m = IF n \in Special THEN Contract!With(old, n, d) ELSE Contract!Without(old, n)
  OBVIOUS
<1>2a. n \in Special => d \in Values
  BY DefaultAssumption, WordAssumption
<1> HIDE DEF old, was
<1>3. Good(tab) /\ Held(tab) = Others(Graph(old), n)
  BY <1>1, <1>2, UnsetTable
<1>4. CASE n \notin Special
  <2>1. Full(m) /\ Graph(m) = Others(Graph(old), n)
    BY <1>1, <1>2, <1>4, WithoutGraph
  <2>2. Held(tab) \subseteq Graph(m) /\ \A x \in DOMAIN m : <<x, m[x]>> \in Held(tab)
    BY <1>3, <2>1, GraphAt
  <2> QED BY <1>3, <2>1, <2>2, Rewritten
<1>5. CASE n \in Special
  <2> HIDE DEF d
  <2>1. m = Contract!With(old, n, d) /\ d \in Values
    BY <1>2, <1>2a, <1>5
  <2>2. Full(m) /\ Graph(m) = Others(Graph(old), n) \cup {<<n, d>>}
    BY <2>1, <1>1, WithGraph
  <2>3. Held(tab) \subseteq Graph(m) /\ \A t \in Held(tab) : t[1] # n
    BY <1>3, <2>2 DEF Others
  <2>4. ~holds(tab, n)
    BY <1>3, <2>3, Found
  <2>5. header(tab) = Default
    BY <1>5, <2>4 DEF header
  <2>6. ASSUME NEW x \in DOMAIN m
        PROVE  \/ <<x, m[x]>> \in Held(tab)
               \/ /\ x \in Special /\ m[x] = Print0[header(tab)[x]]
                  /\ \A t \in Held(tab) : t[1] # x
    <3>1. <<x, m[x]>> \in Others(Graph(old), n) \cup {<<n, d>>}
      BY <2>2, GraphAt
    <3>2. CASE <<x, m[x]>> = <<n, d>>
      <4>1. x = n /\ m[x] = d
        BY <3>2
      <4> QED BY <4>1, <1>5, <2>3, <2>5 DEF d
    <3> QED BY <3>1, <3>2, <1>3
  <2> QED BY <1>3, <2>2, <2>3, <2>6, Rewritten
<1> QED BY <1>4, <1>5

\* What a command may make of the variables m.
Changes(m, f) ==
    \/ f = m
    \/ \E n \in Names : \/ n \notin Special /\ f = Contract!Without(m, n)
                        \/ \E v \in Values : Contract!Kept(f, Contract!With(m, n, v))

LEMMA KeptChanges ==
    ASSUME NEW m, NEW f, Full(m), Full(f), Remains(f, m), fits(m) => f = m
    PROVE  Changes(m, f)
<1>1. CASE DOMAIN m = {}
  <2>1. DOMAIN f = DOMAIN m
    BY <1>1 DEF Remains
  <2>2. f = m
    BY <1>1, <2>1, SameMap
  <2> QED BY <2>2 DEF Changes
<1>2. CASE DOMAIN m # {}
  <2>1. PICK n \in DOMAIN m : TRUE
    BY <1>2
  <2>2. n \in Names /\ m[n] \in Values
    BY DEF Full
  <2> DEFINE w == Contract!With(m, n, m[n])
  <2>3. w = [x \in DOMAIN m \cup {n} |-> IF x = n THEN m[n] ELSE m[x]]
    BY DEF Contract!With
  <2>4. DOMAIN w = DOMAIN m /\ \A x \in DOMAIN m : w[x] = m[x]
    BY <2>3
  <2>5. Full(w)
    BY <2>2, WithGraph
  <2> HIDE DEF w
  <2>6. w = m
    BY <2>4, <2>5, SameMap
  <2>7. Contract!Kept(f, w)
    BY <2>6, KeptIs
  <2> QED BY <2>2, <2>7 DEF Changes, w
<1> QED BY <1>1, <1>2

LEMMA EditEffect ==
    ASSUME NEW base \in Sound, NEW c \in Commands,
           NEW tab, tab = Edited(nvram_rehash(base), c.edit), NEW f, f = view(Image(tab))
    PROVE  /\ Changes(view(base), f)
           /\ c.edit.op = "set" /\ fits(Contract!With(view(base), c.edit.n, c.edit.v))
                => f = Contract!With(view(base), c.edit.n, c.edit.v)
           /\ c.edit.op = "unset" => c.edit.n \notin DOMAIN f \ Special
<1> DEFINE m == view(base)
           was == nvram_rehash(base)
           e == c.edit
<1>1. Full(m) /\ Good(was)
  BY ViewFull
<1>2. Remains(view(Image(was)), m) /\ Full(view(Image(was))) /\ (fits(m) => view(Image(was)) = m)
  BY NoEffect
<1>3. Changes(m, view(Image(was)))
  BY <1>1, <1>2, KeptChanges
<1>4. CASE e.op \in {"none", "get"}
  <2>1. tab = was
    BY <1>4, EditedIs
  <2> QED BY <1>3, <1>4, <2>1
<1>5. CASE e.op = "set" /\ e.n \in Names /\ e.v \in Values
  <2> DEFINE w == Contract!With(m, e.n, e.v)
  <2>1. tab = nvram_set(was, e.n, e.v)
    BY <1>5, EditedIs
  <2>2. Full(w) /\ e.n \in DOMAIN w /\ w[e.n] = e.v
    <3>1. Full(w)
      BY <1>1, <1>5, WithGraph
    <3>2. w = [x \in DOMAIN m \cup {e.n} |-> IF x = e.n THEN e.v ELSE m[x]]
      BY DEF Contract!With
    <3> QED BY <3>1, <3>2
  <2>3. CASE ~(Len0[e.v] < Part)
    <3>1. tab = was
      BY <1>1, <1>5, <2>1, <2>3, SetTable
    <3>2. ~fits(w)
      <4> HIDE DEF w
      <4> QED BY <2>2, <2>3, ValueFits
    <3> QED BY <1>3, <1>5, <3>1, <3>2
  <2>4. CASE Len0[e.v] < Part
    <3>1. Remains(f, w) /\ Full(f) /\ (fits(w) => f = w)
      BY <1>5, <2>1, <2>4, SetEffect
    <3>2. Contract!Kept(f, w)
      BY <3>1, KeptIs
    <3>3. Changes(m, f)
      BY <1>5, <3>2 DEF Changes
    <3> QED BY <1>5, <3>1, <3>3
  <2> QED BY <2>3, <2>4
<1>6. CASE e.op = "unset" /\ e.n \in Names
  <2>1. tab = nvram_unset(was, e.n)
    BY <1>6, EditedIs
  <2>2. CASE e.n \in Special
    <3> DEFINE d == Print0[Default[e.n]]
               w == Contract!With(m, e.n, d)
    <3>1. d \in Values
      BY <2>2, DefaultAssumption, WordAssumption
    <3>2. Remains(f, w) /\ (fits(w) => f = w)
      BY <1>6, <2>1, <2>2, UnsetEffect
    <3> HIDE DEF d
    <3>3. Contract!Kept(f, w)
      BY <3>2, KeptIs
    <3>4. Changes(m, f)
      BY <1>6, <3>1, <3>3 DEF Changes
    <3> QED BY <1>6, <2>2, <3>4
  <2>3. CASE e.n \notin Special
    <3> DEFINE w == Contract!Without(m, e.n)
    <3>1. Remains(f, w) /\ Full(f) /\ Full(w) /\ (fits(w) => f = w)
      BY <1>6, <2>1, <2>3, UnsetEffect
    <3>2. w = [x \in DOMAIN m \ {e.n} |-> m[x]]
      BY DEF Contract!Without
    <3>3. DOMAIN w = DOMAIN m \ {e.n} /\ \A x \in DOMAIN w : w[x] = m[x]
      BY <3>2
    <3>4. Graph(w) \subseteq Graph(m)
      BY <1>1, <1>6, <2>3, WithoutGraph DEF Others
    <3> HIDE DEF w
    <3>5. e.n \notin DOMAIN f
      BY <3>1, <3>3 DEF Remains
    <3>6. Changes(m, f)
      <4>1. CASE fits(w)
        BY <1>6, <2>3, <3>1, <4>1 DEF Changes, w
      <4>2. CASE ~fits(w)
        <5>1. ~fits(m)
          BY <1>1, <3>1, <3>4, <4>2, LessFits
        <5>2. Remains(f, m)
          BY <3>1, <3>3 DEF Remains
        <5> QED BY <1>1, <3>1, <5>1, <5>2, KeptChanges
      <4> QED BY <4>1, <4>2
    <3> QED BY <1>6, <3>5, <3>6
  <2> QED BY <2>2, <2>3
<1> QED BY <1>4, <1>5, <1>6, EditKinds

-----------------------------------------------------------------------------
(***************************************************************************)
(* One command at a time                                                   *)
(***************************************************************************)

\* What a command that has /tmp/.nvram for itself knows of the copy s and the
\* partition f.
Owns(at, cmd, tab, base, s, f) ==
    /\ at \in {"fetch", "create"} => s = None
    /\ at \in {"create", "copy"} => base = f
    /\ at = "copy" => s = Empty
    /\ at = "edit" => s \in Sound /\ tab = nvram_rehash(s)
    /\ at = "header" => s \in Sound /\ tab = Edited(nvram_rehash(s), cmd.edit)
    /\ at \in {"clear", "tuples"} => /\ base \in Sound /\ tab = Edited(nvram_rehash(base), cmd.edit)
                                     /\ s \in Sound /\ s.hdr = header(tab)
    /\ at \in {"write", "erased", "part"} => base = s
    /\ at = "erased" => f = Blank
    /\ at = "part" => f \in torn(base)
    /\ at = "unlink" /\ "writeFails" \notin Env => f = s

Follows(r, s, f) == r.file = TRUE /\ Owns(r.at, r.cmd, r.tab, r.base, s, f)

Single ==
    /\ \A p, q \in Procs : pr[p] # Idle /\ pr[q] # Idle => p = q
    /\ \A p \in Procs : pr[p] # Idle => Follows(pr[p], stg, flash)

\* Where nothing is known.
LEMMA OwnsNothing ==
    ASSUME NEW at \in {"look", "open", "read"}, NEW cmd, NEW tab, NEW base, NEW s, NEW f
    PROVE  Owns(at, cmd, tab, base, s, f)
BY DEF Owns

LEMMA SingleMoves ==
    ASSUME NEW p \in Procs, \A q \in Procs : q # p => pr[q] = Idle,
           NEW at, NEW cmd, NEW tab, NEW base, NEW file,
           Moves(pr, p, pr', at, cmd, tab, base, file), file = TRUE,
           Owns(at, cmd, tab, base, stg', flash')
    PROVE  Single'
<1>1. \A q \in Procs : q # p => pr'[q] = Idle
  BY DEF Moves
<1>2. /\ pr'[p].at = at /\ pr'[p].cmd = cmd /\ pr'[p].tab = tab /\ pr'[p].base = base
      /\ pr'[p].file = TRUE
  BY DEF Moves, Fields
<1>3. Follows(pr'[p], stg', flash')
  BY <1>2 DEF Follows
<1> QED BY <1>1, <1>3 DEF Single

LEMMA SingleEnds ==
    ASSUME Safe, NEW p \in Procs, \A q \in Procs : q # p => pr[q] = Idle, end(p)
    PROVE  Single' /\ \A q \in Procs : pr'[q] = Idle
<1>1. \A q \in Procs : pr'[q] = Idle
  BY DEF Safe, Progress, end
<1> QED BY <1>1 DEF Single

\* Who is at work is alone, and knows the copy.
LEMMA AtWork ==
    ASSUME Single, NEW p \in Procs, pr[p].at # "idle"
    PROVE  /\ \A q \in Procs : q # p => pr[q] = Idle
           /\ pr[p].file = TRUE /\ Owns(pr[p].at, pr[p].cmd, pr[p].tab, pr[p].base, stg, flash)
<1>1. pr[p] # Idle
  BY IdleMapped
<1> QED BY <1>1 DEF Single, Follows

LEMMA StepWorks ==
    ASSUME NEW p \in Procs, step(p)
    PROVE  pr[p].at # "idle"
BY DEF step, nvram_find_staging, staging_read, staging_create, staging_write, nvram_open,
       nvram_open_rdonly, edit, commit_header, commit_clear, commit_tuples, stage_read, stage_erase,
       stage_part, stage_write, stage_unlink

LEMMA MainSingle ==
    ASSUME Safe, Single, "overlap" \notin Env, NEW p \in Procs, main(p)
    PROVE  Single'
<1>1. PICK c \in Commands : pr' = [pr EXCEPT ![p] =
            [at |-> "look", cmd |-> c, tab |-> NoTable, base |-> None, file |-> TRUE]]
  BY DEF main
<1> DEFINE r == [at |-> "look", cmd |-> c, tab |-> NoTable, base |-> None, file |-> TRUE]
<1>2. r.at = "look" /\ r.file = TRUE
  OBVIOUS
<1>3. pr' = [pr EXCEPT ![p] = r] /\ pr \in Progress /\ \A q \in Procs : pr[q] = Idle
  BY <1>1 DEF Safe, main
<1> HIDE DEF r
<1>4. pr'[p] = r /\ \A q \in Procs : q # p => pr'[q] = Idle
  BY <1>3 DEF Progress
<1>5. Follows(r, stg', flash')
  BY <1>2, OwnsNothing DEF Follows
<1> QED BY <1>4, <1>5 DEF Single

\* The copy is made.
LEMMA StagingSingle ==
    ASSUME Safe, Single, NEW p \in Procs,
           nvram_find_staging(p) \/ staging_read(p) \/ staging_create(p) \/ staging_write(p)
    PROVE  Single'
<1> DEFINE r == pr[p]
<1>1. r.at # "idle"
  BY DEF nvram_find_staging, staging_read, staging_create, staging_write
<1>2. /\ \A q \in Procs : q # p => pr[q] = Idle
      /\ r.file = TRUE /\ Owns(r.at, r.cmd, r.tab, r.base, stg, flash)
  BY <1>1, AtWork
<1>3. CASE nvram_find_staging(p)
  <2>1. UNCHANGED stg
    BY <1>3, FindStagingMoves
  <2>2. PICK to \in {"fetch", "open"} : /\ to = "fetch" => stg = None
                                        /\ Moves(pr, p, pr', to, r.cmd, r.tab, r.base, r.file)
    BY <1>3, FindStagingMoves
  <2>3. Owns(to, r.cmd, r.tab, r.base, stg', flash')
    BY <2>1, <2>2 DEF Owns
  <2> QED BY <1>2, <2>2, <2>3, SingleMoves
<1>4. CASE staging_read(p)
  <2>1. /\ r.at = "fetch" /\ UNCHANGED <<flash, stg>>
        /\ Moves(pr, p, pr', "create", r.cmd, r.tab, flash, r.file)
    BY <1>4, StagingReadMoves
  <2>2. stg = None
    BY <1>2, <2>1 DEF Owns
  <2>3. Owns("create", r.cmd, r.tab, flash, stg', flash')
    BY <2>1, <2>2 DEF Owns
  <2> QED BY <1>2, <2>1, <2>3, SingleMoves
<1>5. CASE staging_create(p)
  <2> DEFINE file == TRUE
  <2>1. /\ r.at = "create" /\ UNCHANGED flash /\ stg' = IF stg = None THEN Empty ELSE stg
        /\ Moves(pr, p, pr', "copy", r.cmd, r.tab, r.base, file)
    BY <1>5, StagingCreateMoves
  <2>2. stg = None /\ r.base = flash /\ file = TRUE
    BY <1>2, <2>1 DEF Owns
  <2> HIDE DEF file
  <2>3. Owns("copy", r.cmd, r.tab, r.base, stg', flash')
    BY <2>1, <2>2 DEF Owns
  <2> QED BY <1>2, <2>1, <2>2, <2>3, SingleMoves
<1>6. CASE staging_write(p)
  <2>1. Moves(pr, p, pr', "open", r.cmd, r.tab, None, r.file)
    BY <1>6, StagingWriteMoves
  <2> QED BY <1>2, <2>1, OwnsNothing, SingleMoves
<1> QED BY <1>3, <1>4, <1>5, <1>6

\* It is opened, edited and rewritten.
LEMMA EditSingle ==
    ASSUME Safe, Single, NEW p \in Procs,
           \/ nvram_open(p) \/ nvram_open_rdonly(p) \/ edit(p)
           \/ commit_header(p) \/ commit_clear(p) \/ commit_tuples(p)
    PROVE  Single'
<1> DEFINE r == pr[p]
<1>1. r.at # "idle"
  BY DEF nvram_open, nvram_open_rdonly, edit, commit_header, commit_clear, commit_tuples
<1>2. /\ \A q \in Procs : q # p => pr[q] = Idle
      /\ r.file = TRUE /\ Owns(r.at, r.cmd, r.tab, r.base, stg, flash)
  BY <1>1, AtWork
<1>3. CASE nvram_open(p)
  <2>1. /\ UNCHANGED stg
        /\ end(p) \/ (stg \in Sound /\ Moves(pr, p, pr', "edit", r.cmd, nvram_rehash(stg), r.base, TRUE))
    BY <1>3, OpenMoves
  <2>2. CASE end(p)
    BY <1>2, <2>2, SingleEnds
  <2>3. CASE stg \in Sound /\ Moves(pr, p, pr', "edit", r.cmd, nvram_rehash(stg), r.base, TRUE)
    <3> DEFINE file == TRUE
               tab == nvram_rehash(stg)
    <3>1. file = TRUE /\ Moves(pr, p, pr', "edit", r.cmd, tab, r.base, file)
      BY <2>3
    <3>2. Owns("edit", r.cmd, tab, r.base, stg', flash')
      BY <2>1, <2>3 DEF Owns
    <3> HIDE DEF file, tab
    <3> QED BY <1>2, <3>1, <3>2, SingleMoves
  <2> QED BY <2>1, <2>2, <2>3
<1>4. CASE nvram_open_rdonly(p)
  <2>1. end(p) \/ Moves(pr, p, pr', "read", r.cmd, r.tab, r.base, r.file)
    BY <1>4, OpenRdonlyMoves
  <2> QED BY <1>2, <2>1, OwnsNothing, SingleMoves, SingleEnds
<1>5. CASE edit(p)
  <2> DEFINE tab == Edited(r.tab, r.cmd.edit)
  <2>1. /\ r.at = "edit" /\ UNCHANGED <<flash, stg>>
        /\ Moves(pr, p, pr', "header", r.cmd, tab, r.base, r.file)
    BY <1>5, EditMoves
  <2>2. r.tab = nvram_rehash(stg) /\ stg \in Sound
    BY <1>2, <2>1 DEF Owns
  <2>3. tab = Edited(nvram_rehash(stg'), r.cmd.edit) /\ stg' \in Sound
    BY <2>1, <2>2
  <2> HIDE DEF tab
  <2>4. Owns("header", r.cmd, tab, r.base, stg', flash')
    BY <2>3 DEF Owns
  <2> QED BY <1>2, <2>1, <2>4, SingleMoves
<1>6. CASE commit_header(p)
  <2>1. /\ r.at = "header" /\ stg' \in Sound /\ stg'.hdr = header(r.tab)
        /\ Moves(pr, p, pr', "clear", r.cmd, r.tab, stg, r.file)
    BY <1>2, <1>6, HeaderMoves
  <2>2. stg \in Sound /\ r.tab = Edited(nvram_rehash(stg), r.cmd.edit)
    BY <1>2, <2>1 DEF Owns
  <2>3. Owns("clear", r.cmd, r.tab, stg, stg', flash')
    BY <2>1, <2>2 DEF Owns
  <2> QED BY <1>2, <2>1, <2>3, SingleMoves
<1>7. CASE commit_clear(p)
  <2>1. /\ r.at = "clear" /\ (stg \in Sound => stg' \in Sound /\ stg'.hdr = stg.hdr)
        /\ Moves(pr, p, pr', "tuples", r.cmd, r.tab, r.base, r.file)
    BY <1>2, <1>7, ClearMoves
  <2>2. /\ r.base \in Sound /\ r.tab = Edited(nvram_rehash(r.base), r.cmd.edit)
        /\ stg' \in Sound /\ stg'.hdr = header(r.tab)
    BY <1>2, <2>1 DEF Owns
  <2>3. Owns("tuples", r.cmd, r.tab, r.base, stg', flash')
    BY <2>2 DEF Owns
  <2> QED BY <1>2, <2>1, <2>3, SingleMoves
<1>8. CASE commit_tuples(p)
  <2>1. end(p) \/ Moves(pr, p, pr', "read", r.cmd, NoTable, None, r.file)
    BY <1>8, TuplesMoves
  <2> QED BY <1>2, <2>1, OwnsNothing, SingleMoves, SingleEnds
<1> QED BY <1>3, <1>4, <1>5, <1>6, <1>7, <1>8

\* The partition is written.
LEMMA StageSingle ==
    ASSUME Safe, Single, NEW p \in Procs,
           stage_read(p) \/ stage_erase(p) \/ stage_part(p) \/ stage_write(p) \/ stage_unlink(p)
    PROVE  Single'
<1> DEFINE r == pr[p]
<1>1. r.at # "idle"
  BY DEF stage_read, stage_erase, stage_part, stage_write, stage_unlink
<1>2. /\ \A q \in Procs : q # p => pr[q] = Idle
      /\ r.file = TRUE /\ Owns(r.at, r.cmd, r.tab, r.base, stg, flash)
  BY <1>1, AtWork
<1>3. CASE stage_read(p)
  <2>1. /\ UNCHANGED stg
        /\ end(p) \/ Moves(pr, p, pr', "write", r.cmd, r.tab, stg, r.file)
    BY <1>3, ReadMoves
  <2>2. Owns("write", r.cmd, r.tab, stg, stg', flash')
    BY <2>1 DEF Owns
  <2> QED BY <1>2, <2>1, <2>2, SingleMoves, SingleEnds
<1>4. CASE stage_erase(p)
  <2>1. /\ r.at = "write" /\ UNCHANGED stg
        /\ \/ flash' = Blank /\ Moves(pr, p, pr', "erased", r.cmd, r.tab, r.base, r.file)
           \/ "writeFails" \in Env /\ Moves(pr, p, pr', "unlink", r.cmd, r.tab, r.base, r.file)
           \/ end(p)
    BY <1>4, EraseMoves
  <2>2. r.base = stg
    BY <1>2, <2>1 DEF Owns
  <2>3. flash' = Blank => Owns("erased", r.cmd, r.tab, r.base, stg', flash')
    BY <2>1, <2>2 DEF Owns
  <2>4. "writeFails" \in Env => Owns("unlink", r.cmd, r.tab, r.base, stg', flash')
    BY DEF Owns
  <2> QED BY <1>2, <2>1, <2>3, <2>4, SingleMoves, SingleEnds
<1>5. CASE stage_part(p)
  <2>1. /\ r.at = "erased" /\ UNCHANGED stg /\ flash' \in torn(r.base)
        /\ Moves(pr, p, pr', "part", r.cmd, r.tab, r.base, r.file)
    BY <1>5, PartMoves
  <2>2. r.base = stg
    BY <1>2, <2>1 DEF Owns
  <2>3. Owns("part", r.cmd, r.tab, r.base, stg', flash')
    BY <2>1, <2>2 DEF Owns
  <2> QED BY <1>2, <2>1, <2>3, SingleMoves
<1>6. CASE stage_write(p)
  <2>1. /\ r.at = "part" /\ UNCHANGED stg /\ flash' = r.base
        /\ Moves(pr, p, pr', "unlink", r.cmd, r.tab, r.base, r.file)
    BY <1>6, WriteMoves
  <2>2. flash' = stg'
    BY <1>2, <2>1 DEF Owns
  <2>3. Owns("unlink", r.cmd, r.tab, r.base, stg', flash')
    BY <2>2 DEF Owns
  <2> QED BY <1>2, <2>1, <2>3, SingleMoves
<1>7. CASE stage_unlink(p)
  <2>1. \A q \in Procs : pr'[q] = Idle
    BY <1>2, <1>7 DEF stage_unlink
  <2> QED BY <2>1 DEF Single
<1> QED BY <1>3, <1>4, <1>5, <1>6, <1>7

LEMMA SingleStays ==
    ASSUME Safe, Single, "overlap" \notin Env, [Next]_vars
    PROVE  Single'
<1>1. CASE UNCHANGED vars
  BY <1>1 DEF Single, vars
<1>2. CASE boot
  BY <1>2 DEF Single, boot
<1>3. CASE power_loss
  <2>1. \A p \in Procs : pr'[p] = Idle
    BY <1>3 DEF power_loss
  <2> QED BY <2>1 DEF Single
<1>4. ASSUME NEW p \in Procs, main(p) \/ step(p) PROVE Single'
  BY <1>4, MainSingle, StagingSingle, EditSingle, StageSingle DEF step
<1> QED BY <1>1, <1>2, <1>3, <1>4 DEF Next

LEMMA AlwaysSingle == "overlap" \notin Env => (Spec => [](Safe /\ Single))
<1> SUFFICES ASSUME "overlap" \notin Env PROVE Spec => [](Safe /\ Single)
  OBVIOUS
<1>1. Init => Single
  BY DEF Init, Single
<1>2. Safe /\ Single /\ [Next]_vars => Single'
  BY SingleStays
<1> QED BY <1>1, <1>2, AlwaysSafe, PTL DEF Spec

-----------------------------------------------------------------------------
(***************************************************************************)
(* Header and variables                                                    *)
(***************************************************************************)

\* img needs no header that agrees, or has one.
Fine(img) == img \in {None, Empty, Blank} \/ ~img.nul \/ Agrees(img)

Agreed == Fine(flash) /\ (changing = {} => Fine(stg))

LEMMA AloneChanging ==
    ASSUME NEW p \in Procs, \A q \in Procs : q # p => pr[q] = Idle
    PROVE  changing = IF pr[p].at \in {"clear", "tuples"} THEN {p} ELSE {}
BY IdleMapped DEF changing

LEMMA StillFine ==
    ASSUME Agreed, UNCHANGED <<flash, stg>>, changing' = {} => changing = {}
    PROVE  Agreed'
BY DEF Agreed

LEMMA StepAgreed ==
    ASSUME Safe, Single, Agreed, NEW p \in Procs, step(p)
    PROVE  Agreed'
<1> DEFINE r == pr[p]
<1>1. /\ \A q \in Procs : q # p => pr[q] = Idle
      /\ r.file = TRUE /\ Owns(r.at, r.cmd, r.tab, r.base, stg, flash)
  BY StepWorks, AtWork
<1>2. changing = IF r.at \in {"clear", "tuples"} THEN {p} ELSE {}
  BY <1>1, AloneChanging
<1>3. CASE nvram_find_staging(p) \/ staging_read(p) \/ nvram_open(p) \/ nvram_open_rdonly(p) \/ edit(p)
           \/ stage_read(p)
  <2>1. UNCHANGED <<flash, stg>> /\ r.at \notin {"clear", "tuples"}
    BY <1>3 DEF nvram_find_staging, staging_read, nvram_open, nvram_open_rdonly, edit, stage_read
  <2> QED BY <1>2, <2>1, StillFine
<1>4. CASE staging_create(p)
  <2>1. r.at = "create" /\ UNCHANGED flash /\ stg' = IF stg = None THEN Empty ELSE stg
    BY <1>4, StagingCreateMoves
  <2>2. stg' = Empty
    BY <1>1, <2>1 DEF Owns
  <2> QED BY <2>1, <2>2 DEF Agreed, Fine
<1>5. CASE staging_write(p)
  <2>1. r.at = "copy" /\ UNCHANGED flash /\ stg' = IF r.file THEN r.base ELSE stg
    BY <1>5, StagingWriteMoves
  <2>2. stg' = flash
    BY <1>1, <2>1 DEF Owns
  <2> QED BY <2>1, <2>2 DEF Agreed
<1>6. CASE commit_header(p)
  <2>1. UNCHANGED flash /\ Moves(pr, p, pr', "clear", r.cmd, r.tab, stg, r.file)
    BY <1>6, HeaderMoves
  <2>2. pr'[p].at = "clear"
    BY <2>1 DEF Moves, Fields
  <2>3. changing' # {}
    BY <2>2 DEF changing
  <2> QED BY <2>1, <2>3 DEF Agreed
<1>7. CASE commit_clear(p)
  <2>1. UNCHANGED flash /\ Moves(pr, p, pr', "tuples", r.cmd, r.tab, r.base, r.file)
    BY <1>7, ClearMoves
  <2>2. pr'[p].at = "tuples"
    BY <2>1 DEF Moves, Fields
  <2>3. changing' # {}
    BY <2>2 DEF changing
  <2> QED BY <2>1, <2>3 DEF Agreed
<1>8. CASE commit_tuples(p)
  <2>1. /\ RunOK(r) /\ r.at = "tuples" /\ UNCHANGED flash
        /\ (r.file /\ stg \in Sound /\ stg.hdr = header(r.tab)) => stg' = Image(r.tab)
    BY <1>8, TuplesMoves
  <2>2. stg' = Image(r.tab)
    BY <1>1, <2>1 DEF Owns
  <2>3. Agrees(stg')
    BY <2>1, <2>2, ImageSound DEF RunOK
  <2> QED BY <2>1, <2>3 DEF Agreed, Fine
<1>9. CASE stage_erase(p)
  <2>1. r.at = "write" /\ UNCHANGED stg /\ (flash' = Blank \/ flash' = flash)
    BY <1>9, EraseMoves
  <2> QED BY <1>2, <2>1 DEF Agreed, Fine
<1>10. CASE stage_part(p)
  <2>1. RunOK(r) /\ r.at = "erased" /\ UNCHANGED stg /\ flash' \in torn(r.base)
    BY <1>10, PartMoves
  <2>2. r.base \in Parts
    BY <2>1 DEF RunOK, Read
  <2>3. Fine(flash')
    <3>1. CASE r.base = Blank
      BY <2>1, <3>1 DEF torn, Fine
    <3>2. CASE r.base # Blank
      <4>1. r.base \in Sound
        BY <2>2, <3>2 DEF Parts
      <4> QED BY <2>1, <4>1, TornSound DEF Fine
    <3> QED BY <3>1, <3>2
  <2> QED BY <1>2, <2>1, <2>3 DEF Agreed
<1>11. CASE stage_write(p)
  <2>1. r.at = "part" /\ UNCHANGED stg /\ flash' = r.base
    BY <1>11, WriteMoves
  <2>2. flash' = stg
    BY <1>1, <2>1 DEF Owns
  <2> QED BY <1>2, <2>1, <2>2 DEF Agreed
<1>12. CASE stage_unlink(p)
  <2>1. stg' = None /\ flash' = flash
    BY <1>12 DEF stage_unlink
  <2> QED BY <2>1 DEF Agreed, Fine
<1> QED BY <1>3, <1>4, <1>5, <1>6, <1>7, <1>8, <1>9, <1>10, <1>11, <1>12 DEF step

LEMMA AgreedStays ==
    ASSUME Safe, Single, Agreed, "overlap" \notin Env, [Next]_vars
    PROVE  Agreed'
<1>1. CASE UNCHANGED vars \/ boot
  <2>1. UNCHANGED <<flash, stg, pr>>
    BY <1>1 DEF vars, boot
  <2> QED BY <2>1, StillFine DEF changing
<1>2. CASE power_loss
  <2>1. stg' = None /\ flash' = flash
    BY <1>2 DEF power_loss
  <2> QED BY <2>1 DEF Agreed, Fine
<1>3. ASSUME NEW p \in Procs, main(p) PROVE Agreed'
  <2>1. UNCHANGED <<flash, stg>> /\ \A q \in Procs : pr[q] = Idle
    BY <1>3 DEF main
  <2>2. changing = {}
    BY <2>1, IdleMapped DEF changing
  <2> QED BY <2>1, <2>2, StillFine
<1>4. ASSUME NEW p \in Procs, step(p) PROVE Agreed'
  BY <1>4, StepAgreed
<1> QED BY <1>1, <1>2, <1>3, <1>4 DEF Next

LEMMA AgreedShows ==
    ASSUME Agreed
    PROVE  HeaderAgrees
<1>1. ASSUME NEW img \in {flash} \cup (IF changing = {} THEN {stg} ELSE {})
      PROVE  Fine(img)
  BY <1>1 DEF Agreed
<1> QED BY <1>1 DEF HeaderAgrees, Fine, Agrees

\* With one command at a time, header and variables agree in the copy, unless it
\* is being rewritten, and in the partition, unless its writing was cut short,
\* whether the tuples fit or not, whatever writes fail and whenever power goes
\* (header and write_tuples of nvram_commit, _nvram_rehash, staging_to_nvram).
THEOREM HeaderAlwaysAgrees == "overlap" \notin Env => (Spec => []HeaderAgrees)
<1> SUFFICES ASSUME "overlap" \notin Env PROVE Spec => []HeaderAgrees
  OBVIOUS
<1>1. Init => Agreed
  <2>1. Init => Fine(flash) /\ Fine(stg)
    BY InitSafe DEF Fine
  <2> QED BY <2>1 DEF Agreed
<1>2. Safe /\ Single /\ Agreed /\ [Next]_vars => Agreed'
  BY AgreedStays
<1>3. Agreed => HeaderAgrees
  BY AgreedShows
<1> QED BY <1>1, <1>2, <1>3, AlwaysSingle, PTL DEF Spec

-----------------------------------------------------------------------------
(***************************************************************************)
(* What the contract sees of a command that is alone                       *)
(***************************************************************************)

\* The working copy, and the partition, of a command at "at" that has read base,
\* with the copy s and the partition f.
Copy(at, base, s, f) ==
    IF at \in {"clear", "tuples"} THEN view(base) ELSE IF s \in {None, Empty} THEN view(f) ELSE view(s)

Stored(at, f) == IF at \in {"erased", "part"} THEN view(Blank) ELSE view(f)

stored == IF erasing # {} THEN view(Blank) ELSE view(flash)

LEMMA AloneSees ==
    ASSUME NEW p \in Procs, \A q \in Procs : q # p => pr[q] = Idle
    PROVE  /\ working = Copy(pr[p].at, pr[p].base, stg, flash)
           /\ stored = Stored(pr[p].at, flash)
           /\ erasing # {} <=> pr[p].at \in {"erased", "part"}
<1>1. changing = IF pr[p].at \in {"clear", "tuples"} THEN {p} ELSE {}
  BY AloneChanging
<1>2. erasing = IF pr[p].at \in {"erased", "part"} THEN {p} ELSE {}
  BY IdleMapped DEF erasing
<1>3. (CHOOSE q \in {p} : TRUE) = p
  OBVIOUS
<1> QED BY <1>1, <1>2, <1>3 DEF working, Copy, stored, Stored

LEMMA AloneSeesNext ==
    ASSUME NEW p \in Procs, \A q \in Procs : q # p => pr'[q] = Idle
    PROVE  /\ working' = Copy(pr'[p].at, pr'[p].base, stg', flash')
           /\ stored' = Stored(pr'[p].at, flash')
           /\ (erasing # {})' <=> pr'[p].at \in {"erased", "part"}
<1>1. changing' = IF pr'[p].at \in {"clear", "tuples"} THEN {p} ELSE {}
  BY IdleMapped DEF changing
<1>2. erasing' = IF pr'[p].at \in {"erased", "part"} THEN {p} ELSE {}
  BY IdleMapped DEF erasing
<1>3. (CHOOSE q \in {p} : TRUE) = p
  OBVIOUS
<1> QED BY <1>1, <1>2, <1>3 DEF working, Copy, stored, Stored

LEMMA IdleSees ==
    ASSUME \A q \in Procs : pr[q] = Idle
    PROVE  /\ working = IF stg \in {None, Empty} THEN view(flash) ELSE view(stg)
           /\ stored = view(flash) /\ erasing = {}
<1>1. changing = {} /\ erasing = {}
  BY IdleMapped DEF changing, erasing
<1> QED BY <1>1 DEF working, stored

LEMMA IdleSeesNext ==
    ASSUME \A q \in Procs : pr'[q] = Idle
    PROVE  /\ working' = IF stg' \in {None, Empty} THEN view(flash') ELSE view(stg')
           /\ stored' = view(flash') /\ erasing' = {}
<1>1. changing' = {} /\ erasing' = {}
  BY IdleMapped DEF changing, erasing
<1> QED BY <1>1 DEF working, stored

\* Only commit_tuples, or power loss, ends the rewriting of the copy.
LEMMA EndsTuples ==
    ASSUME Safe, Single, [Next]_vars, NEW p \in Procs, pr[p].at = "tuples", pr'[p].at # "tuples", ~off'
    PROVE  commit_tuples(p)
<1>1. \A q \in Procs : q # p => pr[q] = Idle
  BY AtWork
<1>2. pr[p] # Idle
  BY IdleMapped
<1>3. ~(UNCHANGED vars)
  BY DEF vars
<1>4. ~boot /\ ~power_loss
  BY DEF boot, power_loss
<1>5. PICK q \in Procs : main(q) \/ step(q)
  BY <1>3, <1>4 DEF Next
<1>6. CASE q # p
  <2>1. pr[q].at = "idle" /\ pr[q] = Idle
    BY <1>1, <1>6, IdleMapped
  <2>2. main(q)
    BY <1>5, <2>1, StepWorks
  <2>3. PICK c : pr' = [pr EXCEPT ![q] = c]
    BY <2>2 DEF main
  <2>4. pr'[p] = pr[p]
    BY <1>6, <2>3 DEF Safe, Progress
  <2> QED BY <2>4
<1>7. CASE q = p
  BY <1>2, <1>5, <1>7 DEF main, step, nvram_find_staging, staging_read, staging_create, staging_write,
     nvram_open, nvram_open_rdonly, edit, commit_header, commit_clear, stage_read, stage_erase,
     stage_part, stage_write, stage_unlink
<1> QED BY <1>6, <1>7

\* What commit_tuples makes of the copy of a command that is alone.
LEMMA TuplesEffect ==
    ASSUME Safe, Single, NEW p \in Procs, commit_tuples(p)
    PROVE  LET c == pr[p].cmd
               e == c.edit
           IN  /\ c \in Commands /\ pr[p].base \in Sound /\ stg' \in Sound
               /\ Changes(view(pr[p].base), view(stg'))
               /\ e.op = "set" /\ fits(Contract!With(view(pr[p].base), e.n, e.v))
                    => view(stg') = Contract!With(view(pr[p].base), e.n, e.v)
               /\ e.op = "unset" => e.n \notin DOMAIN view(stg') \ Special
<1> DEFINE r == pr[p]
<1>1. /\ RunOK(r) /\ r.at = "tuples"
      /\ (r.file /\ stg \in Sound /\ stg.hdr = header(r.tab)) => stg' = Image(r.tab)
  BY TuplesMoves
<1>2. r.file = TRUE /\ Owns(r.at, r.cmd, r.tab, r.base, stg, flash)
  BY <1>1, AtWork
<1>3. /\ r.base \in Sound /\ r.tab = Edited(nvram_rehash(r.base), r.cmd.edit)
      /\ stg' = Image(r.tab)
  BY <1>1, <1>2 DEF Owns
<1>4. r.cmd \in Commands
  BY <1>1, FieldsOf DEF RunOK
<1>5. stg' \in Sound /\ stg' = Image(r.tab)
  BY <1>1, <1>3, ImageSound DEF RunOK
<1> DEFINE base == r.base
           tab == r.tab
           c == r.cmd
           f == view(stg')
<1>6. /\ base \in Sound /\ c \in Commands /\ tab = Edited(nvram_rehash(base), c.edit)
      /\ f = view(Image(tab))
  BY <1>3, <1>4, <1>5
<1> HIDE DEF base, tab, c, f
<1>7. /\ Changes(view(base), f)
      /\ c.edit.op = "set" /\ fits(Contract!With(view(base), c.edit.n, c.edit.v))
           => f = Contract!With(view(base), c.edit.n, c.edit.v)
      /\ c.edit.op = "unset" => c.edit.n \notin DOMAIN f \ Special
  BY <1>6, EditEffect
<1> QED BY <1>5, <1>6, <1>7 DEF base, c, f

LEMMA EditTakesStep ==
    ASSUME Safe, Single, [Next]_vars, NEW p \in Procs, pr[p].at = "tuples", pr'[p].at # "tuples", ~off'
    PROVE  LET e   == pr[p].cmd.edit
               old == working
               new == [n \in DOMAIN old \cup {e.n} |-> IF n = e.n THEN e.v ELSE old[n]]
           IN  /\ (e.op = "set" /\ fits(new)) =>
                      e.n \in DOMAIN view(stg') /\ view(stg')[e.n] = e.v
               /\ e.op = "unset" => e.n \notin DOMAIN view(stg') \ Special
<1> DEFINE e == pr[p].cmd.edit
           m == view(pr[p].base)
           f == view(stg')
           new == [n \in DOMAIN m \cup {e.n} |-> IF n = e.n THEN e.v ELSE m[n]]
<1>1. commit_tuples(p)
  BY EndsTuples
<1>2. working = m
  <2>1. \A q \in Procs : q # p => pr[q] = Idle
    BY AtWork
  <2> QED BY <2>1, AloneSees DEF Copy
<1>3. /\ e.op = "set" /\ fits(Contract!With(m, e.n, e.v)) => f = Contract!With(m, e.n, e.v)
      /\ e.op = "unset" => e.n \notin DOMAIN f \ Special
  BY <1>1, TuplesEffect
<1>4. Contract!With(m, e.n, e.v) = new
  BY DEF Contract!With
<1>5. e.n \in DOMAIN new /\ new[e.n] = e.v
  OBVIOUS
<1> HIDE DEF e, m, f, new
<1>6. (e.op = "set" /\ fits(new)) => e.n \in DOMAIN f /\ f[e.n] = e.v
  BY <1>3, <1>4, <1>5
<1> QED BY <1>2, <1>3, <1>6 DEF e, m, f, new

\* With one command at a time, whatever the variables, the sizes, the hash
\* function and the partition: a command that has rewritten the copy has set its
\* variable, if there is room, or has removed it, unless it is a special one
\* (nvram_set, nvram_unset, nvram_commit).
THEOREM EditsTake == "overlap" \notin Env => (Spec => EditTakes)
<1> SUFFICES ASSUME "overlap" \notin Env PROVE Spec => EditTakes
  OBVIOUS
<1>1. Spec => [](Safe /\ Single)
  BY AlwaysSingle
<1>2. ASSUME Safe, Single, [Next]_vars
      PROVE  [\A p \in Procs :
    (pr[p].at = "tuples" /\ pr'[p].at # "tuples" /\ ~off') =>
        LET e   == pr[p].cmd.edit
            old == working
            new == [n \in DOMAIN old \cup {e.n} |-> IF n = e.n THEN e.v ELSE old[n]]
        IN  /\ (e.op = "set" /\ fits(new)) =>
                   e.n \in DOMAIN view(stg') /\ view(stg')[e.n] = e.v
            /\ e.op = "unset" => e.n \notin DOMAIN view(stg') \ Special]_vars
  BY <1>2, EditTakesStep
<1> QED BY <1>1, <1>2, PTL DEF Spec, EditTakes

-----------------------------------------------------------------------------
(***************************************************************************)
(* Every step of a command is a step of the contract or none               *)
(***************************************************************************)

LEMMA NothingSeen ==
    ASSUME working' = working, stored' = stored, (erasing # {})' <=> erasing # {}, off' = off
    PROVE  UNCHANGED Contract!vars
BY DEF Contract!vars, stored

\* Of one step of a command that goes on, the contract sees these.
LEMMA MoveSees ==
    ASSUME NEW p \in Procs, \A q \in Procs : q # p => pr[q] = Idle,
           NEW at, NEW cmd, NEW tab, NEW base, NEW file,
           Moves(pr, p, pr', at, cmd, tab, base, file)
    PROVE  /\ working' = Copy(at, base, stg', flash') /\ stored' = Stored(at, flash')
           /\ (erasing # {})' <=> at \in {"erased", "part"}
<1>1. \A q \in Procs : q # p => pr'[q] = Idle
  BY DEF Moves
<1>2. pr'[p].at = at /\ pr'[p].base = base
  BY DEF Moves, Fields
<1> QED BY <1>1, <1>2, AloneSeesNext

LEMMA QuietMove ==
    ASSUME NEW p \in Procs, \A q \in Procs : q # p => pr[q] = Idle,
           NEW at, NEW cmd, NEW tab, NEW base, NEW file,
           Moves(pr, p, pr', at, cmd, tab, base, file),
           at \notin {"erased", "part"}, pr[p].at \notin {"erased", "part"},
           Copy(at, base, stg', flash') = Copy(pr[p].at, pr[p].base, stg, flash),
           UNCHANGED <<flash, off>>
    PROVE  UNCHANGED Contract!vars
<1>1. /\ working' = Copy(at, base, stg', flash') /\ stored' = Stored(at, flash')
      /\ (erasing # {})' <=> at \in {"erased", "part"}
  BY MoveSees
<1>2. /\ working = Copy(pr[p].at, pr[p].base, stg, flash)
      /\ stored = Stored(pr[p].at, flash)
      /\ erasing # {} <=> pr[p].at \in {"erased", "part"}
  BY AloneSees
<1>3. stored' = stored
  BY <1>1, <1>2 DEF Stored
<1> QED BY <1>1, <1>2, <1>3, NothingSeen

LEMMA QuietEnd ==
    ASSUME Safe, NEW p \in Procs, \A q \in Procs : q # p => pr[q] = Idle, end(p),
           pr[p].at \in {"look", "open", "read"}, UNCHANGED <<flash, stg, off>>
    PROVE  UNCHANGED Contract!vars
<1>1. \A q \in Procs : pr'[q] = Idle
  BY DEF Safe, Progress, end
<1>2. /\ working' = IF stg' \in {None, Empty} THEN view(flash') ELSE view(stg')
      /\ stored' = view(flash') /\ erasing' = {}
  BY <1>1, IdleSeesNext
<1>3. /\ working = Copy(pr[p].at, pr[p].base, stg, flash)
      /\ stored = Stored(pr[p].at, flash)
      /\ erasing # {} <=> pr[p].at \in {"erased", "part"}
  BY AloneSees
<1>4. working' = working /\ stored' = stored
  BY <1>2, <1>3 DEF Copy, Stored
<1> QED BY <1>2, <1>3, <1>4, NothingSeen

LEMMA MainStep ==
    ASSUME Safe, "overlap" \notin Env, NEW p \in Procs, main(p)
    PROVE  UNCHANGED Contract!vars
<1>1. PICK c \in Commands : pr' = [pr EXCEPT ![p] =
            [at |-> "look", cmd |-> c, tab |-> NoTable, base |-> None, file |-> TRUE]]
  BY DEF main
<1> DEFINE r == [at |-> "look", cmd |-> c, tab |-> NoTable, base |-> None, file |-> TRUE]
<1>2. r.at = "look"
  OBVIOUS
<1>3. /\ pr' = [pr EXCEPT ![p] = r] /\ pr \in Progress /\ \A q \in Procs : pr[q] = Idle
      /\ UNCHANGED <<flash, stg, off>>
  BY <1>1 DEF Safe, main
<1> HIDE DEF r
<1>4. pr'[p].at = "look" /\ \A q \in Procs : q # p => pr'[q] = Idle
  BY <1>2, <1>3 DEF Progress
<1>5. /\ working' = Copy(pr'[p].at, pr'[p].base, stg', flash')
      /\ stored' = Stored(pr'[p].at, flash')
      /\ (erasing # {})' <=> pr'[p].at \in {"erased", "part"}
  BY <1>4, AloneSeesNext
<1>6. /\ working = IF stg \in {None, Empty} THEN view(flash) ELSE view(stg)
      /\ stored = view(flash) /\ erasing = {}
  BY <1>3, IdleSees
<1>7. working' = working /\ stored' = stored
  BY <1>3, <1>4, <1>5, <1>6 DEF Copy, Stored
<1> QED BY <1>3, <1>4, <1>5, <1>6, <1>7, NothingSeen

\* Making the copy changes nothing that can be seen.
LEMMA QuietStaging ==
    ASSUME Safe, Single, NEW p \in Procs,
           nvram_find_staging(p) \/ staging_read(p) \/ staging_create(p) \/ staging_write(p)
    PROVE  UNCHANGED Contract!vars
<1> DEFINE r == pr[p]
<1>1. r.at # "idle"
  BY DEF nvram_find_staging, staging_read, staging_create, staging_write
<1>2. /\ \A q \in Procs : q # p => pr[q] = Idle
      /\ r.file = TRUE /\ Owns(r.at, r.cmd, r.tab, r.base, stg, flash)
  BY <1>1, AtWork
<1>3. CASE nvram_find_staging(p)
  <2>1. r.at = "look" /\ UNCHANGED <<flash, stg, off>>
    BY <1>3, FindStagingMoves
  <2>2. PICK to \in {"fetch", "open"} : Moves(pr, p, pr', to, r.cmd, r.tab, r.base, r.file)
    BY <1>3, FindStagingMoves
  <2>3. Copy(to, r.base, stg', flash') = Copy(r.at, r.base, stg, flash)
    BY <2>1 DEF Copy
  <2> QED BY <1>2, <2>1, <2>2, <2>3, QuietMove
<1>4. CASE staging_read(p)
  <2>1. /\ r.at = "fetch" /\ UNCHANGED <<flash, stg, off>>
        /\ Moves(pr, p, pr', "create", r.cmd, r.tab, flash, r.file)
    BY <1>4, StagingReadMoves
  <2>2. Copy("create", flash, stg', flash') = Copy(r.at, r.base, stg, flash)
    BY <2>1 DEF Copy
  <2> QED BY <1>2, <2>1, <2>2, QuietMove
<1>5. CASE staging_create(p)
  <2> DEFINE file == TRUE
  <2>1. /\ r.at = "create" /\ UNCHANGED <<flash, off>> /\ stg' = IF stg = None THEN Empty ELSE stg
        /\ Moves(pr, p, pr', "copy", r.cmd, r.tab, r.base, file)
    BY <1>5, StagingCreateMoves
  <2> HIDE DEF file
  <2>2. stg = None /\ stg' = Empty
    BY <1>2, <2>1 DEF Owns
  <2>3. Copy("copy", r.base, stg', flash') = Copy(r.at, r.base, stg, flash)
    BY <2>1, <2>2 DEF Copy
  <2> QED BY <1>2, <2>1, <2>3, QuietMove
<1>6. CASE staging_write(p)
  <2>1. /\ RunOK(r) /\ r.at = "copy" /\ UNCHANGED <<flash, off>>
        /\ stg' = IF r.file THEN r.base ELSE stg
        /\ Moves(pr, p, pr', "open", r.cmd, r.tab, None, r.file)
    BY <1>6, StagingWriteMoves
  <2>2. stg = Empty /\ stg' = flash /\ stg' \notin {None, Empty}
    BY <1>2, <2>1, SoundImages DEF Owns, Safe
  <2>3. Copy("open", None, stg', flash') = Copy(r.at, r.base, stg, flash)
    BY <2>1, <2>2 DEF Copy
  <2> QED BY <1>2, <2>1, <2>3, QuietMove
<1> QED BY <1>3, <1>4, <1>5, <1>6

\* Neither does what prepares an edit or a write.
LEMMA QuietSteps ==
    ASSUME Safe, Single, NEW p \in Procs,
           \/ nvram_open(p) \/ nvram_open_rdonly(p) \/ edit(p)
           \/ commit_header(p) \/ commit_clear(p) \/ stage_read(p)
    PROVE  UNCHANGED Contract!vars
<1> DEFINE r == pr[p]
<1>1. r.at # "idle"
  BY DEF nvram_open, nvram_open_rdonly, edit, commit_header, commit_clear, stage_read
<1>2. /\ \A q \in Procs : q # p => pr[q] = Idle
      /\ r.file = TRUE /\ Owns(r.at, r.cmd, r.tab, r.base, stg, flash)
  BY <1>1, AtWork
<1>3. CASE nvram_open(p)
  <2>1. /\ r.at = "open" /\ UNCHANGED <<flash, stg, off>>
        /\ end(p) \/ Moves(pr, p, pr', "edit", r.cmd, nvram_rehash(stg), r.base, TRUE)
    BY <1>3, OpenMoves
  <2>2. CASE end(p)
    BY <1>2, <2>1, <2>2, QuietEnd
  <2>3. CASE Moves(pr, p, pr', "edit", r.cmd, nvram_rehash(stg), r.base, TRUE)
    <3> DEFINE file == TRUE
               tab == nvram_rehash(stg)
    <3>1. Moves(pr, p, pr', "edit", r.cmd, tab, r.base, file)
      BY <2>3
    <3>2. Copy("edit", r.base, stg', flash') = Copy(r.at, r.base, stg, flash)
      BY <2>1 DEF Copy
    <3> HIDE DEF file, tab
    <3> QED BY <1>2, <2>1, <3>1, <3>2, QuietMove
  <2> QED BY <2>1, <2>2, <2>3
<1>4. CASE nvram_open_rdonly(p)
  <2>1. /\ r.at = "look" /\ UNCHANGED <<flash, stg, off>>
        /\ end(p) \/ Moves(pr, p, pr', "read", r.cmd, r.tab, r.base, r.file)
    BY <1>4, OpenRdonlyMoves
  <2>2. Copy("read", r.base, stg', flash') = Copy(r.at, r.base, stg, flash)
    BY <2>1 DEF Copy
  <2> QED BY <1>2, <2>1, <2>2, QuietEnd, QuietMove
<1>5. CASE edit(p)
  <2> DEFINE tab == Edited(r.tab, r.cmd.edit)
  <2>1. /\ r.at = "edit" /\ UNCHANGED <<flash, stg, off>>
        /\ Moves(pr, p, pr', "header", r.cmd, tab, r.base, r.file)
    BY <1>5, EditMoves
  <2>2. Copy("header", r.base, stg', flash') = Copy(r.at, r.base, stg, flash)
    BY <2>1 DEF Copy
  <2> HIDE DEF tab
  <2> QED BY <1>2, <2>1, <2>2, QuietMove
<1>6. CASE commit_header(p)
  <2>1. /\ r.at = "header" /\ UNCHANGED <<flash, off>>
        /\ Moves(pr, p, pr', "clear", r.cmd, r.tab, stg, r.file)
    BY <1>6, HeaderMoves
  <2>2. stg \in Sound
    BY <1>2, <2>1 DEF Owns
  <2>3. Copy("clear", stg, stg', flash') = Copy(r.at, r.base, stg, flash)
    BY <2>1, <2>2, SoundImages DEF Copy
  <2> QED BY <1>2, <2>1, <2>3, QuietMove
<1>7. CASE commit_clear(p)
  <2>1. /\ r.at = "clear" /\ UNCHANGED <<flash, off>>
        /\ Moves(pr, p, pr', "tuples", r.cmd, r.tab, r.base, r.file)
    BY <1>7, ClearMoves
  <2>2. Copy("tuples", r.base, stg', flash') = Copy(r.at, r.base, stg, flash)
    BY <2>1 DEF Copy
  <2> QED BY <1>2, <2>1, <2>2, QuietMove
<1>8. CASE stage_read(p)
  <2>1. /\ r.at = "read" /\ UNCHANGED <<flash, stg, off>>
        /\ end(p) \/ Moves(pr, p, pr', "write", r.cmd, r.tab, stg, r.file)
    BY <1>8, ReadMoves
  <2>2. CASE end(p)
    BY <1>2, <2>1, <2>2, QuietEnd
  <2>3. Copy("write", stg, stg', flash') = Copy(r.at, r.base, stg, flash)
    BY <2>1 DEF Copy
  <2> QED BY <1>2, <2>1, <2>2, <2>3, QuietMove
<1> QED BY <1>3, <1>4, <1>5, <1>6, <1>7, <1>8

\* The copy is rewritten: the command takes effect.
LEMMA TuplesStep ==
    ASSUME Safe, Single, NEW p \in Procs, commit_tuples(p)
    PROVE  [Contract!Next]_(Contract!vars)
<1> DEFINE r == pr[p]
<1>1. /\ r.at = "tuples" /\ UNCHANGED <<flash, off>>
      /\ end(p) \/ Moves(pr, p, pr', "read", r.cmd, NoTable, None, r.file)
  BY TuplesMoves
<1>2. \A q \in Procs : q # p => pr[q] = Idle
  BY <1>1, AtWork
<1>3. stg' \in Sound /\ Changes(view(r.base), view(stg'))
  BY TuplesEffect
<1>4. stg' \notin {None, Empty}
  BY <1>3, SoundImages
<1>5. working = view(r.base) /\ stored = view(flash) /\ erasing = {}
  BY <1>1, <1>2, AloneSees DEF Copy, Stored
<1>6. working' = view(stg') /\ stored' = view(flash') /\ erasing' = {}
  <2>1. CASE end(p)
    <3>1. \A q \in Procs : pr'[q] = Idle
      BY <1>2, <2>1 DEF Safe, Progress, end
    <3> QED BY <3>1, <1>4, IdleSeesNext
  <2>2. CASE Moves(pr, p, pr', "read", r.cmd, NoTable, None, r.file)
    <3>1. /\ working' = Copy("read", None, stg', flash') /\ stored' = Stored("read", flash')
          /\ (erasing # {})' <=> "read" \in {"erased", "part"}
      BY <1>2, <2>2, MoveSees
    <3> QED BY <3>1, <1>4 DEF Copy, Stored
  <2> QED BY <1>1, <2>1, <2>2
<1>7. Changes(working, working') /\ stored' = stored /\ off' = off
  BY <1>1, <1>3, <1>5, <1>6
<1>8. CASE working' = working
  BY <1>5, <1>6, <1>7, <1>8, NothingSeen
<1>9. ASSUME NEW n \in Names, n \notin Special, working' = Contract!Without(working, n)
      PROVE  Contract!Next
  <2>1. Contract!Unset(n)
    BY <1>5, <1>6, <1>7, <1>9 DEF Contract!Unset, stored
  <2> QED BY <2>1 DEF Contract!Next
<1>10. ASSUME NEW n \in Names, NEW v \in Values, Contract!Kept(working', Contract!With(working, n, v))
       PROVE  Contract!Next
  <2>1. Contract!Set(n, v)
    BY <1>5, <1>6, <1>7, <1>10 DEF Contract!Set, stored
  <2> QED BY <2>1 DEF Contract!Next
<1> QED BY <1>7, <1>8, <1>9, <1>10 DEF Changes

LEMMA BlankView == view(Blank) = Contract!Lost /\ DOMAIN view(Blank) = {}
BY DEF view, Contract!Lost

\* The working copy while the partition is written.
LEMMA WritingSees ==
    ASSUME Safe, Single, NEW p \in Procs, pr[p].at \in {"write", "erased", "part"}
    PROVE  /\ \A q \in Procs : q # p => pr[q] = Idle
           /\ pr[p].base = stg /\ stg \in Parts /\ stg \notin {None, Empty}
           /\ working = view(stg) /\ stored = Stored(pr[p].at, flash)
           /\ erasing # {} <=> pr[p].at \in {"erased", "part"}
<1> DEFINE r == pr[p]
<1>1. /\ \A q \in Procs : q # p => pr[q] = Idle
      /\ Owns(r.at, r.cmd, r.tab, r.base, stg, flash)
  BY AtWork
<1>2. r.base = stg /\ RunOK(r)
  BY <1>1, Runs DEF Owns
<1>3. stg \in Parts /\ stg \notin {None, Empty}
  BY <1>2, SoundImages DEF RunOK, Read
<1>4. /\ working = Copy(r.at, r.base, stg, flash) /\ stored = Stored(r.at, flash)
      /\ erasing # {} <=> r.at \in {"erased", "part"}
  BY <1>1, AloneSees
<1>5. working = view(stg)
  BY <1>3, <1>4 DEF Copy
<1> QED BY <1>1, <1>2, <1>3, <1>4, <1>5

\* The partition is erased, the commit begins; a part of it is written, which
\* shows only if power goes; the rest is, and the commit ends.
LEMMA CommitSteps ==
    ASSUME Safe, Single, "writeFails" \notin Env, NEW p \in Procs,
           stage_erase(p) \/ stage_part(p) \/ stage_write(p)
    PROVE  Contract!CommitBegin \/ Contract!CommitEnd \/ UNCHANGED Contract!vars
<1> DEFINE r == pr[p]
<1>1. r.at \in {"write", "erased", "part"}
  BY DEF stage_erase, stage_part, stage_write
<1>2. /\ \A q \in Procs : q # p => pr[q] = Idle
      /\ r.base = stg /\ stg \in Parts /\ stg \notin {None, Empty}
      /\ working = view(stg) /\ stored = Stored(r.at, flash)
      /\ erasing # {} <=> r.at \in {"erased", "part"}
  BY <1>1, WritingSees
<1>3. CASE stage_erase(p)
  <2>1. /\ r.at = "write" /\ UNCHANGED <<stg, off>>
        /\ Moves(pr, p, pr', "erased", r.cmd, r.tab, r.base, r.file)
    BY <1>3, EraseMoves
  <2>2. /\ working' = Copy("erased", r.base, stg', flash') /\ stored' = Stored("erased", flash')
        /\ (erasing # {})'
    BY <1>2, <2>1, MoveSees
  <2>3. working' = working /\ stored' = Contract!Lost /\ erasing = {}
    BY <1>2, <2>1, <2>2, BlankView DEF Copy, Stored
  <2> QED BY <2>1, <2>2, <2>3 DEF Contract!CommitBegin, stored
<1>4. CASE stage_part(p)
  <2>1. /\ r.at = "erased" /\ UNCHANGED <<stg, off>>
        /\ Moves(pr, p, pr', "part", r.cmd, r.tab, r.base, r.file)
    BY <1>4, PartMoves
  <2>2. /\ working' = Copy("part", r.base, stg', flash') /\ stored' = Stored("part", flash')
        /\ (erasing # {})'
    BY <1>2, <2>1, MoveSees
  <2>3. working' = working /\ stored' = stored /\ erasing # {}
    BY <1>2, <2>1, <2>2 DEF Copy, Stored
  <2> QED BY <2>1, <2>2, <2>3, NothingSeen
<1>5. CASE stage_write(p)
  <2>1. /\ r.at = "part" /\ UNCHANGED <<stg, off>> /\ flash' = r.base
        /\ Moves(pr, p, pr', "unlink", r.cmd, r.tab, r.base, r.file)
    BY <1>5, WriteMoves
  <2>2. /\ working' = Copy("unlink", r.base, stg', flash') /\ stored' = Stored("unlink", flash')
        /\ ~(erasing # {})'
    BY <1>2, <2>1, MoveSees
  <2>3. working' = working /\ stored' = working /\ erasing # {}
    BY <1>2, <2>1, <2>2 DEF Copy, Stored
  <2> QED BY <2>1, <2>2, <2>3 DEF Contract!CommitEnd, stored
<1> QED BY <1>3, <1>4, <1>5

\* The copy that is removed is what flash holds.
LEMMA UnlinkStep ==
    ASSUME Safe, Single, "writeFails" \notin Env, NEW p \in Procs, stage_unlink(p)
    PROVE  UNCHANGED Contract!vars
<1> DEFINE r == pr[p]
<1>1. r.at = "unlink" /\ stg' = None /\ UNCHANGED <<flash, off>>
  BY DEF stage_unlink
<1>2. /\ \A q \in Procs : q # p => pr[q] = Idle
      /\ Owns(r.at, r.cmd, r.tab, r.base, stg, flash)
  BY <1>1, AtWork
<1>3. flash = stg
  BY <1>1, <1>2 DEF Owns
<1>4. \A q \in Procs : pr'[q] = Idle
  BY <1>2 DEF stage_unlink
<1>5. working' = view(flash') /\ stored' = view(flash') /\ erasing' = {}
  BY <1>1, <1>4, IdleSeesNext
<1>6. working = view(flash) /\ stored = view(flash) /\ erasing = {}
  BY <1>1, <1>2, <1>3, AloneSees DEF Copy, Stored
<1> QED BY <1>1, <1>5, <1>6, NothingSeen

\* Power loss while the partition is written leaves a part of the variables, at
\* any other time it takes the working copy.
LEMMA PowerStep ==
    ASSUME Safe, Single, power_loss
    PROVE  Contract!PowerLoss
<1>1. ~off /\ off' = TRUE /\ stg' = None /\ flash' = flash /\ \A q \in Procs : pr'[q] = Idle
  BY DEF power_loss
<1>2. working' = view(flash) /\ stored' = view(flash) /\ erasing' = {}
  BY <1>1, IdleSeesNext
<1>3. erasing = {} => view(flash) = stored
  BY DEF stored
<1>4. ASSUME erasing # {} PROVE Contract!Torn(view(flash), working)
  <2>1. PICK p \in Procs : pr[p].at \in {"erased", "part"}
    BY <1>4 DEF erasing
  <2>2. pr[p].base = stg /\ stg \in Parts /\ working = view(stg)
    BY <2>1, WritingSees
  <2>3. Owns(pr[p].at, pr[p].cmd, pr[p].tab, pr[p].base, stg, flash)
    BY <2>1, AtWork
  <2>4. CASE flash = Blank
    <3>1. DOMAIN view(flash) = {}
      BY <2>4, BlankView
    <3> QED BY <3>1 DEF Contract!Torn
  <2>5. CASE flash # Blank
    <3>1. flash \in torn(stg)
      BY <2>1, <2>2, <2>3, <2>5 DEF Owns
    <3>2. stg \in Sound
      BY <2>2, <2>5, <3>1 DEF Parts, torn
    <3> QED BY <2>2, <2>5, <3>1, <3>2, TornSound
  <2> QED BY <2>4, <2>5
<1> QED BY <1>1, <1>2, <1>3, <1>4 DEF Contract!PowerLoss, stored

LEMMA BootStep ==
    ASSUME boot
    PROVE  Contract!Boot
<1>1. off /\ off' = FALSE /\ UNCHANGED <<flash, stg, pr>>
  BY DEF boot
<1>2. working' = working /\ stored' = stored /\ erasing' = erasing
  BY <1>1 DEF working, stored, changing, erasing
<1> QED BY <1>1, <1>2 DEF Contract!Boot, stored

LEMMA ImplementsStep ==
    ASSUME Safe, Single, "overlap" \notin Env, "writeFails" \notin Env, [Next]_vars
    PROVE  [Contract!Next]_(Contract!vars)
<1>1. CASE UNCHANGED vars
  <2>1. working' = working /\ stored' = stored /\ erasing' = erasing /\ off' = off
    BY <1>1 DEF vars, working, stored, changing, erasing
  <2> QED BY <2>1, NothingSeen
<1>2. CASE power_loss
  BY <1>2, PowerStep DEF Contract!Next
<1>3. CASE boot
  BY <1>3, BootStep DEF Contract!Next
<1>4. ASSUME NEW p \in Procs, main(p) PROVE UNCHANGED Contract!vars
  BY <1>4, MainStep
<1>5. ASSUME NEW p \in Procs, step(p) PROVE [Contract!Next]_(Contract!vars)
  <2>1. CASE stage_erase(p) \/ stage_part(p) \/ stage_write(p)
    BY <2>1, CommitSteps DEF Contract!Next
  <2> QED BY <1>5, <2>1, QuietStaging, QuietSteps, TuplesStep, UnlinkStep DEF step
<1> QED BY <1>1, <1>2, <1>3, <1>4, <1>5 DEF Next

LEMMA ImplementsInit ==
    ASSUME Init
    PROVE  Contract!Init
<1>1. flash \in Sound /\ stg = None /\ \A q \in Procs : pr[q] = Idle
  BY InitSafe
<1>2. off = FALSE
  BY DEF Init
<1>3. working = view(flash) /\ stored = view(flash) /\ erasing = {}
  BY <1>1, IdleSees
<1>4. Full(view(flash))
  BY <1>1, ViewFull
<1>5. view(flash) \in Contract!Maps
  BY <1>4 DEF Full, Contract!Maps
<1> QED BY <1>2, <1>3, <1>5 DEF Contract!Init, stored

\* With one command at a time and a flash that takes what is written to it, nvram
\* does what NvramContract says, for any variables, sizes and hash function, full
\* partition and power loss at any step included: a command has its effect on the
\* working copy at once or not at all, commit makes flash equal to it, a variable
\* disappears unasked only when there is no room, and a write that power loss
\* cuts short leaves some of the variables, one of them at most with a wrong value
\* (main, nvram_commit, nvram_to_staging, staging_to_nvram).
THEOREM NvramImplementsContract ==
    "overlap" \notin Env /\ "writeFails" \notin Env => (Spec => Implements)
<1> SUFFICES ASSUME "overlap" \notin Env, "writeFails" \notin Env PROVE Spec => Implements
  OBVIOUS
<1>1. Spec => [](Safe /\ Single)
  BY AlwaysSingle
<1>2. Init => Contract!Init
  BY ImplementsInit
<1>3. Safe /\ Single /\ [Next]_vars => [Contract!Next]_(Contract!vars)
  BY ImplementsStep
<1> QED BY <1>1, <1>2, <1>3, PTL DEF Spec, Implements, Contract!Spec
=============================================================================
