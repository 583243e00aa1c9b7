------------------------- MODULE PrefixSumTheorems -------------------------
(***************************************************************************)
(* Facts about SumTo for sequences of any length, and the induction they   *)
(* rest on.  Induction is stated over sets of numbers: to show P(n) for    *)
(* every n, one shows that {n \in Nat : P(n)} is closed under successor.   *)
(* A function defined by recursion along a measure is shown to exist, with *)
(* induction along that measure.  Then facts about sequences, and about    *)
(* the operators of TileCache: each keeps the byte count of a cache the    *)
(* sum of its entries, over entries of any kind.                           *)
(***************************************************************************)
EXTENDS TileCache, BlobMoves, WellFoundedInduction, SequenceTheorems, FiniteSetTheorems, TLAPS

\* A nonempty set of natural numbers has a least element.
LEMMA LeastElement ==
  ASSUME NEW T, T \subseteq Nat, T # {}
  PROVE  \E m \in T : \A n \in T : m <= n
<1> DEFINE R == OpToRel(<, Nat)
<1>1. IsWellFoundedOn(R, Nat)
  BY NatLessThanWellFounded
<1>2. \A x, y \in Nat : y < x => <<y, x>> \in R
  BY DEF OpToRel
<1> HIDE DEF R
<1>3. PICK x \in T : \A y \in T : ~ (<<y, x>> \in R)
  BY <1>1, WFMin
<1>4. \A y \in T : ~(y < x)
  BY <1>2, <1>3
<1> QED
  BY <1>4

\* Induction: a set that has 0 and with every number its successor has them all.
LEMMA SetInduction ==
  ASSUME NEW S, 0 \in S, \A n \in Nat : n \in S => n + 1 \in S
  PROVE  \A n \in Nat : n \in S
<1> DEFINE T == Nat \ S
<1> SUFFICES ASSUME T # {} PROVE FALSE
  OBVIOUS
<1>1. PICK m \in T : \A n \in T : m <= n
  <2>1. T \subseteq Nat
    OBVIOUS
  <2> HIDE DEF T
  <2> QED
    BY <2>1, LeastElement
<1>2. m \in Nat \ {0}
  OBVIOUS
<1>3. m - 1 \in Nat /\ m - 1 \notin T
  BY <1>1, <1>2
<1> QED
  BY <1>2, <1>3

-----------------------------------------------------------------------------

\* g is the table of the sums up to n.
Table(w, g, n) == g = [i \in 0..n |-> IF i = 0 THEN 0 ELSE g[i - 1] + w[i]]

\* Every table exists: each is the one before it and one more sum.
LEMMA TableExists == \A w : \A n \in Nat : \E g : Table(w, g, n)
<1> SUFFICES ASSUME NEW w PROVE \A n \in Nat : \E g : Table(w, g, n)
  OBVIOUS
<1> DEFINE S == {n \in Nat : \E g : Table(w, g, n)}
<1>1. 0 \in S
  <2> DEFINE g == [i \in 0..0 |-> 0]
  <2>1. Table(w, g, 0)
    BY DEF Table
  <2> QED
    BY <2>1
<1>2. ASSUME NEW n \in Nat, n \in S PROVE n + 1 \in S
  <2>1. PICK g : Table(w, g, n)
    BY <1>2
  <2> DEFINE h == [i \in 0..(n + 1) |-> IF i = n + 1 THEN g[n] + w[n + 1] ELSE g[i]]
  <2>2. ASSUME NEW i \in 0..(n + 1) PROVE h[i] = IF i = 0 THEN 0 ELSE h[i - 1] + w[i]
    <3>1. CASE i = n + 1
      BY <3>1
    <3>2. CASE i = 0
      BY <2>1, <3>2 DEF Table
    <3>3. CASE i # 0 /\ i # n + 1
      <4>1. i \in 0..n /\ i - 1 \in 0..n /\ i - 1 # n + 1
        BY <3>3
      <4>2. g[i] = g[i - 1] + w[i]
        BY <2>1, <3>3, <4>1 DEF Table
      <4> QED
        BY <3>3, <4>1, <4>2
    <3> QED
      BY <3>1, <3>2, <3>3
  <2>3. h = [i \in 0..(n + 1) |-> h[i]]
    OBVIOUS
  <2> HIDE DEF h
  <2>4. Table(w, h, n + 1)
    BY <2>2, <2>3 DEF Table
  <2> QED
    BY <2>4
<1> HIDE DEF S
<1>3. \A n \in Nat : n \in S
  BY <1>1, <1>2, SetInduction
<1> QED
  BY <1>3 DEF S

\* Two tables agree where both are defined.
LEMMA TablesAgree ==
  ASSUME NEW w, NEW g, NEW h, NEW n \in Nat, NEW m \in Nat, Table(w, g, n), Table(w, h, m)
  PROVE  \A i \in Nat : i <= n /\ i <= m => g[i] = h[i]
<1> DEFINE S == {i \in Nat : i <= n /\ i <= m => g[i] = h[i]}
<1>1. 0 \in S
  BY DEF Table
<1>2. ASSUME NEW i \in Nat, i \in S PROVE i + 1 \in S
  <2> SUFFICES ASSUME i + 1 <= n, i + 1 <= m PROVE g[i + 1] = h[i + 1]
    OBVIOUS
  <2>1. g[i] = h[i] /\ i + 1 \in 0..n /\ i + 1 \in 0..m /\ (i + 1) - 1 = i /\ i + 1 # 0
    BY <1>2
  <2>2. g[i + 1] = g[i] + w[i + 1]
    BY <2>1 DEF Table
  <2>3. h[i + 1] = h[i] + w[i + 1]
    BY <2>1 DEF Table
  <2> QED
    BY <2>1, <2>2, <2>3
<1> HIDE DEF S
<1>3. \A i \in Nat : i \in S
  BY <1>1, <1>2, SetInduction
<1> QED
  BY <1>3 DEF S

\* SumTo is what its recursion says.
LEMMA SumToUnfolds ==
  \A w : /\ SumTo(w, 0) = 0
         /\ \A n \in Nat : SumTo(w, n + 1) = SumTo(w, n) + w[n + 1]
<1> SUFFICES ASSUME NEW w
             PROVE  /\ SumTo(w, 0) = 0
                    /\ \A n \in Nat : SumTo(w, n + 1) = SumTo(w, n) + w[n + 1]
  OBVIOUS
<1> DEFINE T(n) == CHOOSE g : Table(w, g, n)
           f == [n \in Nat |-> T(n)[n]]
           s == CHOOSE s : s = [i \in Nat |-> IF i = 0 THEN 0 ELSE s[i - 1] + w[i]]
<1>1. \A n \in Nat : Table(w, T(n), n)
  BY TableExists
<1>2. ASSUME NEW n \in Nat PROVE f[n] = IF n = 0 THEN 0 ELSE f[n - 1] + w[n]
  <2>1. CASE n = 0
    <3>1. Table(w, T(0), 0)
      BY <1>1
    <3>2. T(0)[0] = 0
      <4> HIDE DEF T
      <4> QED
        BY <3>1 DEF Table
    <3> QED
      BY <2>1, <3>2
  <2>2. CASE n # 0
    <3>1. n - 1 \in Nat /\ Table(w, T(n), n) /\ Table(w, T(n - 1), n - 1)
      BY <1>1, <2>2
    <3> HIDE DEF T
    <3>2. T(n)[n - 1] = T(n - 1)[n - 1]
      BY <3>1, TablesAgree
    <3>3. T(n)[n] = T(n)[n - 1] + w[n]
      BY <2>2, <3>1 DEF Table
    <3> QED
      BY <2>2, <3>1, <3>2, <3>3
  <2> QED
    BY <2>1, <2>2
<1>3. f = [i \in Nat |-> f[i]]
  OBVIOUS
<1> HIDE DEF f, T
<1>4. f = [i \in Nat |-> IF i = 0 THEN 0 ELSE f[i - 1] + w[i]]
  BY <1>2, <1>3
<1>5. s = [i \in Nat |-> IF i = 0 THEN 0 ELSE s[i - 1] + w[i]]
  BY <1>4
<1>6. \A n : SumTo(w, n) = s[n]
  BY DEF SumTo
<1> HIDE DEF s
<1>7. s[0] = 0
  BY <1>5
<1>8. ASSUME NEW n \in Nat PROVE s[n + 1] = s[n] + w[n + 1]
  <2>1. n + 1 \in Nat /\ n + 1 # 0 /\ (n + 1) - 1 = n
    OBVIOUS
  <2>2. s[n + 1] = IF n + 1 = 0 THEN 0 ELSE s[(n + 1) - 1] + w[n + 1]
    BY <1>5, <2>1
  <2> QED
    BY <2>1, <2>2
<1> QED
  BY <1>6, <1>7, <1>8

\* Sums of natural numbers are natural numbers, and grow.
LEMMA SumToNat ==
  ASSUME NEW w, NEW N \in Nat, \A i \in 1..N : w[i] \in Nat
  PROVE  /\ \A n \in 0..N : SumTo(w, n) \in Nat
         /\ \A n \in 1..N : SumTo(w, n) = SumTo(w, n - 1) + w[n]
         /\ \A m, n \in 0..N : m <= n => SumTo(w, m) <= SumTo(w, n)
<1> DEFINE S == {n \in Nat : n <= N => SumTo(w, n) \in Nat}
<1>1. 0 \in S
  BY SumToUnfolds
<1>2. ASSUME NEW n \in Nat, n \in S PROVE n + 1 \in S
  <2> SUFFICES ASSUME n + 1 <= N PROVE SumTo(w, n + 1) \in Nat
    OBVIOUS
  <2>1. SumTo(w, n) \in Nat /\ w[n + 1] \in Nat
    BY <1>2
  <2> QED
    BY <2>1, SumToUnfolds
<1>3. \A n \in Nat : n \in S
  <2> HIDE DEF S
  <2> QED
    BY <1>1, <1>2, SetInduction
<1>4. \A n \in 0..N : SumTo(w, n) \in Nat
  BY <1>3
<1>5. ASSUME NEW n \in 1..N PROVE SumTo(w, n) = SumTo(w, n - 1) + w[n]
  <2>1. n - 1 \in Nat /\ (n - 1) + 1 = n
    OBVIOUS
  <2> QED
    BY <2>1, SumToUnfolds
<1>6. ASSUME NEW m \in 0..N PROVE \A n \in 0..N : m <= n => SumTo(w, m) <= SumTo(w, n)
  <2> DEFINE D == {d \in Nat : m + d <= N => SumTo(w, m) <= SumTo(w, m + d)}
  <2>1. 0 \in D
    BY <1>4
  <2>2. ASSUME NEW d \in Nat, d \in D PROVE d + 1 \in D
    <3> SUFFICES ASSUME m + (d + 1) <= N PROVE SumTo(w, m) <= SumTo(w, m + (d + 1))
      OBVIOUS
    <3>1. m + d \in 0..N /\ m + (d + 1) \in 1..N /\ (m + (d + 1)) - 1 = m + d
      OBVIOUS
    <3>2. SumTo(w, m) <= SumTo(w, m + d)
      BY <2>2, <3>1
    <3>3. SumTo(w, m + (d + 1)) = SumTo(w, m + d) + w[m + (d + 1)]
      BY <1>5, <3>1
    <3>4. SumTo(w, m) \in Nat /\ SumTo(w, m + d) \in Nat /\ w[m + (d + 1)] \in Nat
      BY <1>4, <3>1
    <3> QED
      BY <3>2, <3>3, <3>4
  <2> HIDE DEF D
  <2>3. \A d \in Nat : d \in D
    BY <2>1, <2>2, SetInduction
  <2> SUFFICES ASSUME NEW n \in 0..N, m <= n PROVE SumTo(w, m) <= SumTo(w, n)
    OBVIOUS
  <2>4. n - m \in Nat /\ m + (n - m) = n
    OBVIOUS
  <2>5. n - m \in D
    BY <2>3, <2>4
  <2> QED
    BY <2>4, <2>5 DEF D
<1> QED
  BY <1>4, <1>5, <1>6

\* Sequences that agree on their first numbers have the same first sums.
LEMMA SumToAgree ==
  ASSUME NEW v, NEW w, NEW N \in Nat, \A i \in 1..N : v[i] = w[i]
  PROVE  SumTo(v, N) = SumTo(w, N)
<1> DEFINE S == {k \in Nat : k <= N => SumTo(v, k) = SumTo(w, k)}
<1>1. 0 \in S
  BY SumToUnfolds
<1>2. ASSUME NEW k \in Nat, k \in S PROVE k + 1 \in S
  <2> SUFFICES ASSUME k + 1 <= N PROVE SumTo(v, k + 1) = SumTo(w, k + 1)
    OBVIOUS
  <2>1. SumTo(v, k) = SumTo(w, k) /\ v[k + 1] = w[k + 1]
    BY <1>2
  <2> QED
    BY <2>1, SumToUnfolds
<1> HIDE DEF S
<1>3. \A k \in Nat : k \in S
  BY <1>1, <1>2, SetInduction
<1> QED
  BY <1>3 DEF S

\* Without one of its numbers a sequence sums to that much less.
LEMMA SumToWithout ==
  ASSUME NEW v, NEW w, NEW N \in Nat, NEW p \in 1..N,
         \A i \in 1..N : w[i] \in Nat, \A i \in 1..(N - 1) : v[i] \in Nat,
         \A i \in 1..(p - 1) : v[i] = w[i], \A i \in p..(N - 1) : v[i] = w[i + 1]
  PROVE  SumTo(v, N - 1) = SumTo(w, N) - w[p]
<1> DEFINE S == {k \in Nat : k < N =>
                   SumTo(v, k) = IF k < p THEN SumTo(w, k) ELSE SumTo(w, k + 1) - w[p]}
<1>0. \A n \in 0..N : SumTo(w, n) \in Nat
  BY SumToNat
<1>1. 0 \in S
  BY SumToUnfolds
<1>2. ASSUME NEW k \in Nat, k \in S PROVE k + 1 \in S
  <2> SUFFICES ASSUME k + 1 < N
               PROVE  SumTo(v, k + 1) = IF k + 1 < p THEN SumTo(w, k + 1)
                                        ELSE SumTo(w, (k + 1) + 1) - w[p]
    OBVIOUS
  <2>1. SumTo(v, k) = IF k < p THEN SumTo(w, k) ELSE SumTo(w, k + 1) - w[p]
    BY <1>2
  <2>2. /\ SumTo(v, k + 1) = SumTo(v, k) + v[k + 1]
        /\ SumTo(w, k + 1) = SumTo(w, k) + w[k + 1]
        /\ SumTo(w, (k + 1) + 1) = SumTo(w, k + 1) + w[(k + 1) + 1]
    BY SumToUnfolds
  <2>3. /\ SumTo(w, k) \in Nat /\ SumTo(w, k + 1) \in Nat
        /\ w[k + 1] \in Nat /\ w[(k + 1) + 1] \in Nat /\ w[p] \in Nat
    BY <1>0
  <2>4. CASE k + 1 < p
    <3>1. v[k + 1] = w[k + 1]
      BY <2>4
    <3> QED
      BY <2>1, <2>2, <2>4, <3>1
  <2>5. CASE k + 1 = p
    <3>1. v[k + 1] = w[(k + 1) + 1] /\ k < p /\ ~(k + 1 < p)
      BY <2>5
    <3>2. SumTo(v, k) = SumTo(w, k) /\ w[p] = w[k + 1]
      BY <2>1, <2>5, <3>1
    <3> QED
      BY <2>2, <2>3, <3>1, <3>2
  <2>6. CASE k + 1 > p
    <3>1. v[k + 1] = w[(k + 1) + 1] /\ ~(k < p) /\ ~(k + 1 < p)
      BY <2>6
    <3>2. SumTo(v, k) = SumTo(w, k + 1) - w[p]
      BY <2>1, <3>1
    <3> QED
      BY <2>2, <2>3, <3>1, <3>2
  <2> QED
    BY <2>4, <2>5, <2>6
<1> HIDE DEF S
<1>3. \A k \in Nat : k \in S
  BY <1>1, <1>2, SetInduction
<1>4. N - 1 \in S /\ (N - 1) + 1 = N /\ SumTo(w, N) = SumTo(w, N - 1) + w[N]
  <2>1. SumTo(w, (N - 1) + 1) = SumTo(w, N - 1) + w[(N - 1) + 1]
    BY SumToUnfolds
  <2> QED
    BY <1>3, <2>1
<1>5. SumTo(w, N - 1) \in Nat /\ w[N] \in Nat
  BY <1>0
<1>6. CASE p = N
  BY <1>4, <1>5, <1>6 DEF S
<1>7. CASE p < N
  BY <1>4, <1>7 DEF S
<1> QED
  BY <1>6, <1>7

\* A place below the sum lies in one of the stretches that the numbers cut out.
LEMMA SumToCovers ==
  ASSUME NEW w, NEW N \in Nat, \A i \in 1..N : w[i] \in Nat,
         NEW p \in Nat, p < SumTo(w, N)
  PROVE  \E n \in 1..N : SumTo(w, n - 1) <= p /\ p < SumTo(w, n - 1) + w[n]
<1> DEFINE T == {n \in Nat : n <= N /\ p < SumTo(w, n)}
<1>0. N \in T /\ T \subseteq Nat
  OBVIOUS
<1>1. PICK n \in T : \A k \in T : n <= k
  BY <1>0, LeastElement
<1>2. n # 0
  BY SumToUnfolds
<1>3. n \in 1..N /\ n - 1 \in 0..N /\ n - 1 \notin T
  BY <1>1, <1>2
<1>4. SumTo(w, n - 1) \in Nat /\ SumTo(w, n) = SumTo(w, n - 1) + w[n]
  BY <1>3, SumToNat
<1>5. SumTo(w, n - 1) <= p
  BY <1>3, <1>4
<1> QED
  BY <1>3, <1>4, <1>5

\* The K numbers of v are the last of the N numbers of w, behind the first b.
IsTail(v, w, b, K, N) ==
    /\ b \in Nat /\ K \in Nat /\ N \in Nat /\ N = b + K
    /\ \A i \in 1..K : v[i] \in Nat
    /\ \A i \in 1..N : w[i] \in Nat
    /\ \A i \in 1..K : v[i] = w[b + i]

\* The sum of the end of a sequence.
LEMMA SumToTail ==
  ASSUME NEW v, NEW w, NEW b, NEW K, NEW N, IsTail(v, w, b, K, N)
  PROVE  SumTo(v, K) = SumTo(w, N) - SumTo(w, b)
<1> USE DEF IsTail
<1> DEFINE S == {k \in Nat : k <= K => SumTo(v, k) = SumTo(w, b + k) - SumTo(w, b)}
<1>0. \A n \in 0..(b + K) : SumTo(w, n) \in Nat
  BY SumToNat
<1>1. 0 \in S
  <2>1. b + 0 = b /\ SumTo(w, b) \in Nat /\ SumTo(v, 0) = 0
    BY <1>0, SumToUnfolds
  <2> QED
    BY <2>1
<1>2. ASSUME NEW k \in Nat, k \in S PROVE k + 1 \in S
  <2> SUFFICES ASSUME k + 1 <= K
               PROVE  SumTo(v, k + 1) = SumTo(w, b + (k + 1)) - SumTo(w, b)
    OBVIOUS
  <2>1. SumTo(v, k) = SumTo(w, b + k) - SumTo(w, b)
    BY <1>2
  <2>2. SumTo(v, k + 1) = SumTo(v, k) + v[k + 1]
    BY SumToUnfolds
  <2>3. SumTo(w, (b + k) + 1) = SumTo(w, b + k) + w[(b + k) + 1]
    BY SumToUnfolds
  <2>4. (b + k) + 1 = b + (k + 1) /\ v[k + 1] = w[b + (k + 1)] /\ v[k + 1] \in Nat
    OBVIOUS
  <2>5. SumTo(w, b + k) \in Nat /\ SumTo(w, b) \in Nat
    BY <1>0
  <2>6. SumTo(w, b + (k + 1)) = SumTo(w, b + k) + v[k + 1]
    BY <2>3, <2>4
  <2> QED
    BY <2>1, <2>2, <2>4, <2>5, <2>6
<1> HIDE DEF S
<1>3. K \in S
  BY <1>1, <1>2, SetInduction
<1> QED
  BY <1>3 DEF S

\* N numbers v, of which K in a row, from F on, are those of u, and the others are among
\* the first M of w.
IsPatch(v, w, u, F, K, M, N) ==
    /\ F \in Nat /\ K \in Nat /\ M \in Nat /\ N \in Nat
    /\ \A i \in 1..M : w[i] \in Nat
    /\ \A i \in 1..K : u[i] \in Nat
    /\ \A i \in 1..N : IF i \in F..(F + K - 1) THEN v[i] = u[i - F + 1] ELSE i <= M /\ v[i] = w[i]

\* Their sum.
LEMMA SumToPatch ==
  ASSUME NEW v, NEW w, NEW u, NEW F, NEW K, NEW M, NEW N, IsPatch(v, w, u, F, K, M, N)
  PROVE  SumTo(v, N) <= SumTo(w, M) + SumTo(u, K)
<1> DEFINE A(i) == IF i <= M THEN i ELSE M
           B(i) == IF i < F THEN 0 ELSE IF i < F + K THEN i - F + 1 ELSE K
           a == [i \in 0..N |-> SumTo(w, A(i))]
           b == [i \in 0..N |-> SumTo(u, B(i))]
           S == {i \in Nat : i <= N => SumTo(v, i) \in Nat /\ SumTo(v, i) <= a[i] + b[i]}
<1>1. /\ F \in Nat /\ K \in Nat /\ M \in Nat /\ N \in Nat
      /\ \A i \in 1..M : w[i] \in Nat
      /\ \A i \in 1..K : u[i] \in Nat
      /\ \A i \in 1..N : IF i \in F..(F + K - 1) THEN v[i] = u[i - F + 1] ELSE i <= M /\ v[i] = w[i]
  BY DEF IsPatch
<1>2. /\ \A n \in 0..M : SumTo(w, n) \in Nat
      /\ \A n \in 1..M : SumTo(w, n) = SumTo(w, n - 1) + w[n]
      /\ \A m, n \in 0..M : m <= n => SumTo(w, m) <= SumTo(w, n)
  BY <1>1, SumToNat
<1>3. /\ \A n \in 0..K : SumTo(u, n) \in Nat
      /\ \A n \in 1..K : SumTo(u, n) = SumTo(u, n - 1) + u[n]
      /\ \A m, n \in 0..K : m <= n => SumTo(u, m) <= SumTo(u, n)
  BY <1>1, SumToNat
<1>4. \A i \in 0..N : A(i) \in 0..M /\ B(i) \in 0..K
  BY <1>1
<1>5. \A i \in 0..N : a[i] = SumTo(w, A(i)) /\ b[i] = SumTo(u, B(i)) /\ a[i] \in Nat /\ b[i] \in Nat
  <2> HIDE DEF A, B
  <2> QED
    BY <1>2, <1>3, <1>4
<1> HIDE DEF a, b
<1>6. 0 \in S
  <2>1. SumTo(v, 0) = 0 /\ 0 \in 0..N
    BY <1>1, SumToUnfolds
  <2>2. a[0] \in Nat /\ b[0] \in Nat
    BY <1>5, <2>1
  <2> QED
    BY <2>1, <2>2
<1>7. ASSUME NEW i \in Nat, i \in S PROVE i + 1 \in S
  <2> SUFFICES ASSUME i + 1 <= N
               PROVE  SumTo(v, i + 1) \in Nat /\ SumTo(v, i + 1) <= a[i + 1] + b[i + 1]
    OBVIOUS
  <2>1. i \in 0..N /\ i + 1 \in 0..N /\ i + 1 \in 1..N
    BY <1>1
  <2>2. SumTo(v, i) \in Nat /\ SumTo(v, i) <= a[i] + b[i]
    BY <1>1, <1>7
  <2>3. SumTo(v, i + 1) = SumTo(v, i) + v[i + 1]
    BY SumToUnfolds
  <2>4. a[i] \in Nat /\ b[i] \in Nat /\ a[i + 1] \in Nat /\ b[i + 1] \in Nat
    BY <1>5, <2>1
  <2>5. a[i] <= a[i + 1] /\ b[i] <= b[i + 1]
    <3>1. A(i) <= A(i + 1) /\ B(i) <= B(i + 1)
      BY <1>1, <2>1
    <3> HIDE DEF A, B
    <3> QED
      BY <1>2, <1>3, <1>4, <1>5, <2>1, <3>1
  <2>6. \/ v[i + 1] \in Nat /\ a[i + 1] = a[i] + v[i + 1]
        \/ v[i + 1] \in Nat /\ b[i + 1] = b[i] + v[i + 1]
    <3>1. CASE i + 1 \in F..(F + K - 1)
      <4>1. /\ B(i + 1) = (i + 1) - F + 1 /\ B(i) = B(i + 1) - 1 /\ B(i + 1) \in 1..K
        BY <1>1, <2>1, <3>1
      <4>2. v[i + 1] = u[(i + 1) - F + 1]
        BY <1>1, <2>1, <3>1
      <4> HIDE DEF B
      <4>3. SumTo(u, B(i + 1)) = SumTo(u, B(i)) + u[B(i + 1)] /\ u[B(i + 1)] \in Nat
        BY <1>1, <1>3, <4>1
      <4> QED
        BY <1>5, <2>1, <4>1, <4>2, <4>3
    <3>2. CASE ~(i + 1 \in F..(F + K - 1))
      <4>1. i + 1 <= M /\ v[i + 1] = w[i + 1]
        BY <1>1, <2>1, <3>2
      <4>2. A(i + 1) = i + 1 /\ A(i) = i /\ i + 1 \in 1..M /\ (i + 1) - 1 = i
        BY <1>1, <4>1
      <4> HIDE DEF A
      <4>3. SumTo(w, i + 1) = SumTo(w, i) + w[i + 1] /\ w[i + 1] \in Nat
        BY <1>1, <1>2, <4>2
      <4> QED
        BY <1>5, <2>1, <4>1, <4>2, <4>3
    <3> QED
      BY <3>1, <3>2
  <2> QED
    BY <2>2, <2>3, <2>4, <2>5, <2>6
<1> HIDE DEF S
<1>8. N \in S
  BY <1>1, <1>6, <1>7, SetInduction
<1>9. SumTo(v, N) \in Nat /\ SumTo(v, N) <= a[N] + b[N]
  BY <1>1, <1>8 DEF S
<1>10. a[N] <= SumTo(w, M) /\ b[N] <= SumTo(u, K) /\ a[N] \in Nat /\ b[N] \in Nat
  <2>1. N \in 0..N /\ M \in 0..M /\ K \in 0..K /\ A(N) <= M /\ B(N) <= K /\ A(N) \in 0..M /\ B(N) \in 0..K
    BY <1>1
  <2> HIDE DEF A, B
  <2> QED
    BY <1>2, <1>3, <1>5, <2>1
<1>11. SumTo(w, M) \in Nat /\ SumTo(u, K) \in Nat
  <2>1. M \in 0..M /\ K \in 0..K
    BY <1>1
  <2> QED
    BY <1>2, <1>3, <2>1
<1> QED
  BY <1>9, <1>10, <1>11
-----------------------------------------------------------------------------
(* First and last places.                                                  *)

LEMMA MinIs ==
  ASSUME NEW T, T \subseteq Nat, T # {}
  PROVE  Min(T) \in T /\ \A n \in T : Min(T) <= n
<1>1. \E m \in T : \A n \in T : m =< n
  BY LeastElement
<1> QED
  BY <1>1 DEF Min

LEMMA GreatestElement ==
  ASSUME NEW N \in Nat, NEW T, T \subseteq 0..N, T # {}
  PROVE  \E m \in T : \A n \in T : n <= m
<1> DEFINE U == {i \in Nat : N - i \in T}
<1>1. U # {} /\ U \subseteq Nat
  <2>1. PICK t \in T : TRUE
    OBVIOUS
  <2>2. N - t \in Nat /\ N - (N - t) = t
    BY <2>1
  <2>3. N - t \in U
    BY <2>1, <2>2
  <2> QED
    BY <2>3
<1>2. \A t \in T : t \in Int /\ N - t \in U
  OBVIOUS
<1>3. \A u \in U : u \in Nat /\ N - u \in T
  OBVIOUS
<1> HIDE DEF U
<1>4. PICK u \in U : \A v \in U : u <= v
  BY <1>1, LeastElement
<1>5. ASSUME NEW n \in T PROVE n <= N - u
  <2>1. u <= N - n /\ n \in Int /\ u \in Nat
    BY <1>2, <1>3, <1>4
  <2> QED
    BY <2>1
<1> QED
  BY <1>3, <1>5

LEMMA MaxIs ==
  ASSUME NEW N \in Nat, NEW T, T \subseteq 0..N, T # {}
  PROVE  Max(T) \in T /\ \A n \in T : n <= Max(T)
<1>1. \E m \in T : \A n \in T : m >= n
  <2>1. PICK m \in T : \A n \in T : n <= m
    BY GreatestElement
  <2>2. \A n \in T : m \in Int /\ n \in Int
    OBVIOUS
  <2> QED
    BY <2>1, <2>2
<1>2. Max(T) \in T /\ \A n \in T : Max(T) >= n
  BY <1>1 DEF Max
<1>3. \A n \in T : n \in Int
  OBVIOUS
<1> QED
  BY <1>2, <1>3

-----------------------------------------------------------------------------

\* Recursive definitions: step gives the value at x from a table of the
\* values at the places of smaller measure, and looks at no others.
IsRecursion(D, R, measure, step) ==
  /\ R # {}
  /\ measure \in [D -> Nat]
  /\ step \in [D \X [D -> R] -> R]
  /\ \A x \in D : \A g, h \in [D -> R] :
       (\A y \in D : measure[y] < measure[x] => g[y] = h[y])
         => step[<<x, g>>] = step[<<x, h>>]

\* g is right at the places of measure less than n.
RightBelow(D, R, measure, step, g, n) ==
  g \in [D -> R] /\ \A x \in D : measure[x] < n => g[x] = step[<<x, g>>]

LEMMA RightBelowExists ==
  ASSUME NEW D, NEW R, NEW measure, NEW step, IsRecursion(D, R, measure, step)
  PROVE  \A n \in Nat : \E g : RightBelow(D, R, measure, step, g, n)
<1> USE DEF IsRecursion, RightBelow
<1> DEFINE S == {n \in Nat : \E g : RightBelow(D, R, measure, step, g, n)}
<1>1. 0 \in S
  <2>1. PICK r : r \in R
    OBVIOUS
  <2>2. [x \in D |-> r] \in [D -> R]
    BY <2>1
  <2>3. \A x \in D : ~(measure[x] < 0)
    OBVIOUS
  <2> QED
    BY <2>2, <2>3
<1>2. ASSUME NEW n \in Nat, n \in S PROVE n + 1 \in S
  <2>1. PICK g : RightBelow(D, R, measure, step, g, n)
    BY <1>2
  <2> DEFINE h == [x \in D |-> step[<<x, g>>]]
  <2>2. h \in [D -> R] /\ \A x \in D : h[x] = step[<<x, g>>]
    BY <2>1
  <2> HIDE DEF h
  <2>3. ASSUME NEW x \in D, measure[x] < n + 1 PROVE h[x] = step[<<x, h>>]
    <3>1. ASSUME NEW y \in D, measure[y] < measure[x] PROVE h[y] = g[y]
      <4>1. measure[y] < n
        BY <2>3, <3>1
      <4> QED
        BY <4>1, <2>1, <2>2
    <3>2. step[<<x, h>>] = step[<<x, g>>]
      BY <3>1, <2>1, <2>2
    <3> QED
      BY <2>2, <3>2
  <2>4. RightBelow(D, R, measure, step, h, n + 1)
    BY <2>2, <2>3
  <2> QED
    BY <2>4
<1> HIDE DEF S
<1>3. \A n \in Nat : n \in S
  BY <1>1, <1>2, SetInduction
<1> QED
  BY <1>3 DEF S

LEMMA RightBelowAgree ==
  ASSUME NEW D, NEW R, NEW measure, NEW step, IsRecursion(D, R, measure, step),
         NEW g, NEW h, NEW n \in Nat, NEW k \in Nat,
         RightBelow(D, R, measure, step, g, n), RightBelow(D, R, measure, step, h, k)
  PROVE  \A x \in D : measure[x] < n /\ measure[x] < k => g[x] = h[x]
<1> USE DEF IsRecursion, RightBelow
<1> DEFINE Same(x) == measure[x] < n /\ measure[x] < k => g[x] = h[x]
           S == {i \in Nat : \A x \in D : measure[x] < i => Same(x)}
<1>1. 0 \in S
  OBVIOUS
<1>2. ASSUME NEW i \in Nat, i \in S PROVE i + 1 \in S
  <2> SUFFICES ASSUME NEW x \in D, measure[x] < i + 1, measure[x] < n, measure[x] < k
               PROVE  g[x] = h[x]
    OBVIOUS
  <2>1. ASSUME NEW y \in D, measure[y] < measure[x] PROVE g[y] = h[y]
    <3>1. measure[y] < i /\ measure[y] < n /\ measure[y] < k
      BY <2>1
    <3> QED
      BY <3>1, <1>2
  <2>2. step[<<x, g>>] = step[<<x, h>>]
    BY <2>1
  <2> QED
    BY <2>2
<1>3. \A i \in Nat : i \in S
  <2> HIDE DEF S
  <2> QED
    BY <1>1, <1>2, SetInduction
<1> SUFFICES ASSUME NEW x \in D PROVE Same(x)
  OBVIOUS
<1>4. measure[x] + 1 \in S /\ measure[x] < measure[x] + 1
  BY <1>3
<1> QED
  BY <1>4

\* A recursion has a solution.
LEMMA RecursionExists ==
  ASSUME NEW D, NEW R, NEW measure, NEW step, IsRecursion(D, R, measure, step)
  PROVE  \E f \in [D -> R] : \A x \in D : f[x] = step[<<x, f>>]
<1> DEFINE G(n) == CHOOSE g : RightBelow(D, R, measure, step, g, n)
           f == [x \in D |-> G(measure[x] + 1)[x]]
<1>1. \A n \in Nat : RightBelow(D, R, measure, step, G(n), n)
  BY RightBelowExists
<1>2. \A x \in D : measure[x] \in Nat /\ measure[x] + 1 \in Nat /\ measure[x] < measure[x] + 1
  BY DEF IsRecursion
<1> HIDE DEF G
<1>3. f \in [D -> R]
  BY <1>1, <1>2 DEF RightBelow
<1>4. \A x \in D : f[x] = G(measure[x] + 1)[x]
  OBVIOUS
<1> HIDE DEF f
<1>5. ASSUME NEW x \in D PROVE f[x] = step[<<x, f>>]
  <2> DEFINE g == G(measure[x] + 1)
  <2>1. RightBelow(D, R, measure, step, g, measure[x] + 1)
    BY <1>1, <1>2
  <2>2. g \in [D -> R] /\ g[x] = step[<<x, g>>]
    <3> HIDE DEF g
    <3> QED
      BY <2>1, <1>2 DEF RightBelow
  <2>3. ASSUME NEW y \in D, measure[y] < measure[x] PROVE f[y] = g[y]
    <3> HIDE DEF g
    <3> DEFINE h == G(measure[y] + 1)
    <3>1. RightBelow(D, R, measure, step, h, measure[y] + 1)
      BY <1>1, <1>2
    <3>2. f[y] = h[y]
      BY <1>4
    <3> HIDE DEF h
    <3>3. measure[y] < measure[y] + 1 /\ measure[y] < measure[x] + 1
      BY <1>2, <2>3
    <3> QED
      BY <3>1, <3>2, <3>3, <2>1, <1>2, RightBelowAgree
  <2>4. f[x] = g[x]
    BY <1>4
  <2> HIDE DEF g
  <2>5. step[<<x, f>>] = step[<<x, g>>]
    BY <1>3, <2>2, <2>3 DEF IsRecursion
  <2> QED
    BY <2>2, <2>4, <2>5
<1> QED
  BY <1>3, <1>5

\* Induction over a measure.
LEMMA MeasureInduction ==
  ASSUME NEW D, NEW measure \in [D -> Nat], NEW S,
         \A x \in D : (\A y \in D : measure[y] < measure[x] => y \in S) => x \in S
  PROVE  \A x \in D : x \in S
<1> DEFINE T == {n \in Nat : \A x \in D : measure[x] < n => x \in S}
<1>1. 0 \in T
  OBVIOUS
<1>2. ASSUME NEW n \in Nat, n \in T PROVE n + 1 \in T
  <2> SUFFICES ASSUME NEW x \in D, measure[x] < n + 1 PROVE x \in S
    OBVIOUS
  <2>1. ASSUME NEW y \in D, measure[y] < measure[x] PROVE y \in S
    <3>1. measure[y] < n
      BY <2>1
    <3> QED
      BY <3>1, <1>2
  <2> QED
    BY <2>1
<1>3. \A n \in Nat : n \in T
  <2> HIDE DEF T
  <2> QED
    BY <1>1, <1>2, SetInduction
<1> SUFFICES ASSUME NEW x \in D PROVE x \in S
  OBVIOUS
<1>4. measure[x] + 1 \in T /\ measure[x] < measure[x] + 1
  BY <1>3
<1> QED
  BY <1>4

-----------------------------------------------------------------------------
(* Sequences.                                                              *)

\* A part of a sequence, be it empty.
LEMMA SubSeqTyped ==
  ASSUME NEW T, NEW s \in Seq(T), NEW m \in Nat \ {0}, NEW n \in Int, n <= Len(s)
  PROVE  /\ SubSeq(s, m, n) \in Seq(T)
         /\ Len(SubSeq(s, m, n)) = IF m <= n THEN n - m + 1 ELSE 0
         /\ \A i \in 1..(n - m + 1) : SubSeq(s, m, n)[i] = s[m + i - 1]
<1>1. CASE m <= n
  BY <1>1
<1>2. CASE ~(m <= n)
  <2>1. SubSeq(s, m, n) = <<>>
    BY <1>2
  <2> QED
    BY <2>1, <1>2
<1> QED
  BY <1>1, <1>2

LEMMA ConcatTyped ==
  ASSUME NEW T, NEW s \in Seq(T), NEW t \in Seq(T)
  PROVE  /\ s \o t \in Seq(T)
         /\ Len(s \o t) = Len(s) + Len(t)
         /\ \A i \in 1..Len(s) : (s \o t)[i] = s[i]
         /\ \A i \in (Len(s) + 1)..(Len(s) + Len(t)) : (s \o t)[i] = t[i - Len(s)]
OBVIOUS

LEMMA ConcatNonEmpty ==
  ASSUME NEW T, NEW s \in Seq(T), NEW t \in Seq(T), t # <<>>
  PROVE  s \o t # <<>>
<1>1. Len(s \o t) = Len(s) + Len(t) /\ Len(t) # 0 /\ Len(s) \in Nat /\ Len(t) \in Nat
  OBVIOUS
<1>2. Len(s \o t) # 0
  BY <1>1
<1> QED
  BY <1>2

\* FlattenSeq unfolds from the left.
LEMMA FlattenSeqUnfolds ==
  ASSUME NEW T, NEW ss \in Seq(Seq(T))
  PROVE  \E f \in [0..Len(ss) -> Seq(T)] :
           /\ f[0] = <<>>
           /\ \A i \in 1..Len(ss) : f[i] = f[i - 1] \o ss[i]
           /\ FlattenSeq(ss) = f[Len(ss)]
<1> DEFINE R == Seq(T)
           N == Len(ss)
           D == 1..N
<1>0. /\ N \in Nat /\ \A i \in D : ss[i] \in R
      /\ <<>> \in R /\ \A a, b \in R : a \o b \in R /\ <<>> \o a = a
  <2>1. N \in Nat
    OBVIOUS
  <2>2. \A i \in D : ss[i] \in R
    BY ElementOfSeq
  <2>3. \A a, b \in R : a \o b \in R /\ <<>> \o a = a
    OBVIOUS
  <2> QED
    BY <2>1, <2>2, <2>3
<1>a. FlattenSeq(ss) = IF N = 0 THEN <<>> ELSE
        (CHOOSE flatten : flatten = [i \in D |-> IF i = 1 THEN ss[i] ELSE flatten[i - 1] \o ss[i]])[N]
  <2>1. N = 0 => ss = <<>>
    OBVIOUS
  <2> QED
    BY <2>1 DEF FlattenSeq
<1> HIDE DEF R, N
<1>1. CASE N = 0
  <2>1. FlattenSeq(ss) = <<>>
    BY <1>1, <1>a
  <2> DEFINE f == [i \in 0..N |-> <<>>]
  <2>2. f \in [0..N -> R] /\ f[0] = <<>> /\ f[N] = <<>>
    BY <1>0, <1>1
  <2>3. \A i \in D : FALSE
    BY <1>1
  <2> QED
    BY <2>1, <2>2, <2>3 DEF N, R
<1>2. CASE N # 0
  <2> DEFINE measure == [i \in D |-> i]
             step == [p \in D \X [D -> R] |-> IF p[1] = 1 THEN ss[p[1]] ELSE p[2][p[1] - 1] \o ss[p[1]]]
             flatten == CHOOSE flatten : flatten = [i \in D |-> IF i = 1 THEN ss[i] ELSE flatten[i - 1] \o ss[i]]
  <2>1. \A i \in D : \A g \in [D -> R] :
          step[<<i, g>>] = IF i = 1 THEN ss[i] ELSE g[i - 1] \o ss[i]
    <3> HIDE DEF D
    <3> QED
      OBVIOUS
  <2>0. \A i \in D : measure[i] = i /\ i \in Nat /\ (i # 1 => i - 1 \in D /\ i - 1 < i)
    BY <1>0
  <2> HIDE DEF D
  <2>2. step \in [D \X [D -> R] -> R]
    <3>1. ASSUME NEW i \in D, NEW g \in [D -> R]
          PROVE  (IF i = 1 THEN ss[i] ELSE g[i - 1] \o ss[i]) \in R
      <4>1. ss[i] \in R /\ (i # 1 => g[i - 1] \in R)
        BY <1>0, <2>0
      <4> QED
        BY <4>1, <1>0
    <3> QED
      BY <3>1
  <2>3. IsRecursion(D, R, measure, step)
    <3>1. R # {} /\ measure \in [D -> Nat]
      BY <1>0, <2>0
    <3>2. ASSUME NEW x \in D, NEW g \in [D -> R], NEW h \in [D -> R],
                 \A y \in D : measure[y] < measure[x] => g[y] = h[y]
          PROVE  step[<<x, g>>] = step[<<x, h>>]
      <4>1. x # 1 => g[x - 1] = h[x - 1]
        BY <3>2, <2>0
      <4> HIDE DEF step
      <4>2. /\ step[<<x, g>>] = IF x = 1 THEN ss[x] ELSE g[x - 1] \o ss[x]
            /\ step[<<x, h>>] = IF x = 1 THEN ss[x] ELSE h[x - 1] \o ss[x]
        BY <2>1
      <4> QED
        BY <4>1, <4>2, Zenon
    <3> HIDE DEF step, measure
    <3> QED
      BY <3>1, <3>2, <2>2 DEF IsRecursion
  <2>4. PICK f \in [D -> R] : \A x \in D : f[x] = step[<<x, f>>]
    <3> HIDE DEF step, measure
    <3> QED
      BY <2>3, RecursionExists
  <2>5. f = [i \in D |-> IF i = 1 THEN ss[i] ELSE f[i - 1] \o ss[i]]
    <3> HIDE DEF step
    <3>1. \A x \in D : f[x] = IF x = 1 THEN ss[x] ELSE f[x - 1] \o ss[x]
      BY <2>1, <2>4
    <3> QED
      BY <3>1
  <2>6. flatten = [i \in D |-> IF i = 1 THEN ss[i] ELSE flatten[i - 1] \o ss[i]]
    BY <2>5
  <2>7. FlattenSeq(ss) = flatten[N]
    BY <1>2, <1>a
  <2> HIDE DEF flatten, step, measure
  <2>b. \A i \in D : flatten[i] = IF i = 1 THEN ss[i] ELSE flatten[i - 1] \o ss[i]
    BY <2>6
  <2> DEFINE S == {n \in Nat : n + 1 \in D => flatten[n + 1] \in R}
  <2>8. 0 \in S
    <3>1. 0 + 1 = 1
      OBVIOUS
    <3>2. 1 \in D => flatten[1] = ss[1] /\ ss[1] \in R
      BY <2>b, <1>0
    <3> QED
      BY <3>1, <3>2
  <2>9. ASSUME NEW n \in Nat, n \in S PROVE n + 1 \in S
    <3> SUFFICES ASSUME (n + 1) + 1 \in D PROVE flatten[(n + 1) + 1] \in R
      OBVIOUS
    <3> DEFINE j == (n + 1) + 1
    <3>1. j \in D /\ j # 1 /\ j - 1 = n + 1 /\ n + 1 \in D
      <4>1. j # 1 /\ j - 1 = n + 1
        OBVIOUS
      <4> QED
        BY <4>1, <2>0
    <3>2. flatten[n + 1] \in R /\ ss[j] \in R
      BY <2>9, <3>1, <1>0
    <3> HIDE DEF j
    <3>3. flatten[j] = flatten[n + 1] \o ss[j]
      BY <2>b, <3>1
    <3>4. flatten[j] \in R
      BY <3>2, <3>3, <1>0
    <3> QED
      BY <3>4 DEF j
  <2>10. \A n \in Nat : n \in S
    <3> HIDE DEF S
    <3> QED
      BY <2>8, <2>9, SetInduction
  <2>11. \A i \in D : flatten[i] \in R
    <3> SUFFICES ASSUME NEW i \in D PROVE flatten[i] \in R
      OBVIOUS
    <3>1. i - 1 \in Nat /\ (i - 1) + 1 = i
      BY <1>0 DEF D
    <3> QED
      BY <3>1, <2>10
  <2> DEFINE h == [i \in 0..N |-> IF i = 0 THEN <<>> ELSE flatten[i]]
  <2>12. h \in [0..N -> R]
    BY <2>11, <1>0 DEF D
  <2>13. h[0] = <<>> /\ \A i \in D : h[i] = flatten[i]
    BY <1>0 DEF D
  <2> HIDE DEF h
  <2>14. ASSUME NEW i \in D PROVE h[i] = h[i - 1] \o ss[i]
    <3>1. CASE i = 1
      <4>1. h[i] = ss[i] /\ h[i - 1] = <<>> /\ ss[i] \in R
        BY <3>1, <2>b, <2>13, <1>0
      <4> QED
        BY <4>1, <1>0
    <3>2. CASE i # 1
      <4>1. i - 1 \in D /\ flatten[i] = flatten[i - 1] \o ss[i]
        BY <3>2, <2>b, <2>0
      <4> QED
        BY <4>1, <2>13
    <3> QED
      BY <3>1, <3>2
  <2>15. FlattenSeq(ss) = h[N]
    BY <2>7, <2>13, <1>2, <1>0 DEF D
  <2> QED
    BY <2>12, <2>13, <2>14, <2>15 DEF N, R, D
<1> QED
  BY <1>1, <1>2

\* What is joined is of the same kind, and not empty if its last part is not.
LEMMA FlattenSeqTyped ==
  ASSUME NEW T, NEW ss \in Seq(Seq(T))
  PROVE  /\ FlattenSeq(ss) \in Seq(T)
         /\ ss # <<>> /\ ss[Len(ss)] # <<>> => FlattenSeq(ss) # <<>>
<1>1. PICK f \in [0..Len(ss) -> Seq(T)] :
           /\ f[0] = <<>>
           /\ \A i \in 1..Len(ss) : f[i] = f[i - 1] \o ss[i]
           /\ FlattenSeq(ss) = f[Len(ss)]
  BY FlattenSeqUnfolds
<1>2. Len(ss) \in 0..Len(ss)
  OBVIOUS
<1>3. FlattenSeq(ss) \in Seq(T)
  BY <1>1, <1>2
<1>4. ASSUME ss # <<>>, ss[Len(ss)] # <<>> PROVE FlattenSeq(ss) # <<>>
  <2> DEFINE n == Len(ss)
  <2>1. n \in 1..n /\ n - 1 \in 0..n
    BY <1>4
  <2>2. ss[n] \in Seq(T)
    BY <2>1, ElementOfSeq
  <2> HIDE DEF n
  <2>3. f[n] = f[n - 1] \o ss[n] /\ f[n - 1] \in Seq(T)
    BY <1>1, <2>1 DEF n
  <2>6. f[n] # <<>>
    BY <2>2, <2>3, <1>4, ConcatNonEmpty DEF n
  <2> QED
    BY <2>6, <1>1 DEF n
<1> QED
  BY <1>3, <1>4

-----------------------------------------------------------------------------
(* The cache as a sequence of entries with sizes.                          *)

Sized(E) == \A e \in E : e.size \in Nat
Caches(E) == [lru : Seq(E), cur : Nat, cap : Nat]

Sizes(s) == [i \in DOMAIN s |-> s[i].size]
Total(s) == SumTo(Sizes(s), Len(s))
Apart(s) == \A i, j \in DOMAIN s : s[i].key = s[j].key => i = j

\* The sums over the entries of a cache.
LEMMA SizesFacts ==
  ASSUME NEW E, Sized(E), NEW s \in Seq(E)
  PROVE  /\ Len(s) \in Nat /\ DOMAIN s = 1..Len(s)
         /\ \A i \in 1..Len(s) : s[i] \in E /\ Sizes(s)[i] = s[i].size /\ Sizes(s)[i] \in Nat
         /\ \A n \in 0..Len(s) : SumTo(Sizes(s), n) \in Nat /\ SumTo(Sizes(s), n) <= Total(s)
         /\ SumTo(Sizes(s), 0) = 0
<1>1. Len(s) \in Nat /\ DOMAIN s = 1..Len(s)
  OBVIOUS
<1>2. \A i \in 1..Len(s) : s[i] \in E /\ Sizes(s)[i] = s[i].size /\ Sizes(s)[i] \in Nat
  BY <1>1 DEF Sizes, Sized
<1>3. Len(s) \in 0..Len(s) /\ \A n \in 0..Len(s) : n <= Len(s)
  BY <1>1
<1>4. \A n \in 0..Len(s) : SumTo(Sizes(s), n) \in Nat /\ SumTo(Sizes(s), n) <= Total(s)
  BY <1>1, <1>2, <1>3, SumToNat DEF Total
<1> QED
  BY <1>1, <1>2, <1>4, SumToUnfolds

\* Dropping the first n entries.
LEMMA DropFirst ==
  ASSUME NEW E, Sized(E), NEW s \in Seq(E), NEW n \in 0..Len(s)
  PROVE  /\ SubSeq(s, n + 1, Len(s)) \in Seq(E)
         /\ Total(SubSeq(s, n + 1, Len(s))) = Total(s) - SumTo(Sizes(s), n)
         /\ Apart(s) => Apart(SubSeq(s, n + 1, Len(s)))
<1> DEFINE d == SubSeq(s, n + 1, Len(s))
<1>0. Len(s) \in Nat /\ n \in Nat /\ Len(s) - n \in Nat
  OBVIOUS
<1>1. d \in Seq(E) /\ Len(d) = Len(s) - n /\ \A i \in 1..(Len(s) - n) : d[i] = s[n + i]
  <2>1. \A i \in (n + 1)..Len(s) : s[i] \in E
    OBVIOUS
  <2>2. /\ d \in Seq(E)
        /\ Len(d) = IF n + 1 <= Len(s) THEN Len(s) - (n + 1) + 1 ELSE 0
        /\ \A i \in 1..(Len(s) - (n + 1) + 1) : d[i] = s[(n + 1) + i - 1]
    BY <1>0, <2>1, SubSeqProperties
  <2> QED
    BY <1>0, <2>2
<1> HIDE DEF d
<1>2. /\ \A i \in 1..Len(d) : Sizes(d)[i] = d[i].size /\ Sizes(d)[i] \in Nat
      /\ \A i \in 1..Len(s) : Sizes(s)[i] = s[i].size /\ Sizes(s)[i] \in Nat
  BY <1>1, SizesFacts
<1>3. SumTo(Sizes(d), Len(d)) = SumTo(Sizes(s), Len(s)) - SumTo(Sizes(s), n)
  <2> DEFINE v == Sizes(d)
             w == Sizes(s)
             K == Len(d)
             N == Len(s)
  <2>1. /\ K \in Nat /\ n \in Nat /\ N \in Nat /\ N = n + K
        /\ \A i \in 1..K : v[i] \in Nat
        /\ \A i \in 1..N : w[i] \in Nat
    BY <1>0, <1>1, <1>2
  <2>2. ASSUME NEW i \in 1..K PROVE v[i] = w[n + i]
    <3>1. i \in 1..Len(d) /\ n + i \in 1..Len(s) /\ d[i] = s[n + i]
      BY <1>0, <1>1
    <3> QED
      BY <1>2, <3>1
  <2> HIDE DEF v, w, K, N
  <2>3. SumTo(v, K) = SumTo(w, N) - SumTo(w, n)
    <3>1. IsTail(v, w, n, K, N)
      BY <2>1, <2>2 DEF IsTail
    <3> QED
      BY <3>1, SumToTail
  <2> QED
    BY <2>3 DEF v, w, K, N
<1>4. Total(d) = Total(s) - SumTo(Sizes(s), n)
  BY <1>3 DEF Total
<1>5. Apart(s) => Apart(d)
  <2> SUFFICES ASSUME Apart(s), NEW i \in DOMAIN d, NEW j \in DOMAIN d, d[i].key = d[j].key
               PROVE  i = j
    BY DEF Apart
  <2>1. /\ i \in 1..(Len(s) - n) /\ j \in 1..(Len(s) - n)
        /\ n + i \in DOMAIN s /\ n + j \in DOMAIN s
    BY <1>0, <1>1
  <2>2. n + i = n + j
    BY <1>1, <2>1 DEF Apart
  <2> QED
    BY <1>0, <2>1, <2>2
<1> QED
  BY <1>1, <1>4, <1>5 DEF d

\* Taking one entry out.
LEMMA TakeOut ==
  ASSUME NEW E, Sized(E), NEW s \in Seq(E), NEW p \in DOMAIN s
  PROVE  /\ RemoveAt(s, p) \in Seq(E)
         /\ Total(RemoveAt(s, p)) = Total(s) - s[p].size
         /\ \A i \in DOMAIN RemoveAt(s, p) :
              \E k \in DOMAIN s : k # p /\ RemoveAt(s, p)[i] = s[k]
         /\ Apart(s) => Apart(RemoveAt(s, p))
<1> DEFINE a == SubSeq(s, 1, p - 1)
           b == SubSeq(s, p + 1, Len(s))
           d == RemoveAt(s, p)
<1>0. Len(s) \in Nat /\ p \in 1..Len(s) /\ \A i \in 1..Len(s) : s[i] \in E
  OBVIOUS
<1>1. a \in Seq(E) /\ Len(a) = p - 1 /\ \A i \in 1..(p - 1) : a[i] = s[i]
  <2>1. /\ a \in Seq(E) /\ Len(a) = IF 1 <= p - 1 THEN (p - 1) - 1 + 1 ELSE 0
        /\ \A i \in 1..((p - 1) - 1 + 1) : a[i] = s[1 + i - 1]
    BY <1>0, SubSeqProperties
  <2> QED
    BY <1>0, <2>1
<1>2. b \in Seq(E) /\ Len(b) = Len(s) - p /\ \A i \in 1..(Len(s) - p) : b[i] = s[p + i]
  <2>1. /\ b \in Seq(E) /\ Len(b) = IF p + 1 <= Len(s) THEN Len(s) - (p + 1) + 1 ELSE 0
        /\ \A i \in 1..(Len(s) - (p + 1) + 1) : b[i] = s[(p + 1) + i - 1]
    BY <1>0, SubSeqProperties
  <2> QED
    BY <1>0, <2>1
<1>3. d = a \o b
  BY DEF RemoveAt
<1> HIDE DEF a, b, d
<1>4. /\ d \in Seq(E) /\ Len(d) = Len(s) - 1
      /\ \A i \in 1..(Len(s) - 1) : d[i] = IF i < p THEN s[i] ELSE s[i + 1]
  <2>1. /\ d \in Seq(E) /\ Len(d) = Len(a) + Len(b)
        /\ \A i \in 1..(Len(a) + Len(b)) : d[i] = IF i <= Len(a) THEN a[i] ELSE b[i - Len(a)]
    BY <1>1, <1>2, <1>3, ConcatProperties
  <2>2. ASSUME NEW i \in 1..(Len(s) - 1) PROVE d[i] = IF i < p THEN s[i] ELSE s[i + 1]
    <3>0. /\ Len(a) = p - 1 /\ i \in 1..(Len(a) + Len(b))
          /\ d[i] = IF i <= p - 1 THEN a[i] ELSE b[i - (p - 1)]
      <4>1. Len(a) = p - 1 /\ Len(a) + Len(b) = Len(s) - 1
        BY <1>0, <1>1, <1>2
      <4>2. i \in 1..(Len(a) + Len(b))
        BY <4>1
      <4> QED
        BY <2>1, <4>1, <4>2
    <3>1. CASE i < p
      <4>1. i <= p - 1 /\ i \in 1..(p - 1)
        BY <1>0, <3>1
      <4>2. a[i] = s[i]
        BY <1>1, <4>1
      <4> QED
        BY <3>0, <3>1, <4>1, <4>2
    <3>2. CASE ~(i < p)
      <4>1. i - (p - 1) \in 1..(Len(s) - p) /\ p + (i - (p - 1)) = i + 1 /\ ~(i <= p - 1)
        BY <1>0, <3>2
      <4>2. d[i] = b[i - (p - 1)]
        BY <3>0, <4>1
      <4> QED
        BY <1>2, <3>2, <4>1, <4>2
    <3> QED
      BY <3>1, <3>2
  <2> QED
    BY <1>0, <1>1, <1>2, <2>1, <2>2
<1>5. Total(d) = Total(s) - s[p].size
  <2> DEFINE v == Sizes(d)
             w == Sizes(s)
  <2>0. /\ \A i \in 1..Len(d) : v[i] = d[i].size /\ v[i] \in Nat
        /\ \A i \in 1..Len(s) : w[i] = s[i].size /\ w[i] \in Nat
    BY <1>4, SizesFacts
  <2>1. \A i \in 1..(Len(s) - 1) : v[i] = IF i < p THEN w[i] ELSE w[i + 1]
    <3> SUFFICES ASSUME NEW i \in 1..(Len(s) - 1)
                 PROVE  v[i] = IF i < p THEN w[i] ELSE w[i + 1]
      OBVIOUS
    <3>1. i \in 1..Len(d) /\ i \in 1..Len(s) /\ i + 1 \in 1..Len(s)
      BY <1>0, <1>4
    <3> HIDE DEF v, w
    <3>2. v[i] = d[i].size /\ w[i] = s[i].size /\ w[i + 1] = s[i + 1].size
      BY <2>0, <3>1
    <3>3. CASE i < p
      <4>1. d[i] = s[i]
        BY <1>4, <3>3
      <4> QED
        BY <3>2, <3>3, <4>1
    <3>4. CASE ~(i < p)
      <4>1. d[i] = s[i + 1]
        BY <1>4, <3>4
      <4> QED
        BY <3>2, <3>4, <4>1
    <3> QED
      BY <3>3, <3>4
  <2> HIDE DEF v, w
  <2>2. /\ Len(s) \in Nat /\ p \in 1..Len(s)
        /\ \A i \in 1..(Len(s) - 1) : v[i] \in Nat
        /\ \A i \in 1..(p - 1) : v[i] = w[i]
        /\ \A i \in p..(Len(s) - 1) : v[i] = w[i + 1]
    <3>1. \A i \in 1..(Len(s) - 1) : v[i] \in Nat
      BY <1>4, <2>0
    <3>2. \A i \in 1..(p - 1) : v[i] = w[i]
      BY <1>0, <2>1
    <3>3. \A i \in p..(Len(s) - 1) : v[i] = w[i + 1]
      BY <1>0, <2>1
    <3> QED
      BY <1>0, <3>1, <3>2, <3>3
  <2>3. SumTo(v, Len(s) - 1) = SumTo(w, Len(s)) - w[p]
    <3> DEFINE N == Len(s)
    <3>1. /\ N \in Nat /\ p \in 1..N
          /\ \A i \in 1..N : w[i] \in Nat
          /\ \A i \in 1..(N - 1) : v[i] \in Nat
          /\ \A i \in 1..(p - 1) : v[i] = w[i]
          /\ \A i \in p..(N - 1) : v[i] = w[i + 1]
      BY <2>0, <2>2
    <3> HIDE DEF N
    <3>2. SumTo(v, N - 1) = SumTo(w, N) - w[p]
      BY ONLY <3>1, SumToWithout
    <3> QED
      BY <3>2 DEF N
  <2>4. w[p] = s[p].size
    BY <1>0, <2>0
  <2>9. SumTo(v, Len(d)) = SumTo(w, Len(s)) - s[p].size
    BY <1>4, <2>3, <2>4
  <2> QED
    BY <2>9 DEF Total, v, w
<1>6. ASSUME NEW i \in DOMAIN d
      PROVE  /\ i \in 1..(Len(s) - 1)
             /\ (IF i < p THEN i ELSE i + 1) \in DOMAIN s \ {p}
             /\ d[i] = s[IF i < p THEN i ELSE i + 1]
  BY <1>0, <1>4
<1>7. Apart(s) => Apart(d)
  <2> SUFFICES ASSUME Apart(s), NEW i \in DOMAIN d, NEW j \in DOMAIN d, d[i].key = d[j].key
               PROVE  i = j
    BY DEF Apart
  <2>1. (IF i < p THEN i ELSE i + 1) = (IF j < p THEN j ELSE j + 1)
    BY <1>6 DEF Apart
  <2> QED
    BY <1>0, <1>6, <2>1
<1> QED
  BY <1>4, <1>5, <1>6, <1>7 DEF d

\* One more entry at the end.
LEMMA PutLast ==
  ASSUME NEW E, Sized(E), NEW s \in Seq(E), NEW e \in E
  PROVE  /\ Append(s, e) \in Seq(E)
         /\ Total(Append(s, e)) = Total(s) + e.size
         /\ Apart(s) /\ (\A i \in DOMAIN s : s[i].key # e.key) => Apart(Append(s, e))
<1> DEFINE d == Append(s, e)
           N == Len(s)
<1>1. /\ N \in Nat /\ d \in Seq(E) /\ Len(d) = N + 1 /\ DOMAIN s = 1..N /\ DOMAIN d = 1..(N + 1)
      /\ \A i \in 1..N : d[i] = s[i]
      /\ d[N + 1] = e
  OBVIOUS
<1> HIDE DEF d
<1>2. /\ \A i \in 1..N : Sizes(d)[i] = d[i].size /\ Sizes(s)[i] = s[i].size
      /\ Sizes(d)[N + 1] = e.size
  BY <1>1, SizesFacts
<1>3. Total(d) = Total(s) + e.size
  <2> DEFINE v == Sizes(d)
             w == Sizes(s)
  <2>1. N \in Nat /\ v[N + 1] = e.size /\ \A i \in 1..N : v[i] = w[i]
    BY <1>1, <1>2
  <2> HIDE DEF v, w, N
  <2>2. SumTo(v, N) = SumTo(w, N)
    BY <2>1, SumToAgree
  <2>3. SumTo(v, N + 1) = SumTo(v, N) + v[N + 1]
    BY <2>1, SumToUnfolds
  <2>4. SumTo(v, N + 1) = SumTo(w, N) + e.size
    BY <2>1, <2>2, <2>3
  <2> QED
    BY <1>1, <2>4 DEF Total, v, w, N
<1>4. ASSUME Apart(s), \A i \in DOMAIN s : s[i].key # e.key PROVE Apart(d)
  <2> SUFFICES ASSUME NEW i \in 1..(N + 1), NEW j \in 1..(N + 1), d[i].key = d[j].key
               PROVE  i = j
    BY <1>1 DEF Apart
  <2>1. CASE i \in 1..N /\ j \in 1..N
    BY <1>1, <1>4, <2>1 DEF Apart
  <2>2. CASE i = N + 1 /\ j \in 1..N
    BY <1>1, <1>4, <2>2
  <2>3. CASE j = N + 1 /\ i \in 1..N
    BY <1>1, <1>4, <2>3
  <2> HIDE DEF N
  <2> QED
    BY <1>1, <2>1, <2>2, <2>3
<1> QED
  BY <1>1, <1>3, <1>4 DEF d

-----------------------------------------------------------------------------
(* What the operations of the cache keep.                                  *)

Budget(E, c) == Sized(E) /\ c \in Caches(E) /\ c.cur = Total(c.lru) /\ Apart(c.lru)

\* The budget is what WithinBudget says, over entries of any kind.
LEMMA BudgetIs ==
  ASSUME NEW E, Sized(E), NEW c \in Caches(E)
  PROVE  WithinBudget(c) <=> Budget(E, c) /\ c.cur <= c.cap
BY DEF WithinBudget, Budget, LruBytes, Total, Sizes, Apart

\* The eviction loop ends with a count that is right and leaves room for size more bytes.
LEMMA EvictedBudget ==
  ASSUME NEW E, NEW c, Budget(E, c), NEW size \in Nat, NEW cap \in Nat, size <= cap
  PROVE  LET r == Evicted(c, size, cap)
         IN  /\ Budget(E, r) /\ r.cap = c.cap /\ r.cur + size <= cap
             /\ \A i \in DOMAIN r.lru : \E k \in DOMAIN c.lru : r.lru[i] = c.lru[k]
<1> DEFINE s == c.lru
           fits == {n \in 0..Len(s) : c.cur - LruBytes(c, n) + size <= cap \/ n = Len(s)}
           n == CHOOSE n \in fits : \A m \in fits : n <= m
           rest == SubSeq(s, n + 1, Len(s))
           r == [c EXCEPT !.lru = rest, !.cur = c.cur - LruBytes(c, n)]
<1>0. r = Evicted(c, size, cap)
  BY DEF Evicted
<1>1. /\ Sized(E) /\ s \in Seq(E) /\ c.cur \in Nat /\ c.cap \in Nat /\ c.cur = Total(s) /\ Apart(s)
      /\ DOMAIN c = {"lru", "cur", "cap"} /\ c = [c EXCEPT !.cap = c.cap] /\ Len(s) \in Nat
  BY DEF Budget, Caches
<1>2. \A k \in 0..Len(s) : LruBytes(c, k) = SumTo(Sizes(s), k)
  BY DEF LruBytes, Sizes
<1>3. n \in fits
  <2>1. fits \subseteq Nat /\ Len(s) \in fits
    BY <1>1
  <2> HIDE DEF fits, s
  <2>2. \E k \in fits : \A m \in fits : k <= m
    BY <2>1, LeastElement
  <2> QED
    BY <2>2
<1>4. n \in 0..Len(s) /\ (c.cur - LruBytes(c, n) + size <= cap \/ n = Len(s))
  BY <1>3
<1> HIDE DEF n, fits
<1>5. /\ rest \in Seq(E) /\ Total(rest) = Total(s) - SumTo(Sizes(s), n) /\ Apart(rest)
      /\ Total(rest) \in Nat
  <2> HIDE DEF s
  <2>1. rest \in Seq(E) /\ Total(rest) = Total(s) - SumTo(Sizes(s), n) /\ Apart(rest)
    BY <1>1, <1>4, DropFirst
  <2> HIDE DEF rest
  <2>2. Len(rest) \in 0..Len(rest) /\ Total(rest) = SumTo(Sizes(rest), Len(rest))
    BY <2>1 DEF Total
  <2> QED
    BY <1>1, <2>1, <2>2, SizesFacts
<1>6. r.lru = rest /\ r.cap = c.cap /\ r.cur = Total(rest) /\ r \in Caches(E)
  <2>1. c.cur - LruBytes(c, n) = Total(rest)
    BY <1>1, <1>2, <1>4, <1>5
  <2> HIDE DEF rest
  <2> QED
    BY <1>1, <1>5, <2>1 DEF Caches, Budget
<1>7. r.cur + size <= cap
  <2>1. CASE n = Len(s)
    <3> HIDE DEF rest, s
    <3>1. Total(rest) = 0
      BY <1>1, <1>5, <2>1 DEF Total
    <3> QED
      BY <1>6, <3>1
  <2>2. CASE c.cur - LruBytes(c, n) + size <= cap
    <3>1. c.cur - LruBytes(c, n) = Total(rest)
      BY <1>1, <1>2, <1>4, <1>5
    <3> QED
      BY <1>6, <2>2, <3>1
  <2> QED
    BY <1>4, <2>1, <2>2
<1>8. ASSUME NEW i \in DOMAIN r.lru PROVE \E k \in DOMAIN c.lru : r.lru[i] = c.lru[k]
  <2>1. i \in DOMAIN rest
    BY <1>6
  <2>2. n + i \in DOMAIN s /\ rest[i] = s[n + i]
    <3>1. /\ n + 1 \in 1..(Len(s) + 1) /\ Len(s) \in Nat /\ n \in Nat /\ n <= Len(s)
          /\ DOMAIN s = 1..Len(s)
      BY <1>1, <1>4
    <3> HIDE DEF s
    <3>2. /\ Len(rest) = IF n + 1 <= Len(s) THEN Len(s) - (n + 1) + 1 ELSE 0
          /\ \A k \in 1..(Len(s) - (n + 1) + 1) : rest[k] = s[(n + 1) + k - 1]
          /\ DOMAIN rest = 1..Len(rest)
      <4>1. \A k \in (n + 1)..Len(s) : s[k] \in E
        BY <1>1, <3>1
      <4>2. n + 1 \in Int /\ Len(s) \in Int
        BY <3>1
      <4>3. DOMAIN rest = 1..Len(rest)
        BY <1>5, LenProperties
      <4> QED
        BY <4>1, <4>2, <4>3, SubSeqProperties, SMTT(30)
    <3>3. i \in 1..(Len(s) - (n + 1) + 1)
      BY <2>1, <3>1, <3>2
    <3>4. rest[i] = s[(n + 1) + i - 1]
      BY <3>2, <3>3
    <3>5. (n + 1) + i - 1 = n + i /\ n + i \in DOMAIN s
      BY <3>1, <3>3
    <3> QED
      BY <3>4, <3>5
  <2> QED
    BY <1>6, <2>2
<1>9. Budget(E, r)
  BY <1>1, <1>5, <1>6 DEF Budget
<1> QED
  BY <1>0, <1>6, <1>7, <1>8, <1>9

\* Taking the entry of a key out leaves a count that is right and no entry of the key.
LEMMA WithoutBudget ==
  ASSUME NEW E, NEW c, Budget(E, c), NEW key
  PROVE  /\ LruWithout(c, key) \in Seq(E) /\ Apart(LruWithout(c, key))
         /\ key \in CachedKeys(c) => /\ CachedEntry(c, key) \in E /\ CachedEntry(c, key).key = key
                               /\ Total(LruWithout(c, key)) = Total(c.lru) - CachedEntry(c, key).size
         /\ key \notin CachedKeys(c) => Total(LruWithout(c, key)) = Total(c.lru)
         /\ Total(LruWithout(c, key)) \in Nat
         /\ \A i \in DOMAIN LruWithout(c, key) : LruWithout(c, key)[i].key # key
<1> DEFINE s == c.lru
           p == Where(c, key)
           d == LruWithout(c, key)
<1>1. Sized(E) /\ s \in Seq(E) /\ Total(s) = c.cur /\ c.cur \in Nat /\ Apart(s)
  BY DEF Budget, Caches
<1>2. \A q \in Seq(E) : Total(q) \in Nat
  <2> SUFFICES ASSUME NEW q \in Seq(E) PROVE Total(q) \in Nat
    OBVIOUS
  <2>1. Len(q) \in 0..Len(q)
    OBVIOUS
  <2> QED
    BY <1>1, <2>1, SizesFacts DEF Total
<1>3. CASE key \notin CachedKeys(c)
  <2>1. d = s
    BY <1>3 DEF LruWithout
  <2>2. \A i \in DOMAIN s : s[i].key # key
    BY <1>3 DEF CachedKeys
  <2> QED
    BY <1>1, <1>3, <2>1, <2>2
<1>4. CASE key \in CachedKeys(c)
  <2>1. p \in DOMAIN s /\ s[p].key = key
    BY <1>4 DEF CachedKeys, Where
  <2>2. d = RemoveAt(s, p) /\ CachedEntry(c, key) = s[p]
    BY <1>4 DEF LruWithout, CachedEntry
  <2> HIDE DEF p, s, d
  <2>3. /\ d \in Seq(E) /\ Total(d) = Total(s) - s[p].size /\ Apart(d)
        /\ \A i \in DOMAIN d : \E k \in DOMAIN s : k # p /\ d[i] = s[k]
    BY <1>1, <2>1, <2>2, TakeOut
  <2>4. \A i \in DOMAIN d : d[i].key # key
    BY <1>1, <2>1, <2>3 DEF Apart
  <2>5. s[p] \in E
    BY <1>1, <2>1
  <2> QED
    BY <1>2, <1>4, <2>1, <2>2, <2>3, <2>4, <2>5 DEF d, s
<1> QED
  BY <1>3, <1>4

\* A hit keeps the count: its entry moves to the end.
LEMMA TouchedBudget ==
  ASSUME NEW E, NEW c, Budget(E, c), c.cur <= c.cap, NEW key \in CachedKeys(c)
  PROVE  Budget(E, Touched(c, key)) /\ Touched(c, key).cur <= Touched(c, key).cap
<1> DEFINE d == LruWithout(c, key)
           e == CachedEntry(c, key)
           s == Append(d, e)
<1>1. Sized(E) /\ c \in Caches(E) /\ c.cur = Total(c.lru) /\ c.cur \in Nat
  BY DEF Budget, Caches
<1>2. /\ d \in Seq(E) /\ Apart(d) /\ e \in E /\ e.key = key /\ Total(d) \in Nat
      /\ Total(d) = c.cur - e.size /\ \A i \in DOMAIN d : d[i].key # e.key
  BY <1>1, WithoutBudget
<1>3. e.size \in Nat
  BY <1>1, <1>2 DEF Sized
<1>4. s \in Seq(E) /\ Total(s) = Total(d) + e.size /\ Apart(s)
  <2> HIDE DEF d, e
  <2> QED
    BY <1>1, <1>2, PutLast
<1>5. Total(s) = c.cur
  BY <1>1, <1>2, <1>3, <1>4
<1>6. Touched(c, key) = [c EXCEPT !.lru = s]
  BY DEF Touched
<1> HIDE DEF s
<1> QED
  BY <1>1, <1>4, <1>5, <1>6 DEF Budget, Caches

\* put keeps the count and the capacity, over the entries with the new one.
LEMMA PutBudget ==
  ASSUME NEW E, NEW c, Budget(E, c), c.cur <= c.cap, NEW key, NEW val, NEW size \in Nat,
         NEW F, Sized(F), E \subseteq F, [key |-> key, val |-> val, size |-> size] \in F
  PROVE  Budget(F, CachePut(c, key, val, size)) /\ CachePut(c, key, val, size).cur <= CachePut(c, key, val, size).cap
<1>1. CASE c.cap = 0 \/ size > c.cap
  <2>1. CachePut(c, key, val, size) = c
    BY <1>1 DEF CachePut
  <2>2. Budget(F, c)
    <3>1. c.lru \in Seq(E) /\ c \in [lru : Seq(E), cur : Nat, cap : Nat]
      BY DEF Budget, Caches
    <3>2. c.lru \in Seq(F)
      BY <3>1
    <3> QED
      BY <3>1, <3>2 DEF Budget, Caches
  <2> QED
    BY <2>1, <2>2
<1>2. CASE ~(c.cap = 0 \/ size > c.cap)
  <2> DEFINE e == [key |-> key, val |-> val, size |-> size]
             old == IF key \in CachedKeys(c) THEN CachedEntry(c, key).size ELSE 0
             gone == [c EXCEPT !.lru = LruWithout(c, key), !.cur = c.cur - old]
             room == Evicted(gone, size, c.cap)
             s == Append(room.lru, e)
  <2>1. /\ Sized(E) /\ c \in Caches(E) /\ c.cur = Total(c.lru) /\ c.cur \in Nat /\ c.cap \in Nat
        /\ size <= c.cap
    BY <1>2 DEF Budget, Caches
  <2>2. CachePut(c, key, val, size) = [room EXCEPT !.lru = s, !.cur = room.cur + size]
    BY <1>2 DEF CachePut
  <2>3. /\ LruWithout(c, key) \in Seq(E) /\ Apart(LruWithout(c, key)) /\ Total(LruWithout(c, key)) \in Nat
        /\ Total(LruWithout(c, key)) = c.cur - old
        /\ \A i \in DOMAIN LruWithout(c, key) : LruWithout(c, key)[i].key # key
    <3>1. key \notin CachedKeys(c) => c.cur = c.cur - old
      BY <2>1
    <3> QED
      BY <2>1, <3>1, WithoutBudget
  <2>4. gone.lru = LruWithout(c, key) /\ Budget(E, gone) /\ gone.cap = c.cap
    BY <2>1, <2>3 DEF Budget, Caches
  <2> HIDE DEF gone
  <2>5. /\ Budget(E, room) /\ room.cap = c.cap /\ room.cur + size <= c.cap
        /\ \A i \in DOMAIN room.lru : \E k \in DOMAIN gone.lru : room.lru[i] = gone.lru[k]
    <3>1. c.cap \in Nat /\ size \in Nat /\ size <= c.cap /\ Budget(E, gone)
      BY <2>1, <2>4
    <3>2. LET r == Evicted(gone, size, c.cap)
          IN  /\ Budget(E, r) /\ r.cap = gone.cap /\ r.cur + size <= c.cap
              /\ \A i \in DOMAIN r.lru : \E k \in DOMAIN gone.lru : r.lru[i] = gone.lru[k]
      BY ONLY <3>1, EvictedBudget, SMTT(30)
    <3> QED
      BY <2>4, <3>2
  <2> HIDE DEF room
  <2>6. \A i \in DOMAIN room.lru : room.lru[i].key # key
    BY <2>3, <2>4, <2>5
  <2>7. Sized(F) /\ e \in F /\ e.key = key /\ e.size = size /\ E \subseteq F
    OBVIOUS
  <2>8. room.lru \in Seq(F) /\ Apart(room.lru) /\ room.cur = Total(room.lru)
    <3>1. room.lru \in Seq(E) /\ Apart(room.lru) /\ room.cur = Total(room.lru)
      BY <2>5 DEF Budget, Caches
    <3> QED
      BY <2>7, <3>1
  <2> HIDE DEF e
  <2>9. s \in Seq(F) /\ Total(s) = Total(room.lru) + size /\ Apart(s)
    BY <2>6, <2>7, <2>8, PutLast
  <2> HIDE DEF s
  <2>10. Budget(F, CachePut(c, key, val, size))
    <3> DEFINE r == CachePut(c, key, val, size)
    <3>1. room.cur \in Nat /\ room.cap \in Nat /\ room = [lru |-> room.lru, cur |-> room.cur, cap |-> room.cap]
      BY <2>5 DEF Budget, Caches
    <3>2. r = [lru |-> s, cur |-> room.cur + size, cap |-> room.cap]
      BY <2>2, <3>1
    <3>3. room.cur + size \in Nat /\ room.cur + size = Total(s)
      BY <2>8, <2>9, <3>1
    <3> HIDE DEF r
    <3>4. r \in Caches(F) /\ r.cur = Total(r.lru) /\ Apart(r.lru)
      BY <2>9, <3>1, <3>2, <3>3 DEF Caches
    <3> QED
      BY <2>7, <3>4 DEF Budget, r
  <2>11. CachePut(c, key, val, size).cur <= CachePut(c, key, val, size).cap
    BY <2>2, <2>5 DEF Budget, Caches
  <2> QED
    BY <2>10, <2>11
<1> QED
  BY <1>1, <1>2

\* A new capacity, larger or smaller.
LEMMA SetCapacityBudget ==
  ASSUME NEW E, NEW c, Budget(E, c), NEW cap \in Nat
  PROVE  Budget(E, SetCapacity(c, cap)) /\ SetCapacity(c, cap).cur <= SetCapacity(c, cap).cap
<1> DEFINE r == Evicted(c, 0, cap)
<1>1. Budget(E, r) /\ r.cur + 0 <= cap
  BY EvictedBudget
<1>2. SetCapacity(c, cap) = [r EXCEPT !.cap = cap]
  BY DEF SetCapacity
<1> HIDE DEF r
<1> QED
  BY <1>1, <1>2 DEF Budget, Caches

\* No entries.
LEMMA EmptyBudget ==
  ASSUME NEW E, Sized(E), NEW cap \in Nat
  PROVE  Budget(E, EmptyCache(cap)) /\ EmptyCache(cap).cur <= EmptyCache(cap).cap
<1>1. <<>> \in Seq(E) /\ Len(<<>>) = 0 /\ DOMAIN <<>> = {}
  OBVIOUS
<1>2. Total(<<>>) = 0
  BY <1>1, SumToUnfolds DEF Total
<1>3. Apart(<<>>)
  BY <1>1 DEF Apart
<1> QED
  BY <1>1, <1>2, <1>3 DEF EmptyCache, Budget, Caches
-----------------------------------------------------------------------------
(* Iteration, and the copies of BlobMoves.                                 *)

\* n steps from r0, the j-th taken by next[j, r], within a set R.
StaysIn(n, R, next) == \A j \in 1..n, r \in R : next[<<j, r>>] \in R
Iterates(f, n, R, r0, next) ==
  f \in [0..n -> R] /\ \A j \in 0..n : f[j] = IF j = 0 THEN r0 ELSE next[<<j, f[j - 1]>>]

LEMMA IterationExists ==
  ASSUME NEW n \in Nat, NEW R, NEW r0 \in R, NEW next, StaysIn(n, R, next)
  PROVE  \E f : Iterates(f, n, R, r0, next)
<1> USE DEF StaysIn, Iterates
<1> DEFINE Runs(f, k) ==
             f \in [0..k -> R] /\ \A j \in 0..k : f[j] = IF j = 0 THEN r0 ELSE next[<<j, f[j - 1]>>]
           T == {k \in Nat : k <= n => \E f : Runs(f, k)}
<1>1. 0 \in T
  <2> DEFINE f == [j \in 0..0 |-> r0]
  <2>1. Runs(f, 0)
    OBVIOUS
  <2> QED
    BY <2>1
<1>2. ASSUME NEW k \in Nat, k \in T PROVE k + 1 \in T
  <2> SUFFICES ASSUME k + 1 <= n PROVE \E f : Runs(f, k + 1)
    OBVIOUS
  <2>1. PICK g : Runs(g, k)
    BY <1>2
  <2> DEFINE f == [j \in 0..(k + 1) |-> IF j <= k THEN g[j] ELSE next[<<k + 1, g[k]>>]]
  <2>2. next[<<k + 1, g[k]>>] \in R
    BY <2>1
  <2>3. f \in [0..(k + 1) -> R]
    BY <2>1, <2>2
  <2>4. ASSUME NEW j \in 0..(k + 1) PROVE f[j] = IF j = 0 THEN r0 ELSE next[<<j, f[j - 1]>>]
    <3>1. CASE j = 0
      <4>1. 0 \in 0..k /\ 0 <= k
        OBVIOUS
      <4>2. g[0] = r0
        BY <2>1, <4>1
      <4>3. f[0] = g[0]
        BY <4>1
      <4> QED
        BY <3>1, <4>2, <4>3
    <3>2. CASE j # 0 /\ j <= k
      <4>1. j \in 0..k /\ j - 1 \in 0..(k + 1) /\ j - 1 <= k
        BY <3>2
      <4>2. f[j] = g[j] /\ f[j - 1] = g[j - 1]
        BY <3>2, <4>1
      <4> QED
        BY <2>1, <3>2, <4>1, <4>2
    <3>3. CASE j = k + 1
      <4>1. f[j] = next[<<k + 1, g[k]>>] /\ f[k] = g[k] /\ j - 1 = k /\ j # 0
        BY <3>3
      <4> QED
        BY <3>3, <4>1
    <3> QED
      BY <3>1, <3>2, <3>3
  <2> QED
    BY <2>3, <2>4
<1>3. \A k \in Nat : k \in T
  <2> HIDE DEF T
  <2> QED
    BY <1>1, <1>2, SetInduction
<1>4. n \in T
  BY <1>3
<1> QED
  BY <1>4

\* A move within a heap of L units, and one that a chunked copy from the front does well.
MoveFits(m, L) ==
  /\ m.src \in Nat /\ m.dst \in Nat /\ m.n \in Nat
  /\ m.src + m.n <= L /\ m.dst + m.n <= L
MoveTame(m, chunk) == m.dst <= m.src \/ m.dst >= m.src + m.n \/ m.n <= chunk

LEMMA ChunkTyped ==
  ASSUME NEW S, NEW L \in Nat, NEW h \in [1..L -> S], NEW src \in Nat, NEW dst \in Nat, NEW n \in Nat,
         src + n <= L, dst + n <= L
  PROVE  CopyChunk(h, src, dst, n) \in [1..L -> S]
<1>1. \A p \in 1..L : p \in (dst + 1)..(dst + n) => src + p - dst \in 1..L
  OBVIOUS
<1> QED
  BY <1>1 DEF CopyChunk

\* What the first a units and the next t make together.
ChunksMeet(L, src, dst, a, t) ==
  /\ {src, dst, a, t} \subseteq Nat
  /\ src + a + t <= L /\ dst + a + t <= L
  /\ dst <= src \/ src + a + t <= dst \/ a = 0 \/ t = 0

ChunksJoined(h, src, dst, a, t) ==
  CopyChunk(CopyChunk(h, src, dst, a), src + a, dst + a, t) = CopyChunk(h, src, dst, a + t)

LEMMA ChunksJoin ==
  ASSUME NEW S, NEW L \in Nat, NEW h \in [1..L -> S], NEW src, NEW dst, NEW a, NEW t,
         ChunksMeet(L, src, dst, a, t)
  PROVE  ChunksJoined(h, src, dst, a, t)
<1> USE DEF ChunksMeet
<1> DEFINE g == CopyChunk(h, src, dst, a)
           l == CopyChunk(g, src + a, dst + a, t)
           r == CopyChunk(h, src, dst, a + t)
<1>1. g \in [1..L -> S] /\ \A p \in 1..L :
        g[p] = IF p \in (dst + 1)..(dst + a) THEN h[src + p - dst] ELSE h[p]
  BY ChunkTyped DEF CopyChunk
<1>2. r = [p \in 1..L |-> IF p \in (dst + 1)..(dst + a + t) THEN h[src + p - dst] ELSE h[p]]
  BY DEF CopyChunk
<1> HIDE DEF g
<1>3. l = [p \in 1..L |-> IF p \in (dst + a + 1)..(dst + a + t) THEN g[src + a + p - (dst + a)] ELSE g[p]]
  BY <1>1 DEF CopyChunk
<1>4. ASSUME NEW p \in 1..L
      PROVE (IF p \in (dst + a + 1)..(dst + a + t) THEN g[src + a + p - (dst + a)] ELSE g[p])
              = IF p \in (dst + 1)..(dst + a + t) THEN h[src + p - dst] ELSE h[p]
  <2>1. CASE p \in (dst + a + 1)..(dst + a + t)
    <3> DEFINE q == src + p - dst
    <3>1. src + a + p - (dst + a) = q /\ q \in 1..L /\ q \notin (dst + 1)..(dst + a)
      BY <2>1
    <3> HIDE DEF q
    <3>2. g[q] = h[q]
      BY <3>1, <1>1
    <3>3. p \in (dst + 1)..(dst + a + t)
      BY <2>1
    <3> QED
      BY <2>1, <3>1, <3>2, <3>3 DEF q
  <2>2. CASE p \notin (dst + a + 1)..(dst + a + t)
    <3>1. p \in (dst + 1)..(dst + a) <=> p \in (dst + 1)..(dst + a + t)
      BY <2>2
    <3> QED
      BY <2>2, <3>1, <1>1
  <2> QED
    BY <2>1, <2>2
<1>5. l = r
  BY <1>2, <1>3, <1>4
<1> QED
  BY <1>5 DEF g, ChunksJoined

\* A tame move does what one read and one write of it all would.
LEMMA StreamCopyIs ==
  ASSUME NEW S, NEW L \in Nat, NEW h \in [1..L -> S], NEW m, MoveFits(m, L),
         NEW chunk \in Nat \ {0}, MoveTame(m, chunk)
  PROVE  StreamCopy(h, m, chunk) = CopyChunk(h, m.src, m.dst, m.n)
<1> DEFINE n == m.n
           src == m.src
           dst == m.dst
           Took(s) == IF n - s.at < chunk THEN n - s.at ELSE chunk
           Then(s) == [at |-> s.at + Took(s), h |-> CopyChunk(s.h, src + s.at, dst + s.at, Took(s))]
           R == [at : 0..n, h : [1..L -> S]]
           start == [at |-> 0, h |-> h]
           next == [x \in (1..n) \X R |-> Then(x[2])]
           IsLoop(f) == f = [j \in 0..n |-> IF j = 0 THEN start ELSE Then(f[j - 1])]
           loop == CHOOSE f : IsLoop(f)
<1>1. n \in Nat /\ src \in Nat /\ dst \in Nat /\ src + n <= L /\ dst + n <= L
  BY DEF MoveFits
<1>t. dst <= src \/ dst >= src + n \/ n <= chunk
  BY DEF MoveTame
<1>5. StreamCopy(h, m, chunk) = loop[n].h
  BY Zenon DEF StreamCopy
<1> HIDE DEF n, src, dst
<1>2. ASSUME NEW s \in R PROVE Then(s) \in R
  <2>1. s.at \in 0..n /\ s.h \in [1..L -> S]
    OBVIOUS
  <2>2. Took(s) \in Nat /\ s.at + Took(s) \in 0..n
    BY <1>1, <2>1
  <2>3. CopyChunk(s.h, src + s.at, dst + s.at, Took(s)) \in [1..L -> S]
    <3> DEFINE g == s.h
               x == src + s.at
               y == dst + s.at
               t == Took(s)
    <3>1. g \in [1..L -> S] /\ x \in Nat /\ y \in Nat /\ t \in Nat /\ x + t <= L /\ y + t <= L
      BY <1>1, <2>1, <2>2
    <3> HIDE DEF g, x, y, t
    <3>2. CopyChunk(g, x, y, t) \in [1..L -> S]
      BY <3>1, ChunkTyped
    <3> QED
      BY <3>2 DEF g, x, y, t
  <2> HIDE DEF Took
  <2> QED
    BY <2>2, <2>3
<1>3. \E f : IsLoop(f)
  <2>1. start \in R
    BY <1>1
  <2>2. \A j \in 1..n, s \in R : next[<<j, s>>] = Then(s)
    OBVIOUS
  <2>3. StaysIn(n, R, next)
    <3> HIDE DEF R, next, Then
    <3> QED
      BY <1>2, <2>2 DEF StaysIn
  <2> HIDE DEF R, next, start, Then
  <2>p. PICK f : Iterates(f, n, R, start, next)
    BY <1>1, <2>1, <2>3, IterationExists
  <2>4. f \in [0..n -> R] /\ \A j \in 0..n : f[j] = IF j = 0 THEN start ELSE next[<<j, f[j - 1]>>]
    BY <2>p DEF Iterates
  <2>5. ASSUME NEW j \in 0..n PROVE f[j] = IF j = 0 THEN start ELSE Then(f[j - 1])
    <3>1. CASE j = 0
      BY <2>4, <3>1
    <3>2. CASE j # 0
      <4>1. j \in 1..n /\ f[j - 1] \in R
        BY <1>1, <2>4, <3>2
      <4> QED
        BY <2>2, <2>4, <3>2, <4>1
    <3> QED
      BY <3>1, <3>2
  <2>6. f = [j \in 0..n |-> IF j = 0 THEN start ELSE Then(f[j - 1])]
    BY <2>4, <2>5
  <2> QED
    BY <2>6
<1>4. IsLoop(loop)
  <2> HIDE DEF IsLoop
  <2> QED
    BY <1>3
<1>6. loop[0] = start /\ \A j \in 1..n : loop[j] = Then(loop[j - 1])
  <2> HIDE DEF Then, start, loop
  <2>1. 0 \in 0..n /\ \A j \in 1..n : j \in 0..n /\ j # 0
    BY <1>1
  <2> QED
    BY <1>4, <2>1
<1> HIDE DEF loop, IsLoop
<1> DEFINE Done(j) ==
             /\ loop[j].at \in 0..n /\ loop[j].at >= j
             /\ n <= chunk => loop[j].at \in {0, n}
             /\ loop[j].h = CopyChunk(h, src, dst, loop[j].at)
           T == {j \in Nat : j <= n => Done(j)}
<1>7. 0 \in T
  <2>1. loop[0].at = 0 /\ loop[0].h = h
    BY <1>6
  <2>2. h = CopyChunk(h, src, dst, 0)
    <3>1. \A p \in 1..L : p \notin (dst + 1)..(dst + 0)
      BY <1>1
    <3> QED
      BY <3>1 DEF CopyChunk
  <2> QED
    BY <1>1, <2>1, <2>2
<1>8. ASSUME NEW j \in Nat, j \in T PROVE j + 1 \in T
  <2> SUFFICES ASSUME j + 1 <= n PROVE Done(j + 1)
    OBVIOUS
  <2> DEFINE s == loop[j]
             a == s.at
             t == Took(s)
  <2>1. Done(j)
    BY <1>1, <1>8
  <2>2. loop[j + 1] = Then(s)
    BY <1>1, <1>6
  <2>3. a \in 0..n /\ a >= j /\ (n <= chunk => a \in {0, n}) /\ s.h = CopyChunk(h, src, dst, a)
    BY <2>1
  <2>4. t \in Nat /\ a + t \in 0..n /\ a + t >= j + 1 /\ (n <= chunk => a + t = n) /\ (a = n => t = 0)
    <3>1. t = IF n - a < chunk THEN n - a ELSE chunk
      OBVIOUS
    <3> HIDE DEF a, t
    <3> QED
      BY <1>1, <2>3, <3>1
  <2>5. loop[j + 1].at = a + t /\ loop[j + 1].h = CopyChunk(s.h, src + a, dst + a, t)
    BY <2>2
  <2> HIDE DEF a, t, s, Took
  <2>6. dst <= src \/ src + a + t <= dst \/ a = 0 \/ t = 0
    BY <1>1, <1>t, <2>3, <2>4
  <2>7. CopyChunk(CopyChunk(h, src, dst, a), src + a, dst + a, t)
          = CopyChunk(h, src, dst, a + t)
    <3>1. a \in Nat /\ src + a + t <= L /\ dst + a + t <= L
      BY <1>1, <2>3, <2>4
    <3>2. ChunksMeet(L, src, dst, a, t)
      BY <1>1, <2>4, <2>6, <3>1 DEF ChunksMeet
    <3>3. ChunksJoined(h, src, dst, a, t)
      BY <3>2, ChunksJoin
    <3> QED
      BY <3>3 DEF ChunksJoined
  <2> QED
    BY <2>3, <2>4, <2>5, <2>7
<1>9. n \in T
  <2> HIDE DEF T
  <2> QED
    BY <1>1, <1>7, <1>8, SetInduction
<1>10. loop[n].at = n /\ loop[n].h = CopyChunk(h, src, dst, loop[n].at)
  BY <1>1, <1>9
<1> HIDE DEF loop
<1>11. StreamCopy(h, m, chunk) = CopyChunk(h, src, dst, n)
  BY <1>5, <1>10
<1> QED
  BY <1>11 DEF src, dst, n

\* Moves that one after the other do no harm: no target is the target of another, or the
\* source of a later one.
MovesOrdered(ms, L, chunk) ==
  /\ Len(ms) \in Nat
  /\ \A i \in 1..Len(ms) : MoveFits(ms[i], L) /\ MoveTame(ms[i], chunk)
  /\ \A i, j \in 1..Len(ms) :
       /\ i < j => ms[i].dst + ms[i].n <= ms[j].src \/ ms[j].src + ms[j].n <= ms[i].dst
       /\ i # j => ms[i].dst + ms[i].n <= ms[j].dst \/ ms[j].dst + ms[j].n <= ms[i].dst

\* The first k moves of ms are made: their targets hold what the sources did in h, and
\* what is no target is untouched.
MovesMade(ms, k, h, g) ==
  /\ \A i \in 1..k : \A u \in 1..ms[i].n : g[ms[i].dst + u] = h[ms[i].src + u]
  /\ \A p \in DOMAIN h :
       (\A i \in 1..k : p \notin (ms[i].dst + 1)..(ms[i].dst + ms[i].n)) => g[p] = h[p]

\* One more move.
LEMMA OneMoreMove ==
  ASSUME NEW S, NEW L \in Nat, NEW h \in [1..L -> S], NEW ms, NEW chunk \in Nat \ {0},
         MovesOrdered(ms, L, chunk), NEW k \in Nat, k + 1 <= Len(ms),
         NEW g \in [1..L -> S], MovesMade(ms, k, h, g)
  PROVE  MovesMade(ms, k + 1, h, StreamCopy(g, ms[k + 1], chunk))
<1> DEFINE m == ms[k + 1]
           c == CopyChunk(g, m.src, m.dst, m.n)
<1>1. k + 1 \in 1..Len(ms) /\ MoveFits(m, L) /\ MoveTame(m, chunk)
  BY DEF MovesOrdered
<1>2. StreamCopy(g, m, chunk) = c
  <2> HIDE DEF m
  <2> QED
    BY <1>1, StreamCopyIs
<1>3. m.src \in Nat /\ m.dst \in Nat /\ m.n \in Nat /\ m.src + m.n <= L /\ m.dst + m.n <= L
  BY <1>1 DEF MoveFits
<1>4. \A p \in 1..L : c[p] = IF p \in (m.dst + 1)..(m.dst + m.n) THEN g[m.src + p - m.dst] ELSE g[p]
  BY DEF CopyChunk
<1>e. m = ms[k + 1]
  OBVIOUS
<1> HIDE DEF c, m
<1>5. ASSUME NEW i \in 1..(k + 1), NEW u \in 1..ms[i].n
      PROVE  c[ms[i].dst + u] = h[ms[i].src + u]
  <2>0. i \in 1..Len(ms) /\ MoveFits(ms[i], L)
    BY <1>1 DEF MovesOrdered
  <2>1. ms[i].src \in Nat /\ ms[i].dst \in Nat /\ ms[i].n \in Nat /\ ms[i].src + ms[i].n <= L
        /\ ms[i].dst + ms[i].n <= L
    BY <2>0 DEF MoveFits
  <2>2. CASE i = k + 1
    <3> DEFINE q == m.src + u
               p == m.dst + u
    <3>0. ms[i] = m /\ u \in 1..m.n
      BY <1>e, <2>2
    <3>1. q \in 1..L /\ p \in 1..L /\ p \in (m.dst + 1)..(m.dst + m.n) /\ m.src + p - m.dst = q
      <4> DEFINE x == m.src
                 y == m.dst
                 z == m.n
      <4>1. x \in Nat /\ y \in Nat /\ z \in Nat /\ x + z <= L /\ y + z <= L /\ u \in 1..z
        BY <1>3, <3>0
      <4> HIDE DEF x, y, z
      <4>2. x + u \in 1..L /\ y + u \in 1..L /\ y + u \in (y + 1)..(y + z) /\ x + (y + u) - y = x + u
        BY <4>1
      <4> QED
        BY <4>2 DEF x, y, z
    <3>2. c[p] = g[q]
      <4> HIDE DEF p, q
      <4> QED
        BY <1>4, <3>1
    <3>3. \A j \in 1..k : q \notin (ms[j].dst + 1)..(ms[j].dst + ms[j].n)
      <4> SUFFICES ASSUME NEW j \in 1..k PROVE q \notin (ms[j].dst + 1)..(ms[j].dst + ms[j].n)
        OBVIOUS
      <4>1. j \in 1..Len(ms) /\ j < k + 1
        BY <1>1
      <4>2. ms[j].dst + ms[j].n <= m.src \/ m.src + m.n <= ms[j].dst
        BY <1>1, <1>e, <4>1 DEF MovesOrdered
      <4>3. ms[j].dst \in Nat /\ ms[j].n \in Nat
        BY <4>1 DEF MovesOrdered, MoveFits
      <4> DEFINE d == ms[j].dst
                 z == ms[j].n
                 e == m.src
                 y == m.n
      <4>4. d \in Nat /\ z \in Nat /\ e \in Nat /\ y \in Nat /\ (d + z <= e \/ e + y <= d) /\ u \in 1..y
        BY <1>3, <3>0, <4>2, <4>3
      <4> HIDE DEF d, z, e, y
      <4>5. e + u \notin (d + 1)..(d + z)
        BY <4>4
      <4> QED
        BY <4>5 DEF d, e, z
    <3>4. g[q] = h[q]
      <4> HIDE DEF q
      <4> QED
        BY <3>1, <3>3 DEF MovesMade
    <3> QED
      BY <3>0, <3>2, <3>4
  <2>3. CASE i # k + 1
    <3> DEFINE p == ms[i].dst + u
    <3>1. i \in 1..k /\ p \in 1..L
      BY <2>1, <2>3
    <3>2. ms[i].dst + ms[i].n <= m.dst \/ m.dst + m.n <= ms[i].dst
      BY <1>1, <1>e, <2>0, <2>3 DEF MovesOrdered
    <3>3. p \notin (m.dst + 1)..(m.dst + m.n)
      <4> DEFINE d == ms[i].dst
                 z == ms[i].n
                 e == m.dst
                 y == m.n
      <4>1. d \in Nat /\ z \in Nat /\ e \in Nat /\ y \in Nat /\ (d + z <= e \/ e + y <= d) /\ u \in 1..z
        BY <1>3, <2>1, <3>2
      <4> HIDE DEF d, z, e, y
      <4>2. d + u \notin (e + 1)..(e + y)
        BY <4>1
      <4> QED
        BY <4>2 DEF d, e, y
    <3>4. g[p] = h[ms[i].src + u]
      BY <3>1 DEF MovesMade
    <3> HIDE DEF p
    <3>5. c[p] = g[p]
      BY <1>4, <3>1, <3>3
    <3> QED
      BY <3>4, <3>5 DEF p
  <2> QED
    BY <2>2, <2>3
<1>6. ASSUME NEW p \in 1..L, \A i \in 1..(k + 1) : p \notin (ms[i].dst + 1)..(ms[i].dst + ms[i].n)
      PROVE  c[p] = h[p]
  <2>1. p \notin (m.dst + 1)..(m.dst + m.n)
    BY <1>6, <1>e
  <2>2. \A i \in 1..k : p \notin (ms[i].dst + 1)..(ms[i].dst + ms[i].n)
    BY <1>6
  <2>3. g[p] = h[p]
    BY <2>2 DEF MovesMade
  <2> QED
    BY <1>4, <2>1, <2>3
<1>7. MovesMade(ms, k + 1, h, c)
  BY <1>5, <1>6 DEF MovesMade
<1> QED
  BY <1>2, <1>7, <1>e

\* All of them.
LEMMA CopyAllIs ==
  ASSUME NEW S, NEW L \in Nat, NEW h \in [1..L -> S], NEW ms, NEW chunk \in Nat \ {0},
         MovesOrdered(ms, L, chunk)
  PROVE  CopyAll(h, ms, chunk) \in [1..L -> S] /\ MovesMade(ms, Len(ms), h, CopyAll(h, ms, chunk))
<1> DEFINE n == Len(ms)
           R == [1..L -> S]
           next == [x \in (1..n) \X R |-> StreamCopy(x[2], ms[x[1]], chunk)]
           IsRun(f) == f = [k \in 0..n |-> IF k = 0 THEN h ELSE StreamCopy(f[k - 1], ms[k], chunk)]
           run == CHOOSE f : IsRun(f)
<1>1. CopyAll(h, ms, chunk) = run[n]
  BY Zenon DEF CopyAll
<1>2. n \in Nat
  BY DEF MovesOrdered
<1>3. ASSUME NEW k \in 1..n, NEW g \in R PROVE StreamCopy(g, ms[k], chunk) \in R
  <2> DEFINE m == ms[k]
  <2>1. MoveFits(m, L) /\ MoveTame(m, chunk)
    BY DEF MovesOrdered
  <2> HIDE DEF m
  <2>2. StreamCopy(g, m, chunk) = CopyChunk(g, m.src, m.dst, m.n)
    BY <2>1, StreamCopyIs
  <2>3. CopyChunk(g, m.src, m.dst, m.n) \in R
    <3> DEFINE x == m.src
               y == m.dst
               z == m.n
    <3>1. x \in Nat /\ y \in Nat /\ z \in Nat /\ x + z <= L /\ y + z <= L
      BY <2>1 DEF MoveFits
    <3> HIDE DEF x, y, z
    <3>2. CopyChunk(g, x, y, z) \in [1..L -> S]
      BY <3>1, ChunkTyped
    <3> QED
      BY <3>2 DEF x, y, z
  <2> QED
    BY <2>2, <2>3 DEF m
<1>4. \E f : IsRun(f)
  <2>2. \A k \in 1..n, g \in R : next[<<k, g>>] = StreamCopy(g, ms[k], chunk)
    OBVIOUS
  <2>3. StaysIn(n, R, next)
    <3> HIDE DEF R, next
    <3> QED
      BY <1>3, <2>2 DEF StaysIn
  <2>1. h \in R
    OBVIOUS
  <2> HIDE DEF R, next, n
  <2>p. PICK f : Iterates(f, n, R, h, next)
    BY <1>2, <2>1, <2>3, IterationExists
  <2>4. f \in [0..n -> R] /\ \A j \in 0..n : f[j] = IF j = 0 THEN h ELSE next[<<j, f[j - 1]>>]
    BY <2>p DEF Iterates
  <2>5. ASSUME NEW j \in 0..n PROVE f[j] = IF j = 0 THEN h ELSE StreamCopy(f[j - 1], ms[j], chunk)
    <3>1. CASE j = 0
      BY <2>4, <3>1
    <3>2. CASE j # 0
      <4>1. j \in 1..n /\ f[j - 1] \in R
        BY <1>2, <2>4, <3>2
      <4> QED
        BY <2>2, <2>4, <3>2, <4>1
    <3> QED
      BY <3>1, <3>2
  <2>6. f = [j \in 0..n |-> IF j = 0 THEN h ELSE StreamCopy(f[j - 1], ms[j], chunk)]
    BY <2>4, <2>5
  <2> QED
    BY <2>6
<1>5. IsRun(run)
  <2> HIDE DEF IsRun
  <2> QED
    BY <1>4
<1>6. run[0] = h /\ \A k \in 1..n : run[k] = StreamCopy(run[k - 1], ms[k], chunk)
  <2> HIDE DEF run, n
  <2>1. 0 \in 0..n /\ \A k \in 1..n : k \in 0..n /\ k # 0
    BY <1>2
  <2> QED
    BY <1>5, <2>1
<1> HIDE DEF run, IsRun
<1> DEFINE T == {k \in Nat : k <= n => run[k] \in R /\ MovesMade(ms, k, h, run[k])}
<1>7. 0 \in T
  BY <1>6 DEF MovesMade
<1>8. ASSUME NEW k \in Nat, k \in T PROVE k + 1 \in T
  <2> SUFFICES ASSUME k + 1 <= n
               PROVE  run[k + 1] \in R /\ MovesMade(ms, k + 1, h, run[k + 1])
    OBVIOUS
  <2>1. run[k] \in R /\ MovesMade(ms, k, h, run[k])
    BY <1>2, <1>8
  <2>2. run[k + 1] = StreamCopy(run[k], ms[k + 1], chunk) /\ k + 1 \in 1..n
    BY <1>2, <1>6
  <2>3. run[k + 1] \in R
    BY <1>3, <2>1, <2>2
  <2>4. MovesMade(ms, k + 1, h, StreamCopy(run[k], ms[k + 1], chunk))
    <3> DEFINE g == run[k]
    <3>1. g \in [1..L -> S] /\ MovesMade(ms, k, h, g) /\ k + 1 <= Len(ms)
      BY <2>1
    <3> HIDE DEF g
    <3>2. MovesMade(ms, k + 1, h, StreamCopy(g, ms[k + 1], chunk))
      BY <3>1, OneMoreMove
    <3> QED
      BY <3>2 DEF g
  <2> QED
    BY <2>2, <2>3, <2>4
<1>9. n \in T
  <2> HIDE DEF T
  <2> QED
    BY <1>2, <1>7, <1>8, SetInduction
<1> QED
  BY <1>1, <1>2, <1>9

\* Plans of N blobs.
ArePlans(plans, N) ==
  /\ N \in Nat /\ DOMAIN plans = 1..N
  /\ \A b \in 1..N : plans[b].old \in Nat /\ plans[b].new \in Nat /\ plans[b].n \in Nat

\* The rank of a live plan in the order of the old offsets counts those before it: it is
\* less than the number of plans, and grows with the order.
LEMMA PlanRanks ==
  ASSUME NEW plans, NEW N, ArePlans(plans, N)
  PROVE  /\ IsFiniteSet(LivePlans(plans)) /\ Cardinality(LivePlans(plans)) \in Nat
         /\ \A b \in LivePlans(plans) :
              Cardinality(PlansBefore(plans, b)) \in 0..(Cardinality(LivePlans(plans)) - 1)
         /\ \A a, b \in LivePlans(plans) :
              a \in PlansBefore(plans, b)
                => Cardinality(PlansBefore(plans, a)) < Cardinality(PlansBefore(plans, b))
         /\ \A a, b \in LivePlans(plans) :
              a # b => a \in PlansBefore(plans, b) \/ b \in PlansBefore(plans, a)
<1> DEFINE Live == LivePlans(plans)
           Before(b) == PlansBefore(plans, b)
<1>1. Live \subseteq 1..N /\ \A b \in Live : plans[b].old \in Nat /\ b \in Nat
  BY DEF ArePlans, LivePlans
<1>2. IsFiniteSet(Live) /\ Cardinality(Live) \in Nat
  <2>1. IsFiniteSet(1..N)
    BY FS_Interval DEF ArePlans
  <2> QED
    BY <1>1, <2>1, FS_Subset, FS_CardinalityType
<1>3. \A a, b \in Live :
        a \in Before(b) <=> plans[a].old < plans[b].old \/ (plans[a].old = plans[b].old /\ a < b)
  BY DEF PlansBefore
<1>4. \A b \in Live : Before(b) \in SUBSET Live
  BY DEF PlansBefore
<1> HIDE DEF Live, Before
<1>5. \A b \in Live : b \notin Before(b)
  BY <1>1, <1>3
<1>6. \A b \in Live : IsFiniteSet(Before(b)) /\ Cardinality(Before(b)) \in Nat
  BY <1>2, <1>4, FS_Subset, FS_CardinalityType
<1>7. ASSUME NEW b \in Live PROVE Cardinality(Before(b)) < Cardinality(Live)
  <2>1. Before(b) # Live
    BY <1>5
  <2>2. Cardinality(Before(b)) <= Cardinality(Live) /\ Cardinality(Live) # Cardinality(Before(b))
    BY <1>2, <1>4, <2>1, FS_Subset
  <2> QED
    BY <1>2, <1>6, <2>2
<1>8. ASSUME NEW a \in Live, NEW b \in Live, a \in Before(b)
      PROVE  Cardinality(Before(a)) < Cardinality(Before(b))
  <2>1. ASSUME NEW x \in Before(a) PROVE x \in Before(b)
    <3>1. x \in Live
      BY <1>4
    <3> QED
      BY <1>1, <1>3, <1>8, <3>1
  <2>2. Before(a) \in SUBSET Before(b) /\ Before(a) # Before(b)
    BY <1>5, <1>8, <2>1
  <2>3. Cardinality(Before(a)) <= Cardinality(Before(b)) /\ Cardinality(Before(b)) # Cardinality(Before(a))
    BY <1>6, <2>2, FS_Subset
  <2> QED
    BY <1>6, <2>3
<1>9. \A a, b \in Live : a # b => a \in Before(b) \/ b \in Before(a)
  BY <1>1, <1>3
<1>10. \A b \in Live : Cardinality(Before(b)) \in 0..(Cardinality(Live) - 1)
  BY <1>2, <1>6, <1>7
<1> QED
  BY <1>2, <1>8, <1>9, <1>10 DEF Live, Before

\* s has the live plans, each once, by their old offsets; at[k] is the blob of the k-th.
PlansSorted(plans, s, at) ==
  /\ Len(s) \in Nat /\ DOMAIN s = 1..Len(s)
  /\ at \in [1..Len(s) -> LivePlans(plans)]
  /\ \A k \in 1..Len(s) : s[k] = plans[at[k]]
  /\ \A b \in LivePlans(plans) : \E k \in 1..Len(s) : at[k] = b
  /\ \A i, j \in 1..Len(s) : i < j => at[i] # at[j] /\ s[i].old <= s[j].old

LEMMA SortedPlansAre ==
  ASSUME NEW plans, NEW N, ArePlans(plans, N)
  PROVE  \E at : PlansSorted(plans, SortedPlans(plans), at)
<1> DEFINE Live == LivePlans(plans)
           K == Cardinality(Live)
           rank == [b \in Live |-> Cardinality(PlansBefore(plans, b))]
           at == [k \in 1..K |-> PlanAt(plans, k)]
           s == SortedPlans(plans)
<1>1. /\ IsFiniteSet(Live) /\ K \in Nat
      /\ rank \in [Live -> 0..(K - 1)]
      /\ \A a, b \in Live : a \in PlansBefore(plans, b) => rank[a] < rank[b]
      /\ \A a, b \in Live : a # b => a \in PlansBefore(plans, b) \/ b \in PlansBefore(plans, a)
  BY PlanRanks
<1>2. \A b \in Live : plans[b].old \in Nat
  BY DEF ArePlans, LivePlans
<1>3. \A a, b \in Live : plans[a].old < plans[b].old => a \in PlansBefore(plans, b)
  BY DEF PlansBefore
<1>4. \A k \in 1..K : PlanAt(plans, k) = CHOOSE b \in Live : rank[b] = k - 1
  BY DEF PlanAt
<1>5. s = [k \in 1..K |-> plans[PlanAt(plans, k)]]
  BY DEF SortedPlans
<1> HIDE DEF Live, K, rank, s
<1>6. \A a, b \in Live : rank[a] = rank[b] => a = b
  <2> SUFFICES ASSUME NEW a \in Live, NEW b \in Live, rank[a] = rank[b], a # b PROVE FALSE
    OBVIOUS
  <2>1. rank[a] < rank[b] \/ rank[b] < rank[a]
    BY <1>1
  <2>2. rank[a] \in Int /\ rank[b] \in Int
    BY <1>1
  <2> QED
    BY <2>1, <2>2
<1>7. ASSUME NEW x \in 0..(K - 1) PROVE \E b \in Live : rank[b] = x
  <2> DEFINE Rs == 0..(K - 1)
  <2>1. IsFiniteSet(Rs) /\ Cardinality(Rs) = K
    <3>1. K - 1 \in Int /\ (0 > K - 1 <=> K = 0)
      BY <1>1
    <3>2. IsFiniteSet(0..(K - 1)) /\ Cardinality(0..(K - 1)) = IF 0 > K - 1 THEN 0 ELSE (K - 1) - 0 + 1
      BY <3>1, FS_Interval
    <3> QED
      BY <1>1, <3>1, <3>2
  <2>2. rank \in Injection(Live, Rs)
    BY <1>1, <1>6 DEF Injection, IsInjective
  <2> HIDE DEF Rs
  <2>3. rank \in Surjection(Live, Rs)
    BY <2>1, <2>2, FS_Injection DEF K
  <2> QED
    BY <2>3 DEF Surjection, Rs
<1>8. \A k \in 1..K : at[k] \in Live /\ rank[at[k]] = k - 1
  <2> SUFFICES ASSUME NEW k \in 1..K PROVE at[k] \in Live /\ rank[at[k]] = k - 1
    OBVIOUS
  <2>1. k - 1 \in 0..(K - 1)
    BY <1>1
  <2>2. \E b \in Live : rank[b] = k - 1
    BY <1>7, <2>1
  <2>3. at[k] = CHOOSE b \in Live : rank[b] = k - 1
    BY <1>4
  <2> QED
    BY <2>2, <2>3
<1>9. Len(s) = K /\ DOMAIN s = 1..K /\ \A k \in 1..K : s[k] = plans[at[k]]
  BY <1>1, <1>5
<1>10. at \in [1..K -> Live]
  BY <1>8
<1> HIDE DEF at
<1>11. ASSUME NEW b \in Live PROVE \E k \in 1..K : at[k] = b
  <2>1. rank[b] + 1 \in 1..K /\ rank[b] \in Int
    BY <1>1
  <2>2. rank[at[rank[b] + 1]] = rank[b]
    BY <1>8, <2>1
  <2>3. at[rank[b] + 1] = b
    BY <1>6, <1>8, <2>1, <2>2
  <2> QED
    BY <2>1, <2>3
<1>12. ASSUME NEW i \in 1..K, NEW j \in 1..K, i < j PROVE at[i] # at[j] /\ s[i].old <= s[j].old
  <2>1. at[i] \in Live /\ at[j] \in Live /\ rank[at[i]] < rank[at[j]]
    BY <1>1, <1>8, <1>12
  <2>2. rank[at[i]] \in Int /\ rank[at[j]] \in Int
    BY <1>1, <2>1
  <2>3. ~(plans[at[j]].old < plans[at[i]].old)
    BY <1>1, <1>3, <2>1, <2>2
  <2> QED
    BY <1>2, <1>9, <2>1, <2>2, <2>3
<1> QED
  BY <1>1, <1>9, <1>10, <1>11, <1>12 DEF PlansSorted, Live, s

\* Plans for a heap of L units that a heap of size units is to hold, no two of the live
\* blobs in the same place; and the same of the sorted list of them.
PlansFit(plans, N, L, size) ==
  /\ ArePlans(plans, N)
  /\ L \in Nat /\ size \in Nat /\ size <= L
  /\ \A b \in 1..N : plans[b].n > 0 => plans[b].old + plans[b].n <= L /\ plans[b].new + plans[b].n <= size
  /\ \A a, b \in 1..N :
       a # b /\ plans[a].n > 0 /\ plans[b].n > 0
         => plans[a].new + plans[a].n <= plans[b].new \/ plans[b].new + plans[b].n <= plans[a].new

SortedFit(s, L, size) ==
  /\ L \in Nat /\ size \in Nat /\ size <= L
  /\ Len(s) \in Nat /\ DOMAIN s = 1..Len(s)
  /\ \A k \in 1..Len(s) :
       /\ s[k].old \in Nat /\ s[k].new \in Nat /\ s[k].n \in Nat
       /\ s[k].old + s[k].n <= L /\ s[k].new + s[k].n <= size
  /\ \A i, j \in 1..Len(s) : i < j => s[i].old <= s[j].old
  /\ \A i, j \in 1..Len(s) :
       i # j => s[i].new + s[i].n <= s[j].new \/ s[j].new + s[j].n <= s[i].new

LEMMA SortedPlansFit ==
  ASSUME NEW plans, NEW N, NEW L, NEW size, PlansFit(plans, N, L, size), NEW s, NEW at,
         PlansSorted(plans, s, at)
  PROVE  SortedFit(s, L, size)
<1>1. \A b \in LivePlans(plans) : b \in 1..N /\ plans[b].n > 0
  BY DEF LivePlans, PlansFit, ArePlans
<1>2. Len(s) \in Nat /\ DOMAIN s = 1..Len(s) /\ \A k \in 1..Len(s) : at[k] \in LivePlans(plans) /\ s[k] = plans[at[k]]
  BY DEF PlansSorted
<1>3. \A i, j \in 1..Len(s) : i # j => at[i] # at[j]
  BY <1>2 DEF PlansSorted
<1>4. \A i, j \in 1..Len(s) : i < j => s[i].old <= s[j].old
  BY DEF PlansSorted
<1>5. ASSUME NEW k \in 1..Len(s)
      PROVE  /\ s[k].old \in Nat /\ s[k].new \in Nat /\ s[k].n \in Nat
             /\ s[k].old + s[k].n <= L /\ s[k].new + s[k].n <= size
  BY <1>1, <1>2 DEF PlansFit, ArePlans
<1>6. ASSUME NEW i \in 1..Len(s), NEW j \in 1..Len(s), i # j
      PROVE  s[i].new + s[i].n <= s[j].new \/ s[j].new + s[j].n <= s[i].new
  <2>1. at[i] \in 1..N /\ at[j] \in 1..N /\ plans[at[i]].n > 0 /\ plans[at[j]].n > 0 /\ at[i] # at[j]
    BY <1>1, <1>2, <1>3, <1>6
  <2> QED
    BY <1>2, <2>1 DEF PlansFit
<1>7. L \in Nat /\ size \in Nat /\ size <= L
  BY DEF PlansFit
<1> QED
  BY <1>2, <1>4, <1>5, <1>6, <1>7 DEF SortedFit

\* The moves in place do no harm when the code's check says so and none of them is one of
\* a blob longer than a chunk onto its own end.
LEMMA MovesInPlaceOrdered ==
  ASSUME NEW s, NEW L, NEW size, SortedFit(s, L, size), NEW chunk \in Nat \ {0}, InPlaceSafe(s, L),
         \A i \in 1..Len(s) : ~(s[i].old < s[i].new /\ s[i].new < s[i].old + s[i].n /\ s[i].n > chunk)
  PROVE  /\ Len(MovesInPlace(s)) = Len(s)
         /\ \A i \in 1..Len(s) : /\ MovesInPlace(s)[i].src = s[i].old /\ MovesInPlace(s)[i].dst = s[i].new
                                 /\ MovesInPlace(s)[i].n = s[i].n
         /\ MovesOrdered(MovesInPlace(s), L, chunk)
<1> DEFINE ms == MovesInPlace(s)
           n == Len(s)
<1>1. n \in Nat /\ DOMAIN s = 1..n
  BY DEF SortedFit
<1>2. Len(ms) = n /\ \A i \in 1..n : ms[i].src = s[i].old /\ ms[i].dst = s[i].new /\ ms[i].n = s[i].n
  BY <1>1 DEF MovesInPlace
<1>3. \A k \in 1..n : /\ s[k].old \in Nat /\ s[k].new \in Nat /\ s[k].n \in Nat
                      /\ s[k].old + s[k].n <= L /\ s[k].new + s[k].n <= size
  BY DEF SortedFit
<1>4. \A i, j \in 1..n : i < j => s[i].old <= s[j].old
  BY DEF SortedFit
<1>5. size \in Nat /\ L \in Nat /\ size <= L
  BY DEF SortedFit
<1>6. \A i \in 1..n : i < n => s[i].new + s[i].n <= s[i + 1].old
  BY <1>1 DEF InPlaceSafe
<1>7. \A i, j \in 1..n : i # j => s[i].new + s[i].n <= s[j].new \/ s[j].new + s[j].n <= s[i].new
  BY DEF SortedFit
<1> HIDE DEF ms, n
<1>8. ASSUME NEW i \in 1..n PROVE MoveFits(ms[i], L)
  BY <1>2, <1>3, <1>5 DEF MoveFits
<1>9. ASSUME NEW i \in 1..n PROVE MoveTame(ms[i], chunk)
  <2>1. ~(s[i].old < s[i].new /\ s[i].new < s[i].old + s[i].n /\ s[i].n > chunk)
    BY DEF n
  <2> QED
    BY <1>2, <1>3, <2>1 DEF MoveTame
<1>10. ASSUME NEW i \in 1..n, NEW j \in 1..n, i < j PROVE ms[i].dst + ms[i].n <= ms[j].src
  <2>1. i < n /\ i + 1 \in 1..n /\ (i + 1 < j \/ i + 1 = j)
    BY <1>1, <1>10
  <2>2. s[i].new + s[i].n <= s[i + 1].old
    BY <1>6, <2>1
  <2>3. s[i + 1].old <= s[j].old
    BY <1>3, <1>4, <2>1
  <2>4. s[i].new \in Nat /\ s[i].n \in Nat /\ s[i + 1].old \in Nat /\ s[j].old \in Nat
    BY <1>3, <2>1
  <2>5. s[i].new + s[i].n <= s[j].old
    BY <2>2, <2>3, <2>4
  <2> QED
    BY <1>2, <2>5
<1>11. ASSUME NEW i \in 1..n, NEW j \in 1..n, i # j
       PROVE  ms[i].dst + ms[i].n <= ms[j].dst \/ ms[j].dst + ms[j].n <= ms[i].dst
  BY <1>2, <1>7, <1>11
<1>12. MovesOrdered(ms, L, chunk)
  BY <1>1, <1>2, <1>8, <1>9, <1>10, <1>11 DEF MovesOrdered
<1> QED
  BY <1>2, <1>12 DEF ms, n

\* The moves to the staging area behind the heap, and those back.
LEMMA ToStageOrdered ==
  ASSUME NEW s, NEW L, NEW size, SortedFit(s, L, size), NEW chunk \in Nat \ {0}
  PROVE  /\ Len(ToStage(s, L)) = Len(s)
         /\ \A i \in 1..Len(s) : /\ ToStage(s, L)[i].src = s[i].old /\ ToStage(s, L)[i].dst = L + s[i].new
                                 /\ ToStage(s, L)[i].n = s[i].n
         /\ MovesOrdered(ToStage(s, L), L + size, chunk)
<1> DEFINE ms == ToStage(s, L)
           n == Len(s)
<1>1. n \in Nat /\ DOMAIN s = 1..n
  BY DEF SortedFit
<1>2. Len(ms) = n /\ \A i \in 1..n : ms[i].src = s[i].old /\ ms[i].dst = L + s[i].new /\ ms[i].n = s[i].n
  BY <1>1 DEF ToStage
<1>3. \A k \in 1..n : /\ s[k].old \in Nat /\ s[k].new \in Nat /\ s[k].n \in Nat
                      /\ s[k].old + s[k].n <= L /\ s[k].new + s[k].n <= size
  BY DEF SortedFit
<1>5. size \in Nat /\ L \in Nat /\ size <= L
  BY DEF SortedFit
<1>7. \A i, j \in 1..n : i # j => s[i].new + s[i].n <= s[j].new \/ s[j].new + s[j].n <= s[i].new
  BY DEF SortedFit
<1> HIDE DEF ms, n
<1>8. ASSUME NEW i \in 1..n PROVE MoveFits(ms[i], L + size) /\ MoveTame(ms[i], chunk)
  <2> DEFINE a == s[i].old
             b == s[i].new
             c == s[i].n
  <2>1. a \in Nat /\ b \in Nat /\ c \in Nat /\ a + c <= L /\ b + c <= size
    BY <1>3
  <2>2. ms[i].src = a /\ ms[i].dst = L + b /\ ms[i].n = c
    BY <1>2
  <2> HIDE DEF a, b, c
  <2> QED
    BY <1>5, <2>1, <2>2 DEF MoveFits, MoveTame
<1>10. ASSUME NEW i \in 1..n, NEW j \in 1..n PROVE ms[j].src + ms[j].n <= ms[i].dst
  <2> DEFINE a == s[i].old
             b == s[i].new
             c == s[i].n
             x == s[j].old
             y == s[j].new
             z == s[j].n
  <2>1. /\ a \in Nat /\ b \in Nat /\ c \in Nat /\ a + c <= L /\ b + c <= size
        /\ x \in Nat /\ y \in Nat /\ z \in Nat /\ x + z <= L /\ y + z <= size
    BY <1>3
  <2>2. ms[i].src = a /\ ms[i].dst = L + b /\ ms[i].n = c
    BY <1>2
  <2>3. ms[j].src = x /\ ms[j].dst = L + y /\ ms[j].n = z
    BY <1>2
  <2> HIDE DEF a, b, c, x, y, z
  <2> QED
    BY <1>5, <2>1, <2>2, <2>3
<1>11. ASSUME NEW i \in 1..n, NEW j \in 1..n, i # j
       PROVE  ms[i].dst + ms[i].n <= ms[j].dst \/ ms[j].dst + ms[j].n <= ms[i].dst
  <2> DEFINE a == s[i].old
             b == s[i].new
             c == s[i].n
             x == s[j].old
             y == s[j].new
             z == s[j].n
  <2>1. /\ a \in Nat /\ b \in Nat /\ c \in Nat /\ a + c <= L /\ b + c <= size
        /\ x \in Nat /\ y \in Nat /\ z \in Nat /\ x + z <= L /\ y + z <= size
    BY <1>3
  <2>2. ms[i].src = a /\ ms[i].dst = L + b /\ ms[i].n = c
    BY <1>2
  <2>3. ms[j].src = x /\ ms[j].dst = L + y /\ ms[j].n = z
    BY <1>2
  <2>4. b + c <= y \/ y + z <= b
    BY <1>7, <1>11
  <2> HIDE DEF a, b, c, x, y, z
  <2> QED
    BY <1>5, <2>1, <2>2, <2>3, <2>4
<1>12. MovesOrdered(ms, L + size, chunk)
  BY <1>1, <1>2, <1>8, <1>10, <1>11 DEF MovesOrdered
<1> QED
  BY <1>2, <1>12 DEF ms, n

LEMMA FromStageOrdered ==
  ASSUME NEW s, NEW L, NEW size, SortedFit(s, L, size), NEW chunk \in Nat \ {0}
  PROVE  /\ Len(FromStage(s, L)) = Len(s)
         /\ \A i \in 1..Len(s) : /\ FromStage(s, L)[i].src = L + s[i].new /\ FromStage(s, L)[i].dst = s[i].new
                                 /\ FromStage(s, L)[i].n = s[i].n
         /\ MovesOrdered(FromStage(s, L), L + size, chunk)
<1> DEFINE ms == FromStage(s, L)
           n == Len(s)
<1>1. n \in Nat /\ DOMAIN s = 1..n
  BY DEF SortedFit
<1>2. Len(ms) = n /\ \A i \in 1..n : ms[i].src = L + s[i].new /\ ms[i].dst = s[i].new /\ ms[i].n = s[i].n
  BY <1>1 DEF FromStage
<1>3. \A k \in 1..n : /\ s[k].old \in Nat /\ s[k].new \in Nat /\ s[k].n \in Nat
                      /\ s[k].old + s[k].n <= L /\ s[k].new + s[k].n <= size
  BY DEF SortedFit
<1>5. size \in Nat /\ L \in Nat /\ size <= L
  BY DEF SortedFit
<1>7. \A i, j \in 1..n : i # j => s[i].new + s[i].n <= s[j].new \/ s[j].new + s[j].n <= s[i].new
  BY DEF SortedFit
<1> HIDE DEF ms, n
<1>8. ASSUME NEW i \in 1..n PROVE MoveFits(ms[i], L + size) /\ MoveTame(ms[i], chunk)
  <2> DEFINE a == s[i].old
             b == s[i].new
             c == s[i].n
  <2>1. a \in Nat /\ b \in Nat /\ c \in Nat /\ a + c <= L /\ b + c <= size
    BY <1>3
  <2>2. ms[i].src = L + b /\ ms[i].dst = b /\ ms[i].n = c
    BY <1>2
  <2> HIDE DEF a, b, c
  <2> QED
    BY <1>5, <2>1, <2>2 DEF MoveFits, MoveTame
<1>10. ASSUME NEW i \in 1..n, NEW j \in 1..n PROVE ms[i].dst + ms[i].n <= ms[j].src
  <2> DEFINE a == s[i].old
             b == s[i].new
             c == s[i].n
             x == s[j].old
             y == s[j].new
             z == s[j].n
  <2>1. /\ a \in Nat /\ b \in Nat /\ c \in Nat /\ a + c <= L /\ b + c <= size
        /\ x \in Nat /\ y \in Nat /\ z \in Nat /\ x + z <= L /\ y + z <= size
    BY <1>3
  <2>2. ms[i].src = L + b /\ ms[i].dst = b /\ ms[i].n = c
    BY <1>2
  <2>3. ms[j].src = L + y /\ ms[j].dst = y /\ ms[j].n = z
    BY <1>2
  <2> HIDE DEF a, b, c, x, y, z
  <2> QED
    BY <1>5, <2>1, <2>2, <2>3
<1>11. ASSUME NEW i \in 1..n, NEW j \in 1..n, i # j
       PROVE  ms[i].dst + ms[i].n <= ms[j].dst \/ ms[j].dst + ms[j].n <= ms[i].dst
  <2> DEFINE a == s[i].old
             b == s[i].new
             c == s[i].n
             x == s[j].old
             y == s[j].new
             z == s[j].n
  <2>1. /\ a \in Nat /\ b \in Nat /\ c \in Nat /\ a + c <= L /\ b + c <= size
        /\ x \in Nat /\ y \in Nat /\ z \in Nat /\ x + z <= L /\ y + z <= size
    BY <1>3
  <2>2. ms[i].src = L + b /\ ms[i].dst = b /\ ms[i].n = c
    BY <1>2
  <2>3. ms[j].src = L + y /\ ms[j].dst = y /\ ms[j].n = z
    BY <1>2
  <2>4. b + c <= y \/ y + z <= b
    BY <1>7, <1>11
  <2> HIDE DEF a, b, c, x, y, z
  <2> QED
    BY <1>5, <2>1, <2>2, <2>3, <2>4
<1>12. MovesOrdered(ms, L + size, chunk)
  BY <1>1, <1>2, <1>8, <1>10, <1>11 DEF MovesOrdered
<1> QED
  BY <1>2, <1>12 DEF ms, n

\* Every live blob is where its plan says.
BlobsMoved(plans, N, h, g) ==
  \A b \in 1..N : \A u \in 1..plans[b].n : g[plans[b].new + u] = h[plans[b].old + u]

LEMMA CopiedHeapIs ==
  ASSUME NEW S, NEW L, NEW h \in Seq(S), Len(h) = L, NEW plans, NEW N, NEW size,
         PlansFit(plans, N, L, size), NEW chunk \in Nat \ {0}, ~Clobbers(plans, L, chunk)
  PROVE  /\ CopiedHeap(h, plans, size, chunk) \in Seq(S)
         /\ size <= Len(CopiedHeap(h, plans, size, chunk))
         /\ BlobsMoved(plans, N, h, CopiedHeap(h, plans, size, chunk))
<1> DEFINE s == SortedPlans(plans)
           grown == h \o [p \in 1..size |-> h[1]]
           staged == CopyAll(grown, ToStage(s, L), chunk)
           back == CopyAll(staged, FromStage(s, L), chunk)
           placed == CopyAll(h, MovesInPlace(s), chunk)
           Got(g) == g \in Seq(S) /\ size <= Len(g) /\ \A k \in 1..Len(s) : \A u \in 1..s[k].n : g[s[k].new + u] = h[s[k].old + u]
<1>1. CopiedHeap(h, plans, size, chunk) = IF InPlaceSafe(s, L) THEN placed ELSE back
  BY Zenon DEF CopiedHeap
<1>2. ArePlans(plans, N) /\ L \in Nat /\ size \in Nat /\ size <= L
  BY DEF PlansFit
<1>3. PICK at : PlansSorted(plans, s, at)
  BY <1>2, SortedPlansAre
<1>4. InPlaceSafe(s, L) => \A i \in DOMAIN s : ~(s[i].old < s[i].new /\ s[i].new < s[i].old + s[i].n /\ s[i].n > chunk)
  BY DEF Clobbers
<1>h. h \in [1..L -> S]
  <2>1. h \in [1..Len(h) -> S]
    OBVIOUS
  <2> QED
    BY <2>1
<1>g. grown \in [1..(L + size) -> S] /\ \A p \in 1..L : grown[p] = h[p]
  <2> DEFINE rest == [p \in 1..size |-> h[1]]
  <2>1. rest \in Seq(S) /\ Len(rest) = size
    <3>1. \A p \in 1..size : h[1] \in S
      <4> SUFFICES ASSUME NEW p \in 1..size PROVE h[1] \in S
        OBVIOUS
      <4>1. 1 \in 1..L
        BY <1>2
      <4> QED
        BY <1>h, <4>1
    <3>2. rest \in [1..size -> S]
      BY <3>1
    <3> HIDE DEF rest
    <3>3. rest \in Seq(S) /\ DOMAIN rest = 1..size
      BY <1>2, <3>2
    <3> QED
      BY <1>2, <3>3
  <2> HIDE DEF rest
  <2>2. h \o rest \in Seq(S) /\ Len(h \o rest) = L + size /\ \A p \in 1..L : (h \o rest)[p] = h[p]
    BY <2>1, ConcatTyped
  <2> DEFINE g == h \o rest
  <2>3. g \in [1..Len(g) -> S]
    <3>1. g \in Seq(S)
      BY <2>2
    <3> HIDE DEF g
    <3> QED
      BY <3>1
  <2>4. g \in [1..(L + size) -> S]
    <3> HIDE DEF g
    <3> QED
      BY <2>2, <2>3 DEF g
  <2> QED
    BY <2>2, <2>4 DEF rest
<1> HIDE DEF s, grown, staged, back, placed
<1>5. SortedFit(s, L, size)
  BY <1>3, SortedPlansFit
<1>6. /\ DOMAIN s = 1..Len(s) /\ Len(s) \in Nat
      /\ \A k \in 1..Len(s) : /\ s[k].old \in Nat /\ s[k].new \in Nat /\ s[k].n \in Nat
                              /\ s[k].old + s[k].n <= L /\ s[k].new + s[k].n <= size
  BY <1>5 DEF SortedFit
<1>7. ASSUME InPlaceSafe(s, L) PROVE Got(CopiedHeap(h, plans, size, chunk))
  <2> DEFINE ms == MovesInPlace(s)
  <2>1. \A i \in 1..Len(s) : ~(s[i].old < s[i].new /\ s[i].new < s[i].old + s[i].n /\ s[i].n > chunk)
    BY <1>4, <1>6, <1>7
  <2>2. /\ Len(ms) = Len(s)
        /\ \A i \in 1..Len(s) : ms[i].src = s[i].old /\ ms[i].dst = s[i].new /\ ms[i].n = s[i].n
        /\ MovesOrdered(ms, L, chunk)
    BY <1>5, <1>7, <2>1, MovesInPlaceOrdered
  <2> HIDE DEF ms
  <2>3. CopyAll(h, ms, chunk) \in [1..L -> S] /\ MovesMade(ms, Len(ms), h, CopyAll(h, ms, chunk))
    BY <1>2, <1>h, <2>2, CopyAllIs
  <2>4. placed \in [1..L -> S] /\ MovesMade(ms, Len(ms), h, placed)
    BY <2>3 DEF placed, ms
  <2>5. placed \in Seq(S) /\ Len(placed) = L
    <3>1. placed \in Seq(S) /\ DOMAIN placed = 1..L
      BY <1>2, <2>4
    <3> QED
      BY <1>2, <3>1
  <2>6. \A k \in 1..Len(s) : \A u \in 1..s[k].n : placed[s[k].new + u] = h[s[k].old + u]
    BY <2>2, <2>4 DEF MovesMade
  <2> QED
    BY <1>1, <1>2, <1>7, <2>5, <2>6
<1>8. ASSUME ~InPlaceSafe(s, L) PROVE Got(CopiedHeap(h, plans, size, chunk))
  <2> DEFINE ms == ToStage(s, L)
             ns == FromStage(s, L)
  <2>1. /\ Len(ms) = Len(s)
        /\ \A i \in 1..Len(s) : ms[i].src = s[i].old /\ ms[i].dst = L + s[i].new /\ ms[i].n = s[i].n
        /\ MovesOrdered(ms, L + size, chunk)
    BY <1>5, ToStageOrdered
  <2>2. /\ Len(ns) = Len(s)
        /\ \A i \in 1..Len(s) : ns[i].src = L + s[i].new /\ ns[i].dst = s[i].new /\ ns[i].n = s[i].n
        /\ MovesOrdered(ns, L + size, chunk)
    BY <1>5, FromStageOrdered
  <2> DEFINE M == L + size
  <2>m. M \in Nat
    BY <1>2
  <2> HIDE DEF ms, ns, M
  <2>3. CopyAll(grown, ms, chunk) \in [1..M -> S] /\ MovesMade(ms, Len(ms), grown, CopyAll(grown, ms, chunk))
    BY <1>g, <2>m, <2>1, CopyAllIs DEF M
  <2>4. staged \in [1..M -> S] /\ MovesMade(ms, Len(ms), grown, staged)
    BY <2>3 DEF staged, ms
  <2>5. CopyAll(staged, ns, chunk) \in [1..M -> S] /\ MovesMade(ns, Len(ns), staged, CopyAll(staged, ns, chunk))
    BY <2>m, <2>2, <2>4, CopyAllIs DEF M
  <2>6. back \in [1..M -> S] /\ MovesMade(ns, Len(ns), staged, back)
    BY <2>5 DEF back, ns
  <2>7. back \in Seq(S) /\ Len(back) = M /\ size <= M
    <3>1. back \in Seq(S) /\ DOMAIN back = 1..M
      BY <2>m, <2>6
    <3> QED
      BY <1>2, <2>m, <3>1 DEF M
  <2>8. ASSUME NEW k \in 1..Len(s), NEW u \in 1..s[k].n PROVE back[s[k].new + u] = h[s[k].old + u]
    <3>1. back[s[k].new + u] = staged[(L + s[k].new) + u]
      <4>1. k \in 1..Len(ns) /\ u \in 1..ns[k].n
        BY <2>2
      <4>2. back[ns[k].dst + u] = staged[ns[k].src + u]
        BY <2>6, <4>1 DEF MovesMade
      <4> QED
        BY <2>2, <4>2
    <3>2. staged[(L + s[k].new) + u] = grown[s[k].old + u]
      <4>1. k \in 1..Len(ms) /\ u \in 1..ms[k].n
        BY <2>1
      <4>2. staged[ms[k].dst + u] = grown[ms[k].src + u]
        BY <2>4, <4>1 DEF MovesMade
      <4> QED
        BY <2>1, <4>2
    <3>3. s[k].old + u \in 1..L
      BY <1>2, <1>6
    <3> QED
      BY <1>g, <3>1, <3>2, <3>3
  <2> QED
    BY <1>1, <1>8, <2>7, <2>8
<1>9. Got(CopiedHeap(h, plans, size, chunk))
  BY <1>7, <1>8
<1>10. ASSUME NEW b \in 1..N, NEW u \in 1..plans[b].n
       PROVE  CopiedHeap(h, plans, size, chunk)[plans[b].new + u] = h[plans[b].old + u]
  <2>1. plans[b].n \in Nat /\ DOMAIN plans = 1..N
    BY <1>2 DEF ArePlans
  <2>2. b \in LivePlans(plans)
    BY <2>1 DEF LivePlans
  <2>3. PICK k \in 1..Len(s) : at[k] = b /\ s[k] = plans[b]
    BY <1>3, <2>2 DEF PlansSorted
  <2> QED
    BY <1>9, <2>3
<1> QED
  BY <1>9, <1>10 DEF BlobsMoved

\* The repacked heap has the size asked for, and every live blob.
LEMMA MovedHeapIs ==
  ASSUME NEW S, NEW L, NEW h \in Seq(S), Len(h) = L, NEW plans, NEW N, NEW size,
         PlansFit(plans, N, L, size), NEW chunk \in Nat \ {0}, ~Clobbers(plans, L, chunk)
  PROVE  /\ MovedHeap(h, plans, size, chunk) \in Seq(S)
         /\ Len(MovedHeap(h, plans, size, chunk)) = size
         /\ BlobsMoved(plans, N, h, MovedHeap(h, plans, size, chunk))
<1> DEFINE c == CopiedHeap(h, plans, size, chunk)
           g == SubSeq(c, 1, size)
<1>1. c \in Seq(S) /\ size <= Len(c) /\ BlobsMoved(plans, N, h, c)
  BY CopiedHeapIs
<1>2. size \in Nat /\ \A b \in 1..N : /\ plans[b].new \in Nat /\ plans[b].n \in Nat
                                      /\ plans[b].n > 0 => plans[b].new + plans[b].n <= size
  BY DEF PlansFit, ArePlans
<1> HIDE DEF c
<1>3. g \in Seq(S) /\ Len(g) = size /\ \A i \in 1..size : g[i] = c[i]
  <2>1. 1 \in Nat \ {0} /\ size \in Int
    BY <1>2
  <2>2. /\ g \in Seq(S) /\ Len(g) = IF 1 <= size THEN size - 1 + 1 ELSE 0
        /\ \A i \in 1..(size - 1 + 1) : g[i] = c[1 + i - 1]
    BY <1>1, <2>1, SubSeqTyped
  <2> QED
    BY <1>2, <2>2
<1>4. ASSUME NEW b \in 1..N, NEW u \in 1..plans[b].n PROVE g[plans[b].new + u] = h[plans[b].old + u]
  <2>1. plans[b].new + u \in 1..size
    BY <1>2
  <2> QED
    BY <1>1, <1>3, <2>1 DEF BlobsMoved
<1>5. MovedHeap(h, plans, size, chunk) = g
  BY DEF MovedHeap, c
<1> QED
  BY <1>3, <1>4, <1>5 DEF BlobsMoved
=============================================================================
