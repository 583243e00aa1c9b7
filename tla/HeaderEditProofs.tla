-------------------------- MODULE HeaderEditProofs --------------------------
(***************************************************************************)
(* Whatever the layout of the cards and whatever is set, deleted, added,   *)
(* staged and appended, in any order: a card list stays well formed, the   *)
(* structural card says what the data hold, and so does the metadata that  *)
(* meta() takes from its cache.                                            *)
(***************************************************************************)
EXTENDS HeaderEdit, PrefixSumTheorems

-----------------------------------------------------------------------------
(* Filters.                                                                *)

\* t is what is left of the first n elements of s when those at K are kept;
\* pos says where each of its elements was.
Filtered(t, s, K, n, pos) ==
  /\ pos \in [1..Len(t) -> Nat]
  /\ \A a \in 1..Len(t) : pos[a] \in K /\ pos[a] \in 1..n /\ t[a] = s[pos[a]]
  /\ \A a, b \in 1..Len(t) : a < b => pos[a] < pos[b]
  /\ \A i \in 1..n : i \in K => \E a \in 1..Len(t) : pos[a] = i

Kept(s, K) == FlattenSeq([i \in DOMAIN s |-> IF i \in K THEN <<s[i]>> ELSE <<>>])

LEMMA FilteredGrows ==
  ASSUME NEW T, NEW s \in Seq(T), NEW t \in Seq(T), NEW K, NEW n \in Nat, n + 1 <= Len(s),
         NEW pos, Filtered(t, s, K, n, pos)
  PROVE  /\ n + 1 \in K => \E p : Filtered(t \o <<s[n + 1]>>, s, K, n + 1, p)
         /\ n + 1 \notin K => Filtered(t \o <<>>, s, K, n + 1, pos)
<1> USE DEF Filtered
<1>1. ASSUME n + 1 \notin K PROVE Filtered(t \o <<>>, s, K, n + 1, pos)
  <2>1. t \o <<>> = t
    OBVIOUS
  <2>2. \A i \in 1..(n + 1) : i \in K => i \in 1..n
    BY <1>1
  <2>3. \A i \in 1..n : i \in 1..(n + 1)
    OBVIOUS
  <2> QED
    BY <2>1, <2>2, <2>3
<1>2. ASSUME n + 1 \in K PROVE \E p : Filtered(t \o <<s[n + 1]>>, s, K, n + 1, p)
  <2> DEFINE L == Len(t)
             u == t \o <<s[n + 1]>>
             p == [a \in 1..(L + 1) |-> IF a = L + 1 THEN n + 1 ELSE pos[a]]
  <2>1. L \in Nat /\ Len(u) = L + 1 /\ u[L + 1] = s[n + 1] /\ \A a \in 1..L : u[a] = t[a]
    OBVIOUS
  <2>2. \A a \in 1..(L + 1) : a = L + 1 \/ a \in 1..L
    BY <2>1
  <2>3. p[L + 1] = n + 1 /\ \A a \in 1..L : p[a] = pos[a]
    BY <2>1
  <2>4. p \in [1..(L + 1) -> Nat]
    BY <2>1, <2>2
  <2> HIDE DEF p, u
  <2>5. \A a \in 1..(L + 1) : p[a] \in K /\ p[a] \in 1..(n + 1) /\ u[a] = s[p[a]]
    <3> SUFFICES ASSUME NEW a \in 1..(L + 1)
                 PROVE  p[a] \in K /\ p[a] \in 1..(n + 1) /\ u[a] = s[p[a]]
      OBVIOUS
    <3>1. CASE a = L + 1
      BY <3>1, <2>1, <2>3, <1>2
    <3>2. CASE a \in 1..L
      <4>1. pos[a] \in K /\ pos[a] \in 1..n /\ t[a] = s[pos[a]]
        BY <3>2
      <4> QED
        BY <3>2, <4>1, <2>1, <2>3
    <3> QED
      BY <2>2, <3>1, <3>2
  <2>6. \A a, b \in 1..(L + 1) : a < b => p[a] < p[b]
    <3> SUFFICES ASSUME NEW a \in 1..(L + 1), NEW b \in 1..(L + 1), a < b PROVE p[a] < p[b]
      OBVIOUS
    <3>1. a \in 1..L
      BY <2>1
    <3>2. pos[a] \in 1..n
      BY <3>1
    <3>3. CASE b = L + 1
      BY <3>1, <3>2, <3>3, <2>3
    <3>4. CASE b \in 1..L
      BY <3>1, <3>4, <2>3
    <3> QED
      BY <2>2, <3>3, <3>4
  <2>7. ASSUME NEW i \in 1..(n + 1), i \in K PROVE \E a \in 1..(L + 1) : p[a] = i
    <3>1. CASE i = n + 1
      BY <3>1, <2>1, <2>3
    <3>2. CASE i \in 1..n
      <4>1. PICK a \in 1..L : pos[a] = i
        BY <3>2, <2>7
      <4>2. a \in 1..(L + 1) /\ p[a] = i
        BY <4>1, <2>1, <2>3
      <4> QED
        BY <4>2
    <3> QED
      BY <3>1, <3>2
  <2>8. Filtered(u, s, K, n + 1, p)
    BY <2>1, <2>4, <2>5, <2>6, <2>7
  <2> QED
    BY <2>8 DEF u
<1> QED
  BY <1>1, <1>2

LEMMA KeptFiltered ==
  ASSUME NEW T, NEW s \in Seq(T), NEW K
  PROVE  Kept(s, K) \in Seq(T) /\ \E pos : Filtered(Kept(s, K), s, K, Len(s), pos)
<1> DEFINE ss == [i \in DOMAIN s |-> IF i \in K THEN <<s[i]>> ELSE <<>>]
           N == Len(s)
<1>1. /\ N \in Nat /\ DOMAIN s = 1..N
      /\ \A i \in 1..N : s[i] \in T
  BY ElementOfSeq
<1>2. /\ ss \in Seq(Seq(T)) /\ Len(ss) = N
      /\ \A i \in 1..N : ss[i] = IF i \in K THEN <<s[i]>> ELSE <<>>
  <2>1. \A i \in 1..N : ss[i] = (IF i \in K THEN <<s[i]>> ELSE <<>>) /\ ss[i] \in Seq(T)
    <3>1. \A i \in 1..N : <<s[i]>> \in Seq(T) /\ <<>> \in Seq(T)
      BY <1>1
    <3> HIDE DEF N
    <3> QED
      BY <3>1, <1>1
  <2>2. ss \in [1..N -> Seq(T)]
    <3> HIDE DEF N
    <3> QED
      BY <2>1, <1>1
  <2> HIDE DEF ss, N
  <2>3. ss \in Seq(Seq(T)) /\ Len(ss) = N
    BY <2>2, <1>1
  <2> QED
    BY <2>1, <2>3
<1> HIDE DEF ss, N
<1>3. PICK f \in [0..N -> Seq(T)] :
           /\ f[0] = <<>>
           /\ \A i \in 1..N : f[i] = f[i - 1] \o ss[i]
           /\ FlattenSeq(ss) = f[N]
  BY <1>2, FlattenSeqUnfolds
<1> DEFINE S == {n \in Nat : n <= N => \E pos : Filtered(f[n], s, K, n, pos)}
<1>4. 0 \in S
  <2>1. Len(f[0]) = 0
    BY <1>3
  <2> DEFINE p == [a \in 1..0 |-> 0]
  <2>2. p \in [1..0 -> Nat]
    OBVIOUS
  <2>3. \A i \in 1..0 : FALSE
    OBVIOUS
  <2> HIDE DEF p
  <2>4. Filtered(f[0], s, K, 0, p)
    BY <2>1, <2>2, <2>3 DEF Filtered
  <2> QED
    BY <2>4
<1>5. ASSUME NEW n \in Nat, n \in S PROVE n + 1 \in S
  <2> SUFFICES ASSUME n + 1 <= N PROVE \E pos : Filtered(f[n + 1], s, K, n + 1, pos)
    OBVIOUS
  <2>1. n \in 0..N /\ n + 1 \in 1..N /\ (n + 1) - 1 = n
    BY <1>1
  <2>2. PICK pos : Filtered(f[n], s, K, n, pos)
    BY <1>5, <2>1
  <2>3. f[n] \in Seq(T) /\ f[n + 1] = f[n] \o ss[n + 1] /\ n + 1 <= Len(s)
    BY <1>3, <2>1 DEF N
  <2>4. CASE n + 1 \in K
    <3>1. \E p : Filtered(f[n] \o <<s[n + 1]>>, s, K, n + 1, p)
      BY <2>2, <2>3, <2>4, FilteredGrows
    <3>2. ss[n + 1] = <<s[n + 1]>>
      BY <2>4, <2>1, <1>2
    <3> QED
      BY <3>1, <3>2, <2>3
  <2>5. CASE n + 1 \notin K
    <3>1. Filtered(f[n] \o <<>>, s, K, n + 1, pos)
      BY <2>2, <2>3, <2>5, FilteredGrows
    <3>2. ss[n + 1] = <<>>
      BY <2>5, <2>1, <1>2
    <3> QED
      BY <3>1, <3>2, <2>3
  <2> QED
    BY <2>4, <2>5
<1> HIDE DEF S
<1>9. \A n \in Nat : n \in S
  BY <1>4, <1>5, SetInduction
<1>6. N \in S /\ N \in 0..N
  BY <1>1, <1>9
<1>7. Kept(s, K) = FlattenSeq(ss)
  BY DEF Kept, ss
<1>8. f[N] \in Seq(T) /\ \E pos : Filtered(f[N], s, K, N, pos)
  BY <1>6, <1>1, <1>3 DEF S
<1> QED
  BY <1>3, <1>7, <1>8 DEF N

LEMMA LargestIs ==
  ASSUME NEW N \in Nat, NEW T, T \subseteq 0..N, T # {}
  PROVE  Largest(T) \in T /\ \A n \in T : n <= Largest(T)
<1>1. \E m \in T : \A n \in T : n =< m
  BY GreatestElement
<1> QED
  BY <1>1 DEF Largest

-----------------------------------------------------------------------------
(* Card lists.                                                             *)

Keyed(card, key) == card.k \notin Unkeyed /\ Lookup(card.k) = key

\* At is the first card of a keyword.
LEMMA AtIs ==
  ASSUME NEW cs \in Seq(Card), NEW key
  PROVE  /\ At(cs, key) \in 0..Len(cs)
         /\ At(cs, key) # 0 => Keyed(cs[At(cs, key)], key)
         /\ At(cs, key) = 0 => \A i \in 1..Len(cs) : ~ Keyed(cs[i], key)
<1> DEFINE I == {i \in 1..Len(cs) : cs[i].k \notin Unkeyed /\ Lookup(cs[i].k) = key}
<1>1. At(cs, key) = IF I # {} THEN Min(I) ELSE 0
  BY DEF At, SelectInSeq
<1>2. I \subseteq 1..Len(cs) /\ I \subseteq Nat
  OBVIOUS
<1>3. \A i \in 1..Len(cs) : i \in I <=> Keyed(cs[i], key)
  BY DEF Keyed
<1> HIDE DEF I
<1>4. CASE I = {}
  BY <1>1, <1>3, <1>4
<1>5. CASE I # {}
  <2>1. Min(I) \in I
    BY <1>2, <1>5, MinIs
  <2>2. At(cs, key) = Min(I) /\ Min(I) \in 1..Len(cs)
    BY <2>1, <1>1, <1>2, <1>5
  <2> QED
    BY <2>1, <2>2, <1>3
<1> QED
  BY <1>4, <1>5

\* Ends is the first END card.
LEMMA EndsIs ==
  ASSUME NEW cs \in Seq(Card)
  PROVE  /\ Ends(cs) \in 0..Len(cs)
         /\ Ends(cs) # 0 => cs[Ends(cs)].k = "END"
         /\ \A i \in 1..Len(cs) : cs[i].k = "END" => Ends(cs) # 0 /\ Ends(cs) <= i
<1> DEFINE I == {i \in 1..Len(cs) : cs[i].k = "END"}
<1>1. Ends(cs) = IF I # {} THEN Min(I) ELSE 0
  BY DEF Ends, SelectInSeq
<1>2. I \subseteq 1..Len(cs) /\ I \subseteq Nat
  OBVIOUS
<1>3. \A i \in 1..Len(cs) : i \in I <=> cs[i].k = "END"
  OBVIOUS
<1> HIDE DEF I
<1>4. CASE I = {}
  BY <1>1, <1>3, <1>4
<1>5. CASE I # {}
  <2>1. Min(I) \in I /\ \A i \in I : Min(I) <= i
    BY <1>2, <1>5, MinIs
  <2>2. Ends(cs) = Min(I) /\ Min(I) \in 1..Len(cs)
    BY <2>1, <1>1, <1>2, <1>5
  <2> QED
    BY <2>1, <2>2, <1>3
<1> QED
  BY <1>4, <1>5

\* The parts of WellFormed, in terms of places.
OneEnd(cs) ==
  /\ cs[Len(cs)].k = "END"
  /\ \A i \in 1..Len(cs) : cs[i].k = "END" => i = Len(cs)
NoDouble(cs) ==
  \A i, j \in 1..Len(cs) :
    cs[i].k \notin Unkeyed /\ cs[j].k \notin Unkeyed /\ i # j => Lookup(cs[i].k) # Lookup(cs[j].k)
Links(card) == card.quoted /\ card.text # <<>> /\ Last(card.text) = Amp
Chained(cs) == \A i \in 1..Len(cs) : cs[i].k = "CONTINUE" => i > 1 /\ Links(cs[i - 1])
TextPlain(cs) == \A i \in 1..Len(cs) : cs[i].k \in Commentary => ~ cs[i].quoted

\* A card list that is well formed and has the structural card.
Sound(cs) ==
  /\ cs \in Seq(Card)
  /\ Len(cs) > 0
  /\ OneEnd(cs) /\ NoDouble(cs) /\ Chained(cs) /\ TextPlain(cs)
  /\ \E s \in 1..Len(cs) : cs[s].k = Structural

LEMMA StructuralKeyed ==
  /\ Structural \notin Unkeyed /\ Structural \notin Keys /\ Lookup(Structural) = Structural
  /\ \A k \in Keys : k \notin Unkeyed /\ k # Structural /\ Lookup(k) # Structural
<1>1. Structural \notin Unkeyed
  BY DEF Structural, Unkeyed, Commentary
<1>2. \A k \in Keys : k \notin Unkeyed /\ k # Structural /\ LookupOf[k] # Structural
  BY KeysAssumption
<1> QED
  BY <1>1, <1>2 DEF Lookup

\* The structural card is the one At finds.
LEMMA StructuralAt ==
  ASSUME NEW cs, Sound(cs), NEW s \in 1..Len(cs), cs[s].k = Structural
  PROVE  At(cs, Structural) = s
<1>1. Keyed(cs[s], Structural)
  BY StructuralKeyed DEF Keyed
<1>2. At(cs, Structural) \in 1..Len(cs) /\ Keyed(cs[At(cs, Structural)], Structural)
  <2>1. cs \in Seq(Card) /\ Len(cs) \in Nat
    BY DEF Sound
  <2> QED
    BY <2>1, <1>1, AtIs
<1> QED
  BY <1>1, <1>2 DEF Sound, NoDouble, Keyed

LEMMA SoundIsWellFormed ==
  ASSUME NEW cs
  PROVE  Sound(cs) <=> WellFormed(cs) /\ At(cs, Structural) # 0
<1>1. ASSUME Sound(cs) PROVE WellFormed(cs) /\ At(cs, Structural) # 0
  <2>1. cs \in Seq(Card) /\ Len(cs) \in Nat /\ Len(cs) > 0 /\ DOMAIN cs = 1..Len(cs) /\ cs # <<>>
    BY <1>1 DEF Sound
  <2>2. Ends(cs) = Len(cs)
    <3>0. cs[Len(cs)].k = "END"
      BY <1>1 DEF Sound, OneEnd
    <3>1. cs[Len(cs)].k = "END" /\ Len(cs) \in 1..Len(cs)
      <4>1. Len(cs) \in Nat /\ Len(cs) > 0
        BY <2>1
      <4>2. Len(cs) \in 1..Len(cs)
        BY <4>1
      <4> QED
        BY <3>0, <4>2
    <3>2. Ends(cs) \in 1..Len(cs) /\ cs[Ends(cs)].k = "END"
      <4>1. Ends(cs) \in 0..Len(cs) /\ Ends(cs) # 0 /\ cs[Ends(cs)].k = "END"
        BY <3>1, <2>1, EndsIs
      <4> QED
        BY <4>1, <2>1
    <3> QED
      BY <3>2, <1>1 DEF Sound, OneEnd
  <2>3. Last(cs).k = "END"
    BY <1>1, <2>1 DEF Sound, OneEnd, Last
  <2>4. At(cs, Structural) # 0
    <3>1. PICK s \in 1..Len(cs) : cs[s].k = Structural
      BY <1>1 DEF Sound
    <3>2. At(cs, Structural) = s
      BY <1>1, <3>1, StructuralAt
    <3> QED
      BY <3>2, <2>1
  <2> QED
    BY <1>1, <2>1, <2>2, <2>3, <2>4 DEF Sound, WellFormed, NoDouble, Chained, Links, TextPlain
<1>2. ASSUME WellFormed(cs), At(cs, Structural) # 0 PROVE Sound(cs)
  <2>1. cs \in Seq(Card) /\ Len(cs) \in Nat /\ Len(cs) > 0 /\ DOMAIN cs = 1..Len(cs)
    <3>1. cs \in Seq(Card) /\ cs # <<>>
      BY <1>2 DEF WellFormed
    <3> QED
      BY <3>1
  <2>2. OneEnd(cs)
    <3>1. cs[Len(cs)].k = "END" /\ Ends(cs) = Len(cs)
      BY <1>2 DEF WellFormed, Last
    <3>2. \A i \in 1..Len(cs) : cs[i].k = "END" => Len(cs) <= i
      <4>1. \A i \in 1..Len(cs) : cs[i].k = "END" => Ends(cs) # 0 /\ Ends(cs) <= i
        BY <2>1, EndsIs
      <4> QED
        BY <3>1, <4>1
    <3>3. Len(cs) \in Nat
      BY <2>1
    <3>4. \A i \in 1..Len(cs) : cs[i].k = "END" => i = Len(cs)
      BY <3>2, <3>3
    <3> QED
      BY <3>1, <3>4 DEF OneEnd
  <2>3. \E s \in 1..Len(cs) : cs[s].k = Structural
    <3> DEFINE s == At(cs, Structural)
    <3>1. s \in 1..Len(cs) /\ Keyed(cs[s], Structural)
      BY <1>2, <2>1, AtIs
    <3> HIDE DEF s
    <3>2. cs[s].k \in Keys => cs[s].k # cs[s].k
      BY <3>1, StructuralKeyed DEF Keyed
    <3>3. cs[s].k = Structural
      BY <3>1, <3>2 DEF Keyed, Lookup
    <3> QED
      BY <3>1, <3>3
  <2> QED
    BY <1>2, <2>1, <2>2, <2>3 DEF Sound, WellFormed, NoDouble, Chained, Links, TextPlain
<1> QED
  BY <1>1, <1>2

-----------------------------------------------------------------------------
(* Splicing.                                                               *)

SplicedFrom(T, cs, i, j, new) ==
  LET d == Spliced(cs, i, j, new)
      N == Len(new)
      gone == j - i + 1
  IN  /\ d \in Seq(T)
      /\ Len(d) = Len(cs) + N - gone
      /\ \A p \in 1..(i - 1) : d[p] = cs[p]
      /\ \A p \in i..(i - 1 + N) : d[p] = new[p - i + 1]
      /\ \A p \in (i + N)..Len(d) : d[p] = cs[p - N + gone]

LEMMA SplicedIs ==
  ASSUME NEW T, NEW cs \in Seq(T), NEW new \in Seq(T),
         NEW i \in 1..(Len(cs) + 1), NEW j \in (i - 1)..Len(cs)
  PROVE  SplicedFrom(T, cs, i, j, new)
<1> USE DEF SplicedFrom
<1> DEFINE L == Len(cs)
           N == Len(new)
           a == SubSeq(cs, 1, i - 1)
           b == SubSeq(cs, j + 1, L)
           an == a \o new
           d == an \o b
<1>1. L \in Nat /\ N \in Nat /\ i \in Nat \ {0} /\ j \in Nat /\ i - 1 <= L /\ j <= L /\ i - 1 <= j
  OBVIOUS
<1>2. a \in Seq(T) /\ Len(a) = i - 1 /\ \A p \in 1..(i - 1) : a[p] = cs[p]
  <2>1. /\ a \in Seq(T) /\ Len(a) = IF 1 <= i - 1 THEN (i - 1) - 1 + 1 ELSE 0
        /\ \A p \in 1..((i - 1) - 1 + 1) : a[p] = cs[1 + p - 1]
    <3>1. i - 1 \in Int /\ i - 1 <= Len(cs)
      BY <1>1
    <3> QED
      BY <3>1, SubSeqTyped
  <2> HIDE DEF a, L
  <2>2. \A p \in 1..(i - 1) : 1 + p - 1 = p /\ p \in 1..((i - 1) - 1 + 1)
    BY <1>1
  <2> QED
    BY <2>1, <2>2, <1>1
<1>3. b \in Seq(T) /\ Len(b) = L - j /\ \A p \in 1..(L - j) : b[p] = cs[j + p]
  <2>1. /\ b \in Seq(T) /\ Len(b) = IF j + 1 <= L THEN L - (j + 1) + 1 ELSE 0
        /\ \A p \in 1..(L - (j + 1) + 1) : b[p] = cs[j + 1 + p - 1]
    <3>1. j + 1 \in Nat \ {0} /\ L \in Int /\ L <= Len(cs)
      BY <1>1
    <3> QED
      BY <3>1, SubSeqTyped
  <2> HIDE DEF b, L
  <2>2. \A p \in 1..(L - j) : j + 1 + p - 1 = j + p /\ p \in 1..(L - (j + 1) + 1)
    BY <1>1
  <2> QED
    BY <2>1, <2>2, <1>1
<1> HIDE DEF a, b
<1>4. /\ an \in Seq(T) /\ Len(an) = i - 1 + N
      /\ \A p \in 1..(i - 1) : an[p] = a[p]
      /\ \A p \in i..(i - 1 + N) : an[p] = new[p - i + 1]
  <2>1. /\ an \in Seq(T) /\ Len(an) = Len(a) + N
        /\ \A p \in 1..Len(a) : an[p] = a[p]
        /\ \A p \in (Len(a) + 1)..(Len(a) + N) : an[p] = new[p - Len(a)]
    BY <1>2, ConcatTyped
  <2> HIDE DEF an, N
  <2>2. \A p \in i..(i - 1 + N) : p \in (Len(a) + 1)..(Len(a) + N) /\ p - Len(a) = p - i + 1
    BY <1>1, <1>2
  <2> QED
    BY <2>1, <2>2, <1>1, <1>2
<1> HIDE DEF an
<1>5. /\ d \in Seq(T) /\ Len(d) = i - 1 + N + (L - j)
      /\ \A p \in 1..(i - 1 + N) : d[p] = an[p]
      /\ \A p \in (i + N)..(i - 1 + N + (L - j)) : d[p] = b[p - (i - 1 + N)]
  <2>1. /\ d \in Seq(T) /\ Len(d) = Len(an) + Len(b)
        /\ \A p \in 1..Len(an) : d[p] = an[p]
        /\ \A p \in (Len(an) + 1)..(Len(an) + Len(b)) : d[p] = b[p - Len(an)]
    <3>1. an \in Seq(T) /\ b \in Seq(T)
      BY <1>3, <1>4
    <3> QED
      BY <3>1, ConcatTyped
  <2> HIDE DEF d, N, L
  <2>2. Len(an) = i - 1 + N /\ Len(b) = L - j
    BY <1>3, <1>4
  <2>3. \A p \in (i + N)..(i - 1 + N + (L - j)) : p \in (Len(an) + 1)..(Len(an) + Len(b))
    <3>1. (i - 1 + N) + 1 = i + N
      BY <1>1
    <3> QED
      BY <2>2, <3>1
  <2>4. \A p \in (i + N)..(i - 1 + N + (L - j)) : d[p] = b[p - (i - 1 + N)]
    BY <2>1, <2>2, <2>3
  <2>5. Len(d) = i - 1 + N + (L - j) /\ \A p \in 1..(i - 1 + N) : d[p] = an[p]
    BY <2>1, <2>2
  <2> QED
    BY <2>1, <2>4, <2>5
<1> HIDE DEF d, N, L
<1> DEFINE gone == j - i + 1
<1>6. Len(d) = L + N - gone
  BY <1>1, <1>5
<1>7. ASSUME NEW p \in 1..(i - 1) PROVE d[p] = cs[p]
  <2>1. p \in 1..(i - 1 + N)
    BY <1>1
  <2> QED
    BY <2>1, <1>2, <1>4, <1>5
<1>8. ASSUME NEW p \in i..(i - 1 + N) PROVE d[p] = new[p - i + 1]
  <2>1. p \in 1..(i - 1 + N)
    BY <1>1
  <2> QED
    BY <2>1, <1>4, <1>5
<1>9. ASSUME NEW p \in (i + N)..Len(d) PROVE d[p] = cs[p - N + gone]
  <2> DEFINE q == p - (i - 1 + N)
  <2>1. p \in (i + N)..(i - 1 + N + (L - j)) /\ q \in 1..(L - j) /\ j + q = p - N + gone
    BY <1>1, <1>5
  <2>2. d[p] = b[q] /\ b[q] = cs[j + q]
    <3> HIDE DEF q
    <3>1. b[q] = cs[j + q]
      BY <2>1, <1>3
    <3> QED
      BY <3>1, <2>1, <1>5 DEF q
  <2> HIDE DEF q, gone
  <2> QED
    BY <2>1, <2>2
<1>10. Spliced(cs, i, j, new) = d
  BY DEF Spliced, d, an, a, b, L
<1> QED
  BY <1>5, <1>6, <1>7, <1>8, <1>9, <1>10 DEF N, L

\* What a splice must be for the list to stay sound: cards that hang together
\* take the place of cards that hang together, END and the structural card are
\* not among these, and no other card has the keyword of the new ones.
Fits(cs, i, j, new) ==
  /\ i \in 1..Len(cs) /\ j \in (i - 1)..(Len(cs) - 1)
  /\ new \in Seq(Card)
  /\ \A p \in 1..Len(new) : /\ new[p].k # "END" /\ new[p].k # Structural
                            /\ new[p].k \in Commentary => ~ new[p].quoted
                            /\ new[p].k = "CONTINUE" => p > 1 /\ Links(new[p - 1])
                            /\ new[p].k \notin Unkeyed =>
                                 p = 1 /\ \A q \in 1..Len(cs) : q \notin i..j => ~ Keyed(cs[q], Lookup(new[p].k))
  /\ cs[j + 1].k # "CONTINUE"
  /\ \A q \in i..j : cs[q].k # Structural

\* The same card says how many rows there are.
SameRows(cs, ds) ==
  \E s \in 1..Len(cs) : \E t \in 1..Len(ds) : cs[s] = ds[t] /\ cs[s].k = Structural

\* The structural card itself.
RowsCard(cs) == cs[At(cs, Structural)]

LEMMA SameRowsOf ==
  ASSUME NEW cs, NEW ds, Sound(cs), Sound(ds), SameRows(cs, ds)
  PROVE  RowsCard(ds) = RowsCard(cs)
<1>1. PICK s \in 1..Len(cs) : \E t \in 1..Len(ds) : cs[s] = ds[t] /\ cs[s].k = Structural
  BY DEF SameRows
<1>2. PICK t \in 1..Len(ds) : cs[s] = ds[t] /\ cs[s].k = Structural
  BY <1>1
<1>3. At(cs, Structural) = s /\ At(ds, Structural) = t
  BY <1>2, StructuralAt
<1> QED
  BY <1>2, <1>3 DEF RowsCard

\* Where the cards of a spliced list come from.
LEMMA SplicedPlaces ==
  ASSUME NEW cs \in Seq(Card), NEW i, NEW j, NEW new, Fits(cs, i, j, new)
  PROVE  LET d == Spliced(cs, i, j, new)
             N == Len(new)
             shift == j - i + 1 - N
         IN  /\ d \in Seq(Card) /\ Len(d) = Len(cs) - shift /\ Len(d) > 0
             /\ i \in 1..Len(cs) /\ j \in Int /\ i - 1 <= j /\ j < Len(cs)
             /\ Len(cs) \in Nat /\ N \in Nat /\ i + N <= Len(d)
             /\ \A p \in 1..Len(d) : \/ p < i /\ d[p] = cs[p] /\ p \in 1..Len(cs)
                                     \/ p \in i..(i - 1 + N) /\ d[p] = new[p - i + 1] /\ p - i + 1 \in 1..N
                                     \/ p >= i + N /\ d[p] = cs[p + shift] /\ p + shift \in 1..Len(cs) /\ p + shift > j
<1> DEFINE d == Spliced(cs, i, j, new)
           N == Len(new)
           L == Len(cs)
           shift == j - i + 1 - N
<1>1. /\ new \in Seq(Card) /\ N \in Nat /\ L \in Nat
      /\ i \in 1..L /\ j \in (i - 1)..(L - 1)
  BY DEF Fits
<1>2. /\ d \in Seq(Card)
      /\ Len(d) = L + N - (j - i + 1)
      /\ \A p \in 1..(i - 1) : d[p] = cs[p]
      /\ \A p \in i..(i - 1 + N) : d[p] = new[p - i + 1]
      /\ \A p \in (i + N)..Len(d) : d[p] = cs[p - N + (j - i + 1)]
  <2>1. i \in 1..(Len(cs) + 1) /\ j \in (i - 1)..Len(cs)
    BY <1>1
  <2>2. SplicedFrom(Card, cs, i, j, new)
    BY <1>1, <2>1, SplicedIs
  <2> QED
    BY <2>2 DEF SplicedFrom
<1> HIDE DEF d, N, L
<1>3. Len(d) = L - shift /\ i + N <= Len(d) /\ Len(d) > 0 /\ j < L /\ i - 1 <= j
  BY <1>1, <1>2
<1>4. ASSUME NEW p \in 1..Len(d)
      PROVE  \/ p < i /\ d[p] = cs[p] /\ p \in 1..L
             \/ p \in i..(i - 1 + N) /\ d[p] = new[p - i + 1] /\ p - i + 1 \in 1..N
             \/ p >= i + N /\ d[p] = cs[p + shift] /\ p + shift \in 1..L /\ p + shift > j
  <2>1. CASE p < i
    <3>1. p \in 1..(i - 1) /\ p \in 1..L
      BY <1>1, <2>1
    <3> QED
      BY <2>1, <3>1, <1>2
  <2>2. CASE p \in i..(i - 1 + N)
    <3>1. p - i + 1 \in 1..N
      BY <1>1, <2>2
    <3> QED
      BY <2>2, <3>1, <1>2
  <2>3. CASE p >= i + N
    <3>1. p \in (i + N)..Len(d) /\ p - N + (j - i + 1) = p + shift
          /\ p + shift \in 1..L /\ p + shift > j
      BY <1>1, <1>2, <2>3
    <3>2. d[p] = cs[p - N + (j - i + 1)]
      BY <3>1, <1>2
    <3> QED
      BY <2>3, <3>1, <3>2
  <2> QED
    BY <1>1, <2>1, <2>2, <2>3
<1> QED
  BY <1>1, <1>2, <1>3, <1>4 DEF d, N, L

LEMMA SplicedSound ==
  ASSUME NEW cs, Sound(cs), NEW i, NEW j, NEW new, Fits(cs, i, j, new)
  PROVE  Sound(Spliced(cs, i, j, new)) /\ SameRows(cs, Spliced(cs, i, j, new))
<1> DEFINE d == Spliced(cs, i, j, new)
           N == Len(new)
           L == Len(cs)
           shift == j - i + 1 - N
           o(p) == IF p < i THEN p ELSE p + shift
           IsNew(p) == p \in i..(i - 1 + N) /\ d[p] = new[p - i + 1] /\ p - i + 1 \in 1..N
           IsOld(p) == ~(p \in i..(i - 1 + N)) /\ o(p) \in 1..L /\ o(p) \notin i..j /\ d[p] = cs[o(p)]
<1>0. cs \in Seq(Card)
  BY DEF Sound
<1>1. /\ d \in Seq(Card) /\ Len(d) = L - shift /\ Len(d) > 0
      /\ i \in 1..L /\ j \in Int /\ i - 1 <= j /\ j < L
      /\ L \in Nat /\ N \in Nat /\ i + N <= Len(d)
      /\ \A p \in 1..Len(d) : \/ p < i /\ d[p] = cs[p] /\ p \in 1..L
                              \/ p \in i..(i - 1 + N) /\ d[p] = new[p - i + 1] /\ p - i + 1 \in 1..N
                              \/ p >= i + N /\ d[p] = cs[p + shift] /\ p + shift \in 1..L /\ p + shift > j
  BY <1>0, SplicedPlaces
<1> HIDE DEF d, N, L
<1>2. ASSUME NEW p \in 1..Len(d) PROVE IsNew(p) \/ IsOld(p)
  <2>1. p \in Int /\ i \in Int /\ N \in Nat /\ i >= 1
    BY <1>1
  <2>2. CASE p < i /\ d[p] = cs[p] /\ p \in 1..L
    BY <2>1, <2>2
  <2>3. CASE p \in i..(i - 1 + N) /\ d[p] = new[p - i + 1] /\ p - i + 1 \in 1..N
    BY <2>3
  <2>4. CASE p >= i + N /\ d[p] = cs[p + shift] /\ p + shift \in 1..L /\ p + shift > j
    <3>1. ~(p < i) /\ ~(p \in i..(i - 1 + N)) /\ p + shift \notin i..j
      BY <2>1, <2>4, <1>1
    <3> QED
      BY <2>4, <3>1
  <2> QED
    BY <1>1, <2>2, <2>3, <2>4
<1>3. ASSUME NEW p \in 1..Len(d), NEW q \in 1..Len(d), IsOld(p), IsOld(q), p # q
      PROVE  o(p) # o(q)
  BY <1>1, <1>3
<1>4. OneEnd(d)
  <2>1. IsOld(Len(d)) /\ o(Len(d)) = L
    <3>1. Len(d) \in 1..Len(d) /\ ~(Len(d) \in i..(i - 1 + N)) /\ ~(Len(d) < i) /\ Len(d) + shift = L
      BY <1>1
    <3> QED
      BY <3>1, <1>2
  <2>2. cs[L].k = "END" /\ \A q \in 1..L : cs[q].k = "END" => q = L
    BY DEF Sound, OneEnd, L
  <2>3. ASSUME NEW p \in 1..Len(d), d[p].k = "END" PROVE p = Len(d)
    <3>1. ~ IsNew(p)
      BY <2>3 DEF Fits, N
    <3>2. IsOld(p) /\ o(p) = L
      BY <1>2, <2>2, <2>3, <3>1
    <3>3. Len(d) \in 1..Len(d)
      BY <1>1
    <3> QED
      BY <2>1, <3>2, <3>3, <1>3
  <2> QED
    BY <2>1, <2>2, <2>3 DEF OneEnd
<1>5. NoDouble(d)
  <2> SUFFICES ASSUME NEW p \in 1..Len(d), NEW q \in 1..Len(d), p # q,
                      d[p].k \notin Unkeyed, d[q].k \notin Unkeyed, Lookup(d[p].k) = Lookup(d[q].k)
               PROVE  FALSE
    BY DEF NoDouble
  <2>0. \A x \in 1..N : new[x].k \notin Unkeyed =>
          x = 1 /\ \A y \in 1..L : y \notin i..j => ~ Keyed(cs[y], Lookup(new[x].k))
    BY DEF Fits, N, L
  <2>1. CASE IsNew(p) /\ IsNew(q)
    <3>1. p - i + 1 = 1 /\ q - i + 1 = 1
      BY <2>0, <2>1
    <3> QED
      BY <3>1, <1>1
  <2>2. CASE IsNew(p) /\ IsOld(q)
    BY <2>0, <2>2 DEF Keyed
  <2>3. CASE IsOld(p) /\ IsNew(q)
    BY <2>0, <2>3 DEF Keyed
  <2>4. CASE IsOld(p) /\ IsOld(q)
    <3>1. o(p) # o(q) /\ o(p) \in 1..L /\ o(q) \in 1..L /\ d[p] = cs[o(p)] /\ d[q] = cs[o(q)]
      BY <1>3, <2>4
    <3>2. \A x, y \in 1..L : cs[x].k \notin Unkeyed /\ cs[y].k \notin Unkeyed /\ x # y => Lookup(cs[x].k) # Lookup(cs[y].k)
      BY DEF Sound, NoDouble, L
    <3> HIDE DEF o
    <3> QED
      BY <3>1, <3>2
  <2> HIDE DEF IsNew, IsOld
  <2> QED
    BY <1>2, <2>1, <2>2, <2>3, <2>4
<1>6. Chained(d)
  <2> SUFFICES ASSUME NEW p \in 1..Len(d), d[p].k = "CONTINUE" PROVE p > 1 /\ Links(d[p - 1])
    BY DEF Chained
  <2>0. \A x \in 1..N : new[x].k = "CONTINUE" => x > 1 /\ Links(new[x - 1])
    BY DEF Fits, N
  <2>1. \A x \in 1..L : cs[x].k = "CONTINUE" => x > 1 /\ Links(cs[x - 1])
    BY DEF Sound, Chained, L
  <2>2. CASE IsNew(p)
    <3> DEFINE x == p - i + 1
    <3>1. x \in 1..N /\ new[x].k = "CONTINUE"
      BY <2>2
    <3>2. x > 1 /\ Links(new[x - 1])
      BY <2>0, <3>1
    <3>3. p - 1 \in 1..Len(d) /\ p - 1 \in i..(i - 1 + N) /\ (p - 1) - i + 1 = x - 1 /\ p > 1
      BY <1>1, <2>2, <3>2
    <3>4. IsNew(p - 1)
      BY <1>2, <3>3
    <3> QED
      BY <3>2, <3>3, <3>4
  <2>3. CASE IsOld(p) /\ p < i
    <3>1. p \in 1..L /\ cs[p].k = "CONTINUE"
      BY <2>3
    <3>2. p > 1 /\ Links(cs[p - 1])
      BY <2>1, <3>1
    <3>3. p - 1 \in 1..Len(d) /\ p - 1 < i /\ ~(p - 1 \in i..(i - 1 + N))
      BY <1>1, <2>3, <3>2
    <3>4. d[p - 1] = cs[p - 1]
      BY <1>2, <3>3
    <3> QED
      BY <3>2, <3>4
  <2>4. CASE IsOld(p) /\ ~(p < i)
    <3> DEFINE q == p + shift
    <3>1. q \in 1..L /\ cs[q].k = "CONTINUE" /\ q \notin i..j /\ p >= i + N
      BY <1>1, <2>4
    <3>2. q > j /\ q # j + 1
      <4>1. cs[j + 1].k # "CONTINUE"
        BY DEF Fits
      <4>2. q > j
        BY <1>1, <3>1
      <4> HIDE DEF q
      <4> QED
        BY <3>1, <4>1, <4>2
    <3>3. q > 1 /\ Links(cs[q - 1])
      <4> HIDE DEF q
      <4> QED
        BY <2>1, <3>1
    <3>4. /\ p - 1 \in 1..Len(d) /\ p > 1 /\ ~(p - 1 < i) /\ ~(p - 1 \in i..(i - 1 + N))
          /\ (p - 1) + shift = q - 1
      BY <1>1, <3>1, <3>2
    <3>5. d[p - 1] = cs[q - 1]
      <4> HIDE DEF q, shift
      <4> QED
        BY <1>2, <3>4
    <3> QED
      BY <3>3, <3>4, <3>5
  <2> HIDE DEF IsNew, IsOld
  <2> QED
    BY <1>2, <2>2, <2>3, <2>4
<1>7. TextPlain(d)
  <2> SUFFICES ASSUME NEW p \in 1..Len(d), d[p].k \in Commentary PROVE ~ d[p].quoted
    BY DEF TextPlain
  <2>1. CASE IsNew(p)
    BY <2>1 DEF Fits, N
  <2>2. CASE IsOld(p)
    <3>1. \A x \in 1..L : cs[x].k \in Commentary => ~ cs[x].quoted
      BY DEF Sound, TextPlain, L
    <3>2. d[p] = cs[o(p)] /\ o(p) \in 1..L
      BY <2>2
    <3> HIDE DEF o
    <3> QED
      BY <3>1, <3>2
  <2> QED
    BY <1>2, <2>1, <2>2
<1>8. \E s \in 1..L : \E t \in 1..Len(d) : cs[s] = d[t] /\ cs[s].k = Structural
  <2>1. PICK s \in 1..L : cs[s].k = Structural
    BY DEF Sound, L
  <2>2. s \notin i..j
    BY <2>1 DEF Fits
  <2> DEFINE t == IF s < i THEN s ELSE s - shift
  <2>3. t \in 1..Len(d) /\ ~(t \in i..(i - 1 + N)) /\ o(t) = s
    BY <1>1, <2>2
  <2> HIDE DEF t, o
  <2>4. IsOld(t)
    BY <1>2, <2>3
  <2>5. d[t] = cs[s]
    BY <2>3, <2>4
  <2> QED
    BY <2>1, <2>3, <2>5
<1>9. SameRows(cs, d)
  BY <1>8 DEF SameRows, L
<1>10. \E t \in 1..Len(d) : d[t].k = Structural
  BY <1>8
<1>11. Sound(d)
  BY <1>1, <1>4, <1>5, <1>6, <1>7, <1>10 DEF Sound
<1> QED
  BY <1>9, <1>11 DEF d

-----------------------------------------------------------------------------
(* Setting and deleting.                                                   *)

Goes(cs, j) == Links(cs[j]) /\ j < Len(cs) /\ cs[j + 1].k = "CONTINUE"

\* A chain is a card, the CONTINUE cards behind it, and no more.
LEMMA ChainEndIs ==
  ASSUME NEW cs, Sound(cs), NEW i \in 1..Len(cs), cs[i].k # "END"
  PROVE  LET e == ChainEnd(cs, i)
         IN  /\ e \in i..(Len(cs) - 1)
             /\ \A q \in (i + 1)..e : cs[q].k = "CONTINUE"
             /\ cs[e + 1].k # "CONTINUE"
<1> DEFINE L == Len(cs)
           e == ChainEnd(cs, i)
           T == {j \in i..L : ~ Goes(cs, j)}
<1>1. L \in Nat /\ L > 0 /\ i \in 1..L
  BY DEF Sound
<1>2. e = CHOOSE j \in i..L : ~ Goes(cs, j) /\ \A m \in i..(j - 1) : Goes(cs, m)
  BY DEF ChainEnd, Goes, Links
<1> HIDE DEF L, e
<1>3. L \in T /\ T \subseteq Nat /\ T \subseteq i..L
  BY <1>1 DEF Goes, L
<1>4. PICK j \in T : \A m \in T : j <= m
  <2> HIDE DEF T
  <2> QED
    BY <1>3, LeastElement
<1>5. j \in i..L /\ ~ Goes(cs, j) /\ \A m \in i..(j - 1) : Goes(cs, m)
  <2>1. ASSUME NEW m \in i..(j - 1) PROVE Goes(cs, m)
    <3>1. m \in i..L /\ ~(j <= m)
      BY <1>1, <1>3
    <3> QED
      BY <3>1, <1>4
  <2> QED
    BY <2>1
<1>6. e \in i..L /\ ~ Goes(cs, e) /\ \A m \in i..(e - 1) : Goes(cs, m)
  <2>1. \E x \in i..L : ~ Goes(cs, x) /\ \A m \in i..(x - 1) : Goes(cs, m)
    BY <1>5
  <2> QED
    BY <2>1, <1>2
<1>7. ASSUME NEW q \in (i + 1)..e PROVE cs[q].k = "CONTINUE"
  <2>1. q - 1 \in i..(e - 1) /\ (q - 1) + 1 = q
    BY <1>1, <1>6
  <2>2. Goes(cs, q - 1)
    BY <1>6, <2>1
  <2> QED
    BY <2>1, <2>2 DEF Goes
<1>8. e # L
  <2> SUFFICES ASSUME e = L PROVE FALSE
    OBVIOUS
  <2>1. cs[L].k = "END"
    BY DEF Sound, OneEnd, L
  <2>2. L # i
    BY <2>1
  <2>3. L \in (i + 1)..e
    BY <2>2, <1>1
  <2>4. cs[L].k = "CONTINUE"
    BY <1>7, <2>3
  <2> QED
    BY <2>1, <2>4
<1>9. e \in i..(L - 1) /\ e + 1 \in 1..L /\ (e + 1) - 1 = e /\ e < L
  BY <1>1, <1>6, <1>8
<1>10. cs[e + 1].k # "CONTINUE"
  <2> SUFFICES ASSUME cs[e + 1].k = "CONTINUE" PROVE FALSE
    OBVIOUS
  <2>1. \A x \in 1..L : cs[x].k = "CONTINUE" => x > 1 /\ Links(cs[x - 1])
    BY DEF Sound, Chained, L
  <2>2. Links(cs[e])
    BY <1>9, <2>1
  <2> QED
    BY <1>6, <1>9, <2>2 DEF Goes, L
<1> QED
  BY <1>7, <1>9, <1>10 DEF e, L

\* The cards of one value: the keyword first, CONTINUE cards behind it, each
\* but the last going on in the next.
Built(new, k) ==
  /\ new \in Seq(Card) /\ Len(new) > 0 /\ new[1].k = k
  /\ \A p \in 2..Len(new) : new[p].k = "CONTINUE" /\ Links(new[p - 1])

\* set_card_for_key: with the cards of a value of that keyword.
LEMMA SetCardsSound ==
  ASSUME NEW cs, Sound(cs), NEW k \in Keys, NEW new, Built(new, k)
  PROVE  Sound(SetCards(cs, Lookup(k), new)) /\ SameRows(cs, SetCards(cs, Lookup(k), new))
<1> DEFINE L == Len(cs)
           i == At(cs, Lookup(k))
           e == Ends(cs)
<1>1. cs \in Seq(Card) /\ L \in Nat /\ L > 0
  BY DEF Sound
<1>2. /\ i \in 0..L
      /\ i # 0 => Keyed(cs[i], Lookup(k))
      /\ i = 0 => \A q \in 1..L : ~ Keyed(cs[q], Lookup(k))
  BY <1>1, AtIs
<1>3. e = L /\ cs[e].k = "END"
  <2>1. cs[L].k = "END" /\ L \in 1..L
    BY <1>1 DEF Sound, OneEnd
  <2>2. WellFormed(cs)
    BY SoundIsWellFormed
  <2> QED
    BY <2>1, <2>2 DEF WellFormed
<1>4. k \notin Unkeyed /\ k # Structural /\ Lookup(k) # Structural /\ k # "END" /\ k # "CONTINUE"
  BY StructuralKeyed DEF Unkeyed
<1>5. \A p \in 1..Len(new) :
         /\ new[p].k # "END" /\ new[p].k # Structural /\ new[p].k \notin Commentary
         /\ new[p].k = "CONTINUE" => p > 1 /\ Links(new[p - 1])
         /\ new[p].k \notin Unkeyed => p = 1 /\ new[p].k = k
  <2> SUFFICES ASSUME NEW p \in 1..Len(new)
               PROVE  /\ new[p].k # "END" /\ new[p].k # Structural /\ new[p].k \notin Commentary
                      /\ new[p].k = "CONTINUE" => p > 1 /\ Links(new[p - 1])
                      /\ new[p].k \notin Unkeyed => p = 1 /\ new[p].k = k
    OBVIOUS
  <2>1. CASE p = 1
    BY <2>1, <1>4 DEF Built, Unkeyed
  <2>2. CASE p # 1
    <3>1. p \in 2..Len(new) /\ p > 1
      BY <2>2 DEF Built
    <3>2. new[p].k = "CONTINUE" /\ Links(new[p - 1])
      BY <3>1 DEF Built
    <3> QED
      BY <3>1, <3>2 DEF Unkeyed, Commentary, Structural
  <2> QED
    BY <2>1, <2>2
<1>6. new \in Seq(Card)
  BY DEF Built
<1> HIDE DEF i, e, L
<1>7. CASE i # 0
  <2> DEFINE j == ChainEnd(cs, i)
  <2>1. i \in 1..L /\ Keyed(cs[i], Lookup(k)) /\ cs[i].k # "END" /\ cs[i].k # Structural
    <3>1. i \in 1..L /\ Keyed(cs[i], Lookup(k))
      BY <1>1, <1>2, <1>7
    <3>2. cs[i].k # Structural
      BY <3>1, <1>4, StructuralKeyed DEF Keyed
    <3> QED
      BY <3>1, <3>2 DEF Keyed, Unkeyed
  <2>2. /\ j \in i..(L - 1) /\ cs[j + 1].k # "CONTINUE"
        /\ \A q \in (i + 1)..j : cs[q].k = "CONTINUE"
    BY <2>1, ChainEndIs DEF L
  <2> HIDE DEF j
  <2>3. \A q \in i..j : cs[q].k # Structural
    <3>1. \A q \in i..j : q = i \/ q \in (i + 1)..j
      BY <1>1, <2>1, <2>2
    <3> QED
      BY <3>1, <2>1, <2>2 DEF Structural
  <2>4. \A q \in 1..L : q \notin i..j => ~ Keyed(cs[q], Lookup(k))
    <3> SUFFICES ASSUME NEW q \in 1..L, q \notin i..j, Keyed(cs[q], Lookup(k)) PROVE FALSE
      OBVIOUS
    <3>1. q # i
      BY <1>1, <2>1, <2>2
    <3> QED
      BY <3>1, <2>1 DEF Sound, NoDouble, Keyed, L
  <2>5. Fits(cs, i, j, new)
    <3>1. i \in 1..L /\ j \in (i - 1)..(L - 1)
      BY <1>1, <2>1, <2>2
    <3> QED
      BY <3>1, <1>5, <1>6, <2>2, <2>3, <2>4 DEF Fits, L
  <2>6. SetCards(cs, Lookup(k), new) = Spliced(cs, i, j, new)
    BY <1>7 DEF SetCards, i, j
  <2> QED
    BY <2>5, <2>6, SplicedSound
<1>8. CASE i = 0
  <2>1. \A q \in e..(e - 1) : FALSE
    BY <1>1, <1>3
  <2>2. Fits(cs, e, e - 1, new)
    <3>1. e \in 1..L /\ e - 1 \in (e - 1)..(L - 1) /\ (e - 1) + 1 = e /\ cs[e].k # "CONTINUE"
      BY <1>1, <1>3
    <3> QED
      BY <3>1, <2>1, <1>2, <1>5, <1>6, <1>8 DEF Fits, L
  <2>3. SetCards(cs, Lookup(k), new) = Spliced(cs, e, e - 1, new)
    BY <1>8 DEF SetCards, i, e
  <2> QED
    BY <2>2, <2>3, SplicedSound
<1> QED
  BY <1>7, <1>8

\* delete_card_for_key
LEMMA DeleteCardsSound ==
  ASSUME NEW cs, Sound(cs), NEW k \in Keys, At(cs, Lookup(k)) # 0
  PROVE  Sound(DeleteCards(cs, Lookup(k))) /\ SameRows(cs, DeleteCards(cs, Lookup(k)))
<1> DEFINE L == Len(cs)
           i == At(cs, Lookup(k))
           j == ChainEnd(cs, i)
<1>1. cs \in Seq(Card) /\ L \in Nat /\ L > 0
  BY DEF Sound
<1>2. i \in 1..L /\ Keyed(cs[i], Lookup(k)) /\ cs[i].k # "END" /\ cs[i].k # Structural
  <2>1. i \in 0..L /\ Keyed(cs[i], Lookup(k))
    BY <1>1, AtIs
  <2>2. i \in 1..L
    BY <1>1, <2>1
  <2>3. cs[i].k # Structural
    BY <2>1, StructuralKeyed DEF Keyed
  <2> QED
    BY <2>1, <2>2, <2>3 DEF Keyed, Unkeyed
<1>3. /\ j \in i..(L - 1) /\ cs[j + 1].k # "CONTINUE"
      /\ \A q \in (i + 1)..j : cs[q].k = "CONTINUE"
  BY <1>2, ChainEndIs
<1> HIDE DEF i, j, L
<1>4. \A q \in i..j : cs[q].k # Structural
  <2>1. \A q \in i..j : q = i \/ q \in (i + 1)..j
    BY <1>1, <1>2, <1>3
  <2> QED
    BY <2>1, <1>2, <1>3 DEF Structural
<1>5. Fits(cs, i, j, <<>>)
  <2>1. i \in 1..L /\ j \in (i - 1)..(L - 1)
    BY <1>1, <1>2, <1>3
  <2>2. <<>> \in Seq(Card) /\ \A p \in 1..Len(<<>>) : FALSE
    OBVIOUS
  <2> QED
    BY <2>1, <2>2, <1>3, <1>4 DEF Fits, L
<1>6. DeleteCards(cs, Lookup(k)) = Spliced(cs, i, j, <<>>)
  BY DEF DeleteCards, i, j
<1> QED
  BY <1>5, <1>6, SplicedSound

-----------------------------------------------------------------------------
(* Lines of text.                                                          *)

LEMMA CommentaryCardsTyped ==
  ASSUME NEW kw \in Commentary, NEW text \in Bytes
  PROVE  /\ CommentaryCards(kw, text) \in Seq(Card)
         /\ \A p \in 1..Len(CommentaryCards(kw, text)) :
              CommentaryCards(kw, text)[p].k = kw /\ ~ CommentaryCards(kw, text)[p].quoted
<1> DEFINE n == IF text = <<>> THEN 1 ELSE (Len(text) + TextRoom - 1) \div TextRoom
           part(p) == SubSeq(text, (p - 1) * TextRoom + 1, Smaller(p * TextRoom, Len(text)))
           card(p) == [k |-> kw, quoted |-> FALSE, note |-> <<>>, text |-> part(p)]
           new == [p \in 1..n |-> card(p)]
<1>0. TextRoom \in Nat \ {0} /\ text \in Seq(Nat) /\ Len(text) \in Nat
  <2>1. TextRoom \in Nat /\ TextRoom >= 1
    BY LayoutAssumption
  <2> QED
    BY <2>1 DEF Bytes
<1>1. n \in Nat
  <2>1. Len(text) + TextRoom - 1 \in Nat
    BY <1>0
  <2>2. \A a \in Nat : a \div TextRoom \in Nat
    BY <1>0
  <2> QED
    BY <2>1, <2>2
<1>2. CommentaryCards(kw, text) = new
  BY DEF CommentaryCards
<1> HIDE DEF n
<1>3. ASSUME NEW p \in 1..n PROVE part(p) \in Bytes
  <2>1. (p - 1) * TextRoom \in Nat /\ p * TextRoom \in Nat
    <3>1. p - 1 \in Nat /\ p \in Nat
      BY <1>1
    <3>2. \A a, b \in Nat : a * b \in Nat
      OBVIOUS
    <3> QED
      BY <3>1, <3>2, <1>0
  <2> DEFINE m == (p - 1) * TextRoom + 1
             t == p * TextRoom
             z == Smaller(t, Len(text))
  <2>2. m \in Nat \ {0} /\ t \in Nat
    BY <2>1
  <2> HIDE DEF m, t
  <2>3. z \in Int /\ z <= Len(text)
    BY <2>2, <1>0 DEF Smaller
  <2> HIDE DEF z
  <2>4. SubSeq(text, m, z) \in Seq(Nat)
    BY <1>0, <2>2, <2>3, SubSeqTyped
  <2> QED
    BY <2>4 DEF m, z, t, Bytes
<1>4. \A p \in 1..n : card(p) \in Card /\ card(p).k = kw /\ ~ card(p).quoted
  <2>1. <<>> \in Bytes /\ kw \in Keys \cup Unkeyed \cup {Structural}
    BY DEF Bytes, Unkeyed
  <2> HIDE DEF part
  <2> QED
    BY <1>3, <2>1 DEF Card
<1> HIDE DEF card
<1>5. new \in [1..n -> Card] /\ \A p \in 1..n : new[p] = card(p)
  BY <1>4
<1> HIDE DEF new
<1>6. new \in Seq(Card) /\ Len(new) = n
  BY <1>1, <1>5
<1> QED
  BY <1>2, <1>4, <1>5, <1>6

\* append_commentary_to_cards
LEMMA AddCommentarySound ==
  ASSUME NEW cs, Sound(cs), NEW kw \in Commentary, NEW text \in Bytes
  PROVE  Sound(AddCommentary(cs, kw, text)) /\ SameRows(cs, AddCommentary(cs, kw, text))
<1> DEFINE L == Len(cs)
           I == {p \in 1..Len(cs) : IsCommentary(cs[p], kw)}
           i == IF I # {} THEN Max(I) ELSE 0
           at == IF i # 0 THEN i + 1 ELSE Ends(cs)
           new == CommentaryCards(kw, text)
<1>1. cs \in Seq(Card) /\ L \in Nat /\ L > 0 /\ cs[L].k = "END"
  BY DEF Sound, OneEnd
<1>2. AddCommentary(cs, kw, text) = Spliced(cs, at, at - 1, new)
  BY DEF AddCommentary, SelectLastInSeq
<1>3. i # 0 => i \in 1..L /\ IsCommentary(cs[i], kw)
  <2>1. I \subseteq 0..L /\ I \subseteq 1..L /\ \A p \in I : IsCommentary(cs[p], kw)
    BY <1>1
  <2> HIDE DEF I, L
  <2>2. I # {} => Max(I) \in I
    BY <1>1, <2>1, MaxIs
  <2> QED
    BY <2>1, <2>2
<1>4. Ends(cs) = L
  <2>1. WellFormed(cs)
    BY SoundIsWellFormed
  <2> QED
    BY <2>1 DEF WellFormed
<1> HIDE DEF i, L
<1>5. kw # "END" /\ kw # "CONTINUE" /\ kw # Structural /\ kw \in Unkeyed
  BY DEF Commentary, Structural, Unkeyed
<1>6. at \in 1..L /\ cs[at].k # "CONTINUE"
  <2>1. CASE i # 0
    <3>1. i \in 1..L /\ cs[i].k = kw
      BY <1>3, <2>1 DEF IsCommentary
    <3>2. i # L
      BY <1>1, <1>5, <3>1
    <3>3. i + 1 \in 1..L /\ (i + 1) - 1 = i /\ at = i + 1
      BY <1>1, <2>1, <3>1, <3>2
    <3>4. ~ Links(cs[i])
      <4>1. \A p \in 1..L : cs[p].k \in Commentary => ~ cs[p].quoted
        BY DEF Sound, TextPlain, L
      <4> QED
        BY <3>1, <4>1 DEF Links
    <3>5. \A p \in 1..L : cs[p].k = "CONTINUE" => p > 1 /\ Links(cs[p - 1])
      BY DEF Sound, Chained, L
    <3> HIDE DEF at
    <3> QED
      BY <3>3, <3>4, <3>5
  <2>2. CASE i = 0
    <3>1. at = L
      BY <1>4, <2>2
    <3> HIDE DEF at
    <3> QED
      BY <3>1, <1>1
  <2> QED
    BY <2>1, <2>2
<1>7. new \in Seq(Card) /\ \A p \in 1..Len(new) : new[p].k = kw /\ ~ new[p].quoted
  BY CommentaryCardsTyped
<1> HIDE DEF at, new
<1>8. Fits(cs, at, at - 1, new)
  <2>1. at - 1 \in (at - 1)..(L - 1) /\ (at - 1) + 1 = at /\ \A q \in at..(at - 1) : FALSE
    BY <1>1, <1>6
  <2> QED
    BY <2>1, <1>5, <1>6, <1>7 DEF Fits, L
<1> QED
  BY <1>2, <1>8, SplicedSound

\* delete_commentary_cards
LEMMA DeleteCommentarySound ==
  ASSUME NEW cs, Sound(cs), NEW kw \in Commentary
  PROVE  Sound(DeleteCommentary(cs, kw)) /\ SameRows(cs, DeleteCommentary(cs, kw))
<1> DEFINE L == Len(cs)
           K == {p \in 1..Len(cs) : ~ IsCommentary(cs[p], kw)}
           d == Kept(cs, K)
           M == Len(d)
<1>1. cs \in Seq(Card) /\ L \in Nat /\ L > 0 /\ cs[L].k = "END" /\ DOMAIN cs = 1..L
  BY DEF Sound, OneEnd
<1>2. DeleteCommentary(cs, kw) = d
  <2>1. \A p \in DOMAIN cs : (IF IsCommentary(cs[p], kw) THEN <<>> ELSE <<cs[p]>>)
                              = (IF p \in K THEN <<cs[p]>> ELSE <<>>)
    BY <1>1
  <2> HIDE DEF K
  <2>2. [p \in DOMAIN cs |-> IF IsCommentary(cs[p], kw) THEN <<>> ELSE <<cs[p]>>]
        = [p \in DOMAIN cs |-> IF p \in K THEN <<cs[p]>> ELSE <<>>]
    BY <2>1
  <2> QED
    BY <2>2 DEF DeleteCommentary, Kept
<1>3. d \in Seq(Card) /\ M \in Nat
  <2> HIDE DEF K
  <2>1. d \in Seq(Card)
    BY <1>1, KeptFiltered
  <2> HIDE DEF d
  <2> QED
    BY <2>1
<1>4. PICK pos : Filtered(d, cs, K, L, pos)
  <2> HIDE DEF K
  <2> QED
    BY <1>1, KeptFiltered
<1>5. \A p \in 1..L : cs[p].k # kw => p \in K
  BY DEF IsCommentary
<1> HIDE DEF d, M, L, K
<1>6. /\ \A a \in 1..M : pos[a] \in K /\ pos[a] \in 1..L /\ d[a] = cs[pos[a]]
      /\ \A a, b \in 1..M : a < b => pos[a] < pos[b]
      /\ \A p \in 1..L : p \in K => \E a \in 1..M : pos[a] = p
  BY <1>4 DEF Filtered, M
<1>7. \A a, b \in 1..M : a # b => pos[a] # pos[b]
  <2> SUFFICES ASSUME NEW a \in 1..M, NEW b \in 1..M, a # b PROVE pos[a] # pos[b]
    OBVIOUS
  <2>1. a < b \/ b < a
    BY <1>3
  <2>2. pos[a] \in 1..L /\ pos[b] \in 1..L
    BY <1>6
  <2>3. pos[a] < pos[b] \/ pos[b] < pos[a]
    BY <2>1, <1>6
  <2> QED
    BY <2>2, <2>3, <1>1
<1>8. PICK z \in 1..M : pos[z] = L
  <2>1. L \in 1..L
    BY <1>1
  <2>2. "END" # kw
    BY DEF Commentary
  <2>3. L \in K
    BY <2>1, <2>2, <1>1, <1>5
  <2> QED
    BY <2>1, <2>3, <1>6
<1>9. z = M
  <2> SUFFICES ASSUME z # M PROVE FALSE
    OBVIOUS
  <2>1. M \in 1..M /\ z < M
    BY <1>3
  <2>2. pos[z] < pos[M] /\ pos[M] \in 1..L
    BY <2>1, <1>6
  <2> QED
    BY <2>2, <1>1, <1>8
<1>10. OneEnd(d)
  <2>1. \A p \in 1..L : cs[p].k = "END" => p = L
    BY DEF Sound, OneEnd, L
  <2>2. d[M].k = "END"
    BY <1>1, <1>6, <1>8, <1>9
  <2>3. ASSUME NEW a \in 1..M, d[a].k = "END" PROVE a = M
    <3>1. pos[a] = L
      BY <2>1, <2>3, <1>6
    <3> QED
      BY <3>1, <1>7, <1>8, <1>9
  <2> QED
    BY <2>2, <2>3 DEF OneEnd, M
<1>11. NoDouble(d)
  <2>1. \A x, y \in 1..L : cs[x].k \notin Unkeyed /\ cs[y].k \notin Unkeyed /\ x # y => Lookup(cs[x].k) # Lookup(cs[y].k)
    BY DEF Sound, NoDouble, L
  <2>2. ASSUME NEW a \in 1..M, NEW b \in 1..M, d[a].k \notin Unkeyed, d[b].k \notin Unkeyed, a # b
        PROVE  Lookup(d[a].k) # Lookup(d[b].k)
    <3>1. pos[a] \in 1..L /\ pos[b] \in 1..L /\ pos[a] # pos[b] /\ d[a] = cs[pos[a]] /\ d[b] = cs[pos[b]]
      BY <2>2, <1>6, <1>7
    <3> QED
      BY <2>1, <2>2, <3>1
  <2> QED
    BY <2>2 DEF NoDouble, M
<1>12. TextPlain(d)
  <2>1. \A x \in 1..L : cs[x].k \in Commentary => ~ cs[x].quoted
    BY DEF Sound, TextPlain, L
  <2>2. \A a \in 1..M : d[a].k \in Commentary => ~ d[a].quoted
    BY <2>1, <1>6
  <2> QED
    BY <2>2 DEF TextPlain, M
<1>13. Chained(d)
  <2> SUFFICES ASSUME NEW a \in 1..M, d[a].k = "CONTINUE" PROVE a > 1 /\ Links(d[a - 1])
    BY DEF Chained, M
  <2> DEFINE x == pos[a]
  <2>1. x \in 1..L /\ cs[x].k = "CONTINUE"
    BY <1>6
  <2> HIDE DEF x
  <2>2. x > 1 /\ Links(cs[x - 1])
    BY <2>1 DEF Sound, Chained, L
  <2>3. x - 1 \in 1..L /\ x \in Int
    BY <1>1, <2>1, <2>2
  <2>4. x - 1 \in K
    <3>1. \A p \in 1..L : cs[p].k \in Commentary => ~ cs[p].quoted
      BY DEF Sound, TextPlain, L
    <3>2. cs[x - 1].k # kw
      BY <3>1, <2>2, <2>3 DEF Links
    <3> QED
      BY <3>2, <2>3, <1>5
  <2>5. PICK b \in 1..M : pos[b] = x - 1
    BY <2>3, <2>4, <1>6
  <2>6. b < a
    <3> SUFFICES ASSUME ~(b < a) PROVE FALSE
      OBVIOUS
    <3>1. b = a \/ a < b
      BY <1>3
    <3>2. x - 1 = x \/ x < x - 1
      BY <3>1, <2>5, <1>6 DEF x
    <3> QED
      BY <3>2, <2>3
  <2>7. b = a - 1
    <3> SUFFICES ASSUME b # a - 1 PROVE FALSE
      OBVIOUS
    <3>1. a - 1 \in 1..M /\ b < a - 1 /\ a - 1 < a
      BY <2>6, <1>3
    <3>2. x - 1 < pos[a - 1] /\ pos[a - 1] < x /\ pos[a - 1] \in 1..L
      BY <3>1, <2>5, <1>6 DEF x
    <3> QED
      BY <3>2, <2>3, <1>1
  <2>8. a > 1 /\ d[a - 1] = cs[x - 1]
    BY <2>5, <2>7, <1>3, <1>6
  <2> QED
    BY <2>2, <2>8
<1>14. PICK s \in 1..L : cs[s].k = Structural
  BY DEF Sound, L
<1>15. PICK t \in 1..M : pos[t] = s
  <2>1. s \in K
    BY <1>5, <1>14 DEF Commentary, Structural
  <2> QED
    BY <2>1, <1>6
<1>16. d[t] = cs[s] /\ d[t].k = Structural
  BY <1>6, <1>14, <1>15
<1>17. SameRows(cs, d)
  BY <1>14, <1>16 DEF SameRows, L, M
<1>18. Sound(d)
  <2>1. Len(d) > 0 /\ \E y \in 1..Len(d) : d[y].k = Structural
    <3>1. M > 0
      BY <1>3, <1>9
    <3> QED
      BY <3>1, <1>16 DEF M
  <2> QED
    BY <2>1, <1>3, <1>10, <1>11, <1>12, <1>13 DEF Sound
<1> QED
  BY <1>2, <1>17, <1>18

-----------------------------------------------------------------------------
(* Text and bytes.                                                         *)

LEMMA BytesParts ==
  ASSUME NEW s \in Bytes
  PROVE  /\ Len(s) \in Nat /\ DOMAIN s = 1..Len(s)
         /\ \A i \in 1..Len(s) : s[i] \in Nat /\ <<s[i]>> \in Seq(Nat)
         /\ \A m \in Nat \ {0} : \A n \in Int : n <= Len(s) => SubSeq(s, m, n) \in Bytes
         /\ \A t \in Bytes : s \o t \in Bytes
         /\ \A x \in Nat : Append(s, x) \in Bytes
<1>1. s \in Seq(Nat) /\ Len(s) \in Nat /\ DOMAIN s = 1..Len(s)
  BY DEF Bytes
<1>2. \A i \in 1..Len(s) : s[i] \in Nat
  BY <1>1, ElementOfSeq
<1>3. \A i \in 1..Len(s) : <<s[i]>> \in Seq(Nat)
  BY <1>2
<1>4. \A m \in Nat \ {0} : \A n \in Int : n <= Len(s) => SubSeq(s, m, n) \in Bytes
  BY <1>1, SubSeqTyped DEF Bytes
<1>5. \A t \in Bytes : s \o t \in Bytes
  BY <1>1 DEF Bytes
<1>6. \A x \in Nat : Append(s, x) \in Bytes
  BY <1>1 DEF Bytes
<1> QED
  BY <1>1, <1>2, <1>3, <1>4, <1>5, <1>6

LEMMA LastOfAppend ==
  ASSUME NEW s \in Bytes, NEW x
  PROVE  Append(s, x) # <<>> /\ Last(Append(s, x)) = x
<1>1. s \in Seq(Nat) /\ Len(s) \in Nat
  BY DEF Bytes
<1>2. Len(Append(s, x)) = Len(s) + 1 /\ Append(s, x)[Len(s) + 1] = x
  BY <1>1
<1>3. Len(<<>>) = 0
  OBVIOUS
<1> QED
  BY <1>1, <1>2, <1>3 DEF Last

\* What is put together from at most so many sequences is one.
LEMMA JoinedTyped ==
  ASSUME NEW n \in Nat, NEW ss, ss \in [1..n -> Seq(Nat)]
  PROVE  /\ FlattenSeq(ss) \in Bytes
         /\ n > 0 /\ ss[n] # <<>> => FlattenSeq(ss) # <<>>
<1>1. ss \in Seq(Seq(Nat)) /\ Len(ss) = n
  <2> DEFINE B == Seq(Nat)
  <2> HIDE DEF B
  <2>1. ss \in [1..n -> B]
    BY DEF B
  <2>2. ss \in Seq(B) /\ Len(ss) = n
    BY <2>1
  <2> QED
    BY <2>2 DEF B
<1>2. n > 0 => ss # <<>>
  <2>1. Len(<<>>) = 0
    OBVIOUS
  <2> QED
    BY <2>1, <1>1
<1> QED
  BY <1>1, <1>2, FlattenSeqTyped DEF Bytes

LEMMA EscapedTyped ==
  ASSUME NEW v \in Bytes
  PROVE  Escaped(v) \in Bytes /\ (v # <<>> => Escaped(v) # <<>>)
<1> DEFINE n == Len(v)
           ss == [i \in DOMAIN v |-> IF v[i] = Quote THEN <<Quote, Quote>> ELSE <<v[i]>>]
<1>1. n \in Nat /\ DOMAIN v = 1..n /\ \A i \in 1..n : v[i] \in Nat /\ <<v[i]>> \in Seq(Nat)
  BY BytesParts
<1>2. <<Quote, Quote>> \in Seq(Nat) /\ <<Quote, Quote>> # <<>> /\ \A i \in 1..n : <<v[i]>> # <<>>
  BY DEF Quote
<1> HIDE DEF n
<1>3. ss \in [1..n -> Seq(Nat)] /\ \A i \in 1..n : ss[i] # <<>>
  <2>1. \A i \in 1..n : (IF v[i] = Quote THEN <<Quote, Quote>> ELSE <<v[i]>>) \in Seq(Nat)
                        /\ (IF v[i] = Quote THEN <<Quote, Quote>> ELSE <<v[i]>>) # <<>>
    BY <1>1, <1>2
  <2> QED
    BY <2>1, <1>1
<1>4. Escaped(v) = FlattenSeq(ss)
  BY DEF Escaped
<1> HIDE DEF ss
<1>5. Escaped(v) \in Bytes /\ (n > 0 => Escaped(v) # <<>>)
  BY <1>1, <1>3, <1>4, JoinedTyped
<1>6. v # <<>> => n > 0
  BY DEF n, Bytes
<1> QED
  BY <1>5, <1>6

LEMMA ContentTyped ==
  ASSUME NEW card \in Card
  PROVE  Content(card) \in Bytes
<1>1. ASSUME NEW s \in Bytes PROVE Unescaped[s] \in Bytes
  <2> DEFINE n == Len(s)
             RunAt(i) == i - Largest({0} \cup {j \in 1..i - 1 : s[j] # Quote})
             gone(i) == s[i] = Quote /\ RunAt(i) % 2 = 0
             ss == [i \in DOMAIN s |-> IF gone(i) THEN <<>> ELSE <<s[i]>>]
  <2>1. n \in Nat /\ DOMAIN s = 1..n /\ \A i \in 1..n : <<s[i]>> \in Seq(Nat)
    BY BytesParts
  <2>2. Unescaped[s] = FlattenSeq(ss)
    BY DEF Unescaped
  <2> HIDE DEF n, gone
  <2>3. ss \in [1..n -> Seq(Nat)]
    <3>1. \A i \in 1..n : (IF gone(i) THEN <<>> ELSE <<s[i]>>) \in Seq(Nat)
      BY <2>1
    <3> QED
      BY <3>1, <2>1
  <2> HIDE DEF ss
  <2> QED
    BY <2>1, <2>2, <2>3, JoinedTyped
<1>2. ASSUME NEW s \in Bytes PROVE Trimmed[s] \in Bytes
  <2> DEFINE I == {0} \cup {i \in DOMAIN s : s[i] # Space}
             z == Largest(I)
  <2>1. Len(s) \in Nat /\ DOMAIN s = 1..Len(s)
    BY BytesParts
  <2>2. Trimmed[s] = SubSeq(s, 1, z)
    BY DEF Trimmed
  <2>3. I \subseteq 0..Len(s) /\ I # {}
    BY <2>1
  <2> HIDE DEF I
  <2>4. z \in 0..Len(s)
    BY <2>1, <2>3, LargestIs
  <2> HIDE DEF z
  <2>5. z \in Int /\ z <= Len(s)
    BY <2>1, <2>4
  <2> QED
    BY <2>2, <2>5, BytesParts
<1>3. card.text \in Bytes
  BY DEF Card
<1> QED
  BY <1>1, <1>2, <1>3 DEF Content

-----------------------------------------------------------------------------
(* The cards of a value.                                                   *)

LEMMA BackedIs ==
  ASSUME NEW esc \in Bytes, NEW pos \in Nat, pos < Len(esc), NEW want \in 1..(Len(esc) - pos)
  PROVE  Backed(esc, pos, want) \in 1..(Len(esc) - pos)
<1> DEFINE total == Len(esc)
           parts == {t \in 1..want : pos + t < Len(esc) => ~ /\ esc[pos + t] = Quote
                                                             /\ esc[pos + t + 1] = Quote}
<1>1. total \in Nat /\ want \in Nat /\ 1 <= want /\ want <= total - pos
  BY DEF Bytes
<1>2. Backed(esc, pos, want) = IF parts = {} THEN 2 ELSE Largest(parts)
  BY DEF Backed
<1>3. CASE parts = {}
  <2>1. 1 \in 1..want
    BY <1>1
  <2>2. pos + 1 < Len(esc)
    BY <2>1, <1>3
  <2>3. 2 \in 1..(total - pos)
    BY <2>2, <1>1
  <2> HIDE DEF parts
  <2> QED
    BY <2>3, <1>2, <1>3
<1>4. CASE parts # {}
  <2>1. parts \subseteq 0..want /\ parts \subseteq 1..want
    BY <1>1
  <2> HIDE DEF parts
  <2>2. Largest(parts) \in 1..want
    BY <1>1, <1>4, <2>1, LargestIs
  <2> QED
    BY <2>2, <1>1, <1>2, <1>4
<1> QED
  BY <1>3, <1>4

\* Every card but the last of a chain ends in &, and only the first has a keyword.
LEMMA ChainBuilt ==
  ASSUME NEW k \in Keys, NEW esc \in Bytes, esc # <<>>, NEW note \in Bytes, LastRoom(note) > 0,
         NEW firstRoom \in Nat \ {0}
  PROVE  Built(Chain(k, esc, note, firstRoom), k) /\ Links(Chain(k, esc, note, firstRoom)[1])
<1> DEFINE last == LastRoom(note)
           total == Len(esc)
           D == 0..total
           R == Seq(Card)
           isLast(pos) == pos > 0 /\ total - pos =< last
           take(pos) == IF isLast(pos) THEN total - pos
                        ELSE Backed(esc, pos, IF pos = 0 THEN Smaller(firstRoom, total - pos)
                                              ELSE Smaller(total - pos - last, Payload - 1))
           inner(pos) == SubSeq(esc, pos + 1, pos + take(pos))
           card(pos) == [k |-> IF pos = 0 THEN k ELSE "CONTINUE", quoted |-> TRUE,
                         text |-> IF isLast(pos) THEN inner(pos) ELSE Append(inner(pos), Amp),
                         note |-> IF isLast(pos) THEN note ELSE <<>>]
           chain == CHOOSE chain : chain = [pos \in D |-> IF pos >= total THEN <<>>
                                                          ELSE <<card(pos)>> \o chain[pos + take(pos)]]
<1>0. Chain(k, esc, note, firstRoom) = chain[0]
  BY DEF Chain
<1>1. total \in Nat /\ total > 0 /\ last \in Int /\ last > 0 /\ Payload \in Nat /\ Payload - 1 >= 1
  <2>1. Len(note) \in Nat /\ Payload \in Nat /\ Payload >= 2
    BY LayoutAssumption DEF Bytes
  <2>2. last \in Int
    BY <2>1 DEF LastRoom, NoteCost
  <2> QED
    BY <2>1, <2>2 DEF Bytes
<1> HIDE DEF last, total
<1>2. ASSUME NEW pos \in D, pos < total PROVE take(pos) \in 1..(total - pos)
  <2>1. CASE isLast(pos)
    <3>1. take(pos) = total - pos
      BY <2>1
    <3> HIDE DEF take
    <3> QED
      BY <3>1, <1>1, <1>2
  <2>2. CASE ~ isLast(pos)
    <3> DEFINE want == IF pos = 0 THEN Smaller(firstRoom, total - pos)
                       ELSE Smaller(total - pos - last, Payload - 1)
    <3>1. want \in 1..(total - pos)
      BY <1>1, <1>2, <2>2 DEF Smaller
    <3>2. take(pos) = Backed(esc, pos, want)
      BY <2>2
    <3> HIDE DEF want, take
    <3>3. pos \in Nat /\ pos < Len(esc)
      BY <1>2 DEF total
    <3> QED
      BY <3>1, <3>2, <3>3, BackedIs DEF total
  <2> QED
    BY <2>1, <2>2
<1> HIDE DEF take
<1>3. ASSUME NEW pos \in D, pos < total
      PROVE  /\ card(pos) \in Card
             /\ card(pos).k = IF pos = 0 THEN k ELSE "CONTINUE"
             /\ ~ isLast(pos) => Links(card(pos))
  <2>1. inner(pos) \in Bytes
    <3>1. /\ pos + 1 \in Nat \ {0} /\ pos + take(pos) \in Int
          /\ pos + take(pos) <= Len(esc)
      BY <1>1, <1>2, <1>3 DEF total
    <3> QED
      BY <3>1, BytesParts
  <2> HIDE DEF inner
  <2>2. Append(inner(pos), Amp) \in Bytes
    BY <2>1, BytesParts DEF Amp
  <2>3. Append(inner(pos), Amp) # <<>> /\ Last(Append(inner(pos), Amp)) = Amp
    BY <2>1, LastOfAppend
  <2>4. <<>> \in Bytes
    BY DEF Bytes
  <2> HIDE DEF isLast
  <2>5. card(pos) \in Card
    BY <2>1, <2>2, <2>4 DEF Card, Unkeyed
  <2> QED
    BY <2>3, <2>5 DEF Links
<1> HIDE DEF card
<1>4. \A pos \in D : pos < total => pos + take(pos) \in D /\ pos < pos + take(pos)
  BY <1>1, <1>2
<1>4a. \A pos \in D : pos \in Nat /\ total - pos \in Nat /\ (pos >= total <=> ~(pos < total)) /\ (pos >= total => pos = total)
  BY <1>1
<1>5. <<>> \in R /\ \A pos \in D, s \in R : pos < total => <<card(pos)>> \o s \in R
  <2>1. \A pos \in D : pos < total => <<card(pos)>> \in R
    BY <1>3
  <2>2. \A a, b \in R : a \o b \in R
    OBVIOUS
  <2> QED
    BY <2>1, <2>2
<1> DEFINE measure == [pos \in D |-> total - pos]
           step == [p \in D \X [D -> R] |-> IF p[1] >= total THEN <<>>
                                            ELSE <<card(p[1])>> \o p[2][p[1] + take(p[1])]]
<1>6. \A pos \in D : measure[pos] = total - pos
  OBVIOUS
<1>7. \A pos, x \in D : pos < x => total - x < total - pos
  BY <1>1
<1> HIDE DEF D, R
<1>8. \A pos \in D : \A g \in [D -> R] :
         step[<<pos, g>>] = IF pos >= total THEN <<>> ELSE <<card(pos)>> \o g[pos + take(pos)]
  OBVIOUS
<1>9. IsRecursion(D, R, measure, step)
  <2>1. R # {} /\ measure \in [D -> Nat]
    BY <1>5, <1>4a
  <2>2. step \in [D \X [D -> R] -> R]
    <3>1. ASSUME NEW pos \in D, NEW g \in [D -> R]
          PROVE  (IF pos >= total THEN <<>> ELSE <<card(pos)>> \o g[pos + take(pos)]) \in R
      <4>1. CASE pos >= total
        BY <4>1, <1>5
      <4>2. CASE ~(pos >= total)
        <5>1. pos < total
          BY <4>2, <1>4a
        <5>2. g[pos + take(pos)] \in R
          BY <5>1, <1>4
        <5> QED
          BY <4>2, <5>1, <5>2, <1>5
      <4> QED
        BY <4>1, <4>2
    <3> QED
      BY <3>1
  <2>3. ASSUME NEW x \in D, NEW g \in [D -> R], NEW h \in [D -> R],
               \A y \in D : measure[y] < measure[x] => g[y] = h[y]
        PROVE  step[<<x, g>>] = step[<<x, h>>]
    <3>1. ~(x >= total) => g[x + take(x)] = h[x + take(x)]
      <4> SUFFICES ASSUME ~(x >= total) PROVE g[x + take(x)] = h[x + take(x)]
        OBVIOUS
      <4>1. x + take(x) \in D /\ x < x + take(x)
        BY <1>4, <1>4a
      <4>2. total - (x + take(x)) < total - x
        BY <4>1, <1>7
      <4>3. measure[x + take(x)] < measure[x]
        BY <4>1, <4>2, <1>6
      <4> HIDE DEF measure
      <4> QED
        BY <4>1, <4>3, <2>3
    <3> HIDE DEF step
    <3>2. /\ step[<<x, g>>] = IF x >= total THEN <<>> ELSE <<card(x)>> \o g[x + take(x)]
          /\ step[<<x, h>>] = IF x >= total THEN <<>> ELSE <<card(x)>> \o h[x + take(x)]
      BY <1>8
    <3> QED
      BY <3>1, <3>2, Zenon
  <2> HIDE DEF step, measure
  <2> QED
    BY <2>1, <2>2, <2>3 DEF IsRecursion
<1>10. PICK f \in [D -> R] : \A x \in D : f[x] = step[<<x, f>>]
  <2> HIDE DEF step, measure
  <2> QED
    BY <1>9, RecursionExists
<1>11. f = [pos \in D |-> IF pos >= total THEN <<>> ELSE <<card(pos)>> \o f[pos + take(pos)]]
  <2> HIDE DEF step
  <2>1. \A x \in D : f[x] = IF x >= total THEN <<>> ELSE <<card(x)>> \o f[x + take(x)]
    BY <1>8, <1>10
  <2> QED
    BY <2>1
<1>12. chain = [pos \in D |-> IF pos >= total THEN <<>> ELSE <<card(pos)>> \o chain[pos + take(pos)]]
  BY <1>11
<1> HIDE DEF chain, step
<1>13. \A pos \in D : chain[pos] = IF pos >= total THEN <<>> ELSE <<card(pos)>> \o chain[pos + take(pos)]
  BY <1>12
\* Behind the first card.
<1> DEFINE Tail0(s) == /\ s \in R
                       /\ \A p \in 1..Len(s) : s[p].k = "CONTINUE" /\ (p < Len(s) => Links(s[p]))
           S == {pos \in D : pos > 0 => Tail0(chain[pos])}
<1>14. ASSUME NEW pos \in D, pos > 0, pos < total, Tail0(chain[pos + take(pos)])
       PROVE  Tail0(chain[pos])
  <2> DEFINE s == chain[pos + take(pos)]
             t == <<card(pos)>> \o s
  <2>1. chain[pos] = t
    BY <1>13, <1>14, <1>4a
  <2>2. card(pos) \in Card /\ card(pos).k = "CONTINUE" /\ (~ isLast(pos) => Links(card(pos)))
    BY <1>3, <1>14 DEF D
  <2>3. s \in Seq(Card)
    BY <1>14 DEF R
  <2>4. isLast(pos) => s = <<>>
    <3> SUFFICES ASSUME isLast(pos) PROVE s = <<>>
      OBVIOUS
    <3>1. pos + take(pos) = total
      BY <1>1, <1>4a DEF take
    <3>2. total \in D /\ total >= total
      BY <1>1 DEF D
    <3> QED
      BY <3>1, <3>2, <1>13
  <2> HIDE DEF s, isLast
  <2>5. Len(s) \in Nat /\ t \in Seq(Card) /\ Len(t) = Len(s) + 1 /\ t[1] = card(pos)
        /\ \A p \in 2..(Len(s) + 1) : t[p] = s[p - 1]
    BY <2>2, <2>3
  <2> HIDE DEF t
  <2>6. ASSUME NEW p \in 1..Len(t) PROVE t[p].k = "CONTINUE" /\ (p < Len(t) => Links(t[p]))
    <3>1. CASE p = 1
      <4>1. p < Len(t) => ~ isLast(pos)
        <5>1. s = <<>> => Len(s) = 0
          OBVIOUS
        <5> QED
          BY <3>1, <5>1, <2>4, <2>5
      <4> QED
        BY <3>1, <4>1, <2>2, <2>5
    <3>2. CASE p # 1
      <4>1. p \in 2..(Len(s) + 1) /\ p - 1 \in 1..Len(s) /\ (p < Len(t) => p - 1 < Len(s))
        BY <3>2, <2>5
      <4>2. s[p - 1].k = "CONTINUE" /\ (p - 1 < Len(s) => Links(s[p - 1]))
        BY <4>1, <1>14 DEF s
      <4> QED
        BY <4>1, <4>2, <2>5
    <3> QED
      BY <3>1, <3>2
  <2> QED
    BY <2>1, <2>5, <2>6 DEF R
<1>15. \A pos \in D : pos \in S
  <2>1. ASSUME NEW pos \in D, \A y \in D : measure[y] < measure[pos] => y \in S PROVE pos \in S
    <3> SUFFICES ASSUME pos > 0 PROVE Tail0(chain[pos])
      OBVIOUS
    <3>1. CASE pos >= total
      <4>1. chain[pos] = <<>>
        BY <3>1, <1>13
      <4> QED
        BY <4>1, <1>5
    <3>2. CASE ~(pos >= total)
      <4>1. pos < total /\ pos + take(pos) \in D /\ pos < pos + take(pos)
        BY <3>2, <1>4, <1>4a
      <4>2. measure[pos + take(pos)] < measure[pos]
        BY <4>1, <1>6, <1>7
      <4> HIDE DEF measure
      <4>3. pos + take(pos) \in S /\ pos + take(pos) > 0
        BY <2>1, <4>1, <4>2, <1>4a
      <4>4. Tail0(chain[pos + take(pos)])
        BY <4>3
      <4> HIDE DEF Tail0
      <4> QED
        BY <4>1, <4>4, <1>14
    <3> QED
      BY <3>1, <3>2
  <2>2. measure \in [D -> Nat]
    BY <1>9 DEF IsRecursion
  <2> HIDE DEF S, measure
  <2> QED
    BY <2>1, <2>2, MeasureInduction
<1>16. 0 \in D /\ 0 < total /\ ~(0 >= total) /\ ~ isLast(0)
  BY <1>1 DEF D
<1> DEFINE s == chain[0 + take(0)]
           t == <<card(0)>> \o s
<1>17. Tail0(s)
  <2>1. 0 + take(0) \in D /\ 0 < 0 + take(0)
    BY <1>4, <1>16
  <2> DEFINE y == 0 + take(0)
  <2>2. y \in D /\ y > 0
    BY <2>1, <1>4a
  <2> HIDE DEF y
  <2>3. Tail0(chain[y])
    BY <2>2, <1>15
  <2> QED
    BY <2>3 DEF y
<1>18. chain[0] = t
  BY <1>13, <1>16
<1>19. card(0) \in Card /\ card(0).k = k /\ Links(card(0))
  BY <1>3, <1>16 DEF D
<1>20. s \in Seq(Card) /\ \A p \in 1..Len(s) : s[p].k = "CONTINUE" /\ (p < Len(s) => Links(s[p]))
  BY <1>17 DEF R
<1> HIDE DEF s
<1>21. Len(s) \in Nat /\ t \in Seq(Card) /\ Len(t) = Len(s) + 1 /\ t[1] = card(0)
       /\ \A p \in 2..(Len(s) + 1) : t[p] = s[p - 1]
  BY <1>19, <1>20
<1> HIDE DEF t
<1>22. ASSUME NEW p \in 2..Len(t) PROVE t[p].k = "CONTINUE" /\ Links(t[p - 1])
  <2>1. p \in 2..(Len(s) + 1) /\ p - 1 \in 1..Len(s)
    BY <1>21
  <2>2. t[p].k = "CONTINUE"
    BY <2>1, <1>20, <1>21
  <2>3. CASE p = 2
    BY <2>2, <2>3, <1>19, <1>21
  <2>4. CASE p # 2
    <3>1. p - 1 \in 2..(Len(s) + 1) /\ (p - 1) - 1 \in 1..Len(s) /\ (p - 1) - 1 < Len(s)
      BY <2>1, <2>4, <1>21
    <3>2. t[p - 1] = s[(p - 1) - 1] /\ Links(s[(p - 1) - 1])
      BY <3>1, <1>20, <1>21
    <3> QED
      BY <2>2, <3>2
  <2> QED
    BY <2>3, <2>4
<1>23. Built(t, k) /\ Links(t[1])
  <2>1. Len(t) > 0
    BY <1>21
  <2> QED
    BY <2>1, <1>19, <1>21, <1>22 DEF Built
<1> QED
  BY <1>0, <1>18, <1>23

-----------------------------------------------------------------------------
(* Reading a value.                                                        *)

Entry == [k : Keys \cup Unkeyed \cup {Structural}, note : Bytes, value : Value]

LEMMA ReadTyped ==
  ASSUME NEW cs \in Seq(Card), NEW i \in 1..Len(cs)
  PROVE  Read(cs, i).note \in Bytes /\ Read(cs, i).value \in Value
<1> DEFINE L == Len(cs)
           D == (DOMAIN cs) \X Bytes \X Bytes
           goes(c) == /\ cs[i].quoted /\ c[2] # <<>> /\ Last(c[2]) = Amp
                      /\ c[1] < Len(cs) /\ cs[c[1] + 1].k = "CONTINUE"
           next(c) == <<c[1] + 1, Front(c[2]) \o Content(cs[c[1] + 1]), Joined(c[3], cs[c[1] + 1].note)>>
           done(c) == [k |-> cs[i].k, note |-> c[3],
                       value |-> [kind |-> IF cs[i].quoted THEN "string" ELSE "number", text |-> c[2]]]
           read == CHOOSE read : read = [c \in D |-> IF goes(c) THEN read[next(c)] ELSE done(c)]
           c0 == <<i, Content(cs[i]), cs[i].note>>
<1>0. Read(cs, i) = read[c0]
  BY DEF Read
<1>1. L \in Nat /\ DOMAIN cs = 1..L /\ \A j \in 1..L : cs[j] \in Card
  BY ElementOfSeq
<1>2. \A j \in 1..L : cs[j].k \in Keys \cup Unkeyed \cup {Structural} /\ cs[j].note \in Bytes /\ Content(cs[j]) \in Bytes
  BY <1>1, ContentTyped DEF Card
<1>3. c0 \in D
  BY <1>1, <1>2
<1>4. \A c \in D : c[1] \in 1..L /\ c[2] \in Bytes /\ c[3] \in Bytes
  BY <1>1
<1> HIDE DEF L
<1>5. ASSUME NEW c \in D, goes(c) PROVE next(c) \in D /\ next(c)[1] = c[1] + 1
  <2>1. c[1] + 1 \in 1..L
    BY <1>1, <1>4, <1>5 DEF L
  <2>2. Front(c[2]) \in Bytes
    <3>1. c[2] \in Bytes /\ Len(c[2]) \in Nat
      BY <1>4 DEF Bytes
    <3>2. Len(c[2]) - 1 \in Int /\ Len(c[2]) - 1 <= Len(c[2]) /\ 1 \in Nat \ {0}
      BY <3>1
    <3> QED
      BY <3>1, <3>2, BytesParts DEF Front
  <2>3. Front(c[2]) \o Content(cs[c[1] + 1]) \in Bytes
    BY <2>1, <2>2, <1>2, BytesParts
  <2>4. Joined(c[3], cs[c[1] + 1].note) \in Bytes
    <3>1. c[3] \in Bytes /\ cs[c[1] + 1].note \in Bytes /\ <<Space>> \in Bytes
      BY <2>1, <1>2, <1>4 DEF Bytes, Space
    <3>2. c[3] \o <<Space>> \in Bytes /\ c[3] \o cs[c[1] + 1].note \in Bytes
      BY <3>1, BytesParts
    <3>3. c[3] \o <<Space>> \o cs[c[1] + 1].note \in Bytes
      BY <3>1, <3>2, BytesParts
    <3> QED
      BY <3>2, <3>3 DEF Joined
  <2> QED
    BY <2>1, <2>3, <2>4, <1>1
<1>6. \A c \in D : done(c) \in Entry /\ done(c).note = c[3]
  <2>1. i \in 1..L
    BY DEF L
  <2> QED
    BY <2>1, <1>2, <1>4 DEF Entry, Value
<1>7. \A c \in D : goes(c) => c[1] < L
  BY DEF L
<1> HIDE DEF goes, next, done, c0
<1> DEFINE measure == [c \in D |-> L - c[1]]
           step == [p \in D \X [D -> Entry] |-> IF goes(p[1]) THEN p[2][next(p[1])] ELSE done(p[1])]
<1>8. \A c \in D : measure[c] = L - c[1] /\ measure[c] \in Nat
  <2>1. \A c \in D : L - c[1] \in Nat
    BY <1>1, <1>4
  <2> HIDE DEF D
  <2> QED
    BY <2>1
<1>9. \A c \in D : goes(c) => next(c) \in D /\ measure[next(c)] < measure[c]
  <2> SUFFICES ASSUME NEW c \in D, goes(c) PROVE next(c) \in D /\ measure[next(c)] < measure[c]
    OBVIOUS
  <2>1. next(c) \in D /\ next(c)[1] = c[1] + 1 /\ c[1] \in 1..L
    BY <1>4, <1>5
  <2>2. measure[next(c)] = L - (c[1] + 1) /\ measure[c] = L - c[1]
    BY <2>1, <1>8
  <2> HIDE DEF measure
  <2> QED
    BY <2>1, <2>2, <1>1
<1>10. measure \in [D -> Nat]
  <2> HIDE DEF D
  <2> QED
    BY <1>8
<1> HIDE DEF D, measure
<1>11. \A c \in D : \A g \in [D -> Entry] : step[<<c, g>>] = IF goes(c) THEN g[next(c)] ELSE done(c)
  OBVIOUS
<1>12. IsRecursion(D, Entry, measure, step)
  <2>1. Entry # {}
    BY <1>3, <1>6
  <2>2. step \in [D \X [D -> Entry] -> Entry]
    <3>1. \A c \in D : \A g \in [D -> Entry] : (IF goes(c) THEN g[next(c)] ELSE done(c)) \in Entry
      BY <1>6, <1>9
    <3> QED
      BY <3>1
  <2>3. ASSUME NEW x \in D, NEW g \in [D -> Entry], NEW h \in [D -> Entry],
               \A y \in D : measure[y] < measure[x] => g[y] = h[y]
        PROVE  step[<<x, g>>] = step[<<x, h>>]
    <3>1. goes(x) => g[next(x)] = h[next(x)]
      BY <2>3, <1>9
    <3> HIDE DEF step
    <3>2. /\ step[<<x, g>>] = IF goes(x) THEN g[next(x)] ELSE done(x)
          /\ step[<<x, h>>] = IF goes(x) THEN h[next(x)] ELSE done(x)
      BY <1>11
    <3> QED
      BY <3>1, <3>2, Zenon
  <2> HIDE DEF step
  <2> QED
    BY <2>1, <2>2, <2>3, <1>10 DEF IsRecursion
<1>13. PICK f \in [D -> Entry] : \A x \in D : f[x] = step[<<x, f>>]
  <2> HIDE DEF step
  <2> QED
    BY <1>12, RecursionExists
<1>14. f = [c \in D |-> IF goes(c) THEN f[next(c)] ELSE done(c)]
  <2> HIDE DEF step
  <2>1. \A x \in D : f[x] = IF goes(x) THEN f[next(x)] ELSE done(x)
    BY <1>11, <1>13
  <2> QED
    BY <2>1
<1>15. read = [c \in D |-> IF goes(c) THEN read[next(c)] ELSE done(c)]
  BY <1>14
<1> HIDE DEF read, step
<1>16. \A c \in D : read[c] = IF goes(c) THEN read[next(c)] ELSE done(c)
  BY <1>15
<1> DEFINE S == {c \in D : read[c] \in Entry}
<1>17. \A c \in D : c \in S
  <2>1. ASSUME NEW c \in D, \A y \in D : measure[y] < measure[c] => y \in S PROVE c \in S
    <3>1. CASE goes(c)
      <4>1. next(c) \in D /\ next(c) \in S
        BY <2>1, <3>1, <1>9
      <4> QED
        BY <3>1, <4>1, <1>16
    <3>2. CASE ~ goes(c)
      BY <3>2, <1>6, <1>16
    <3> QED
      BY <3>1, <3>2
  <2> HIDE DEF S
  <2> QED
    BY <2>1, <1>10, MeasureInduction
<1>18. read[c0] \in Entry
  BY <1>3, <1>17
<1> QED
  BY <1>0, <1>18 DEF Entry

-----------------------------------------------------------------------------
(* build_card_from_value and apply_setitem.                                *)

LEMMA BuiltOne ==
  ASSUME NEW card \in Card
  PROVE  Built(<<card>>, card.k)
<1>1. <<card>> \in Seq(Card) /\ Len(<<card>>) = 1 /\ <<card>>[1] = card
  OBVIOUS
<1>2. \A p \in 2..1 : FALSE
  OBVIOUS
<1> QED
  BY <1>1, <1>2 DEF Built

\* A note cut off where the card ends.
LEMMA CutTyped ==
  ASSUME NEW note \in Bytes, NEW room \in Int
  PROVE  SubSeq(note, 1, Smaller(Len(note), room)) \in Bytes
<1> DEFINE z == Smaller(Len(note), room)
<1>1. Len(note) \in Nat
  BY DEF Bytes
<1>2. z \in Int /\ z <= Len(note)
  BY <1>1 DEF Smaller
<1> HIDE DEF z
<1>3. SubSeq(note, 1, z) \in Bytes
  BY <1>2, BytesParts
<1> QED
  BY <1>3 DEF z

LEMMA FilledTyped ==
  ASSUME NEW s \in Bytes
  PROVE  Filled(s) \in Bytes /\ (s = <<>> => Len(Filled(s)) = MinText)
<1> DEFINE n == IF Len(s) < MinText THEN MinText - Len(s) ELSE 0
           t == [i \in 1..n |-> Space]
<1>1. n \in Nat /\ MinText \in Nat
  BY LayoutAssumption DEF Bytes
<1>2. Filled(s) = s \o t
  BY DEF Filled
<1>3. s = <<>> => n = MinText
  <2>1. s = <<>> => Len(s) = 0
    OBVIOUS
  <2> QED
    BY <1>1, <2>1
<1> HIDE DEF n
<1>4. t \in Seq(Nat) /\ Len(t) = n
  BY <1>1 DEF Space
<1> HIDE DEF t
<1>5. Filled(s) \in Bytes
  BY <1>2, <1>4 DEF Bytes
<1>6. s = <<>> => Len(Filled(s)) = n
  BY <1>2, <1>4
<1> QED
  BY <1>3, <1>5, <1>6

LEMMA BuildCardsBuilt ==
  ASSUME NEW k \in Keys, NEW value \in Value, NEW note \in Bytes, Buildable(k, value, note)
  PROVE  Built(BuildCards(k, value, note), k)
<1> DEFINE v == value.text
           esc == Escaped(v)
<1>0. /\ v \in Bytes /\ value.kind \in {"string", "number", "other"} /\ value.kind # "other"
      /\ Len(note) \in Nat
  BY DEF Value, Buildable, Bytes
<1>1. esc \in Bytes /\ (v # <<>> => esc # <<>>)
  BY <1>0, EscapedTyped
<1>2. k \in Keys \cup Unkeyed \cup {Structural}
  OBVIOUS
<1>3. {Payload, Narrow, NoteRoom, LongRoom, TextRoom, MinText} \subseteq Nat /\ Payload >= 2 /\ LongRoom >= 1
  BY LayoutAssumption
<1>4. Len(esc) \in Nat /\ Filled(esc) \in Bytes /\ (esc = <<>> => Len(Filled(esc)) = MinText)
  <2>1. Len(esc) \in Nat
    BY <1>1 DEF Bytes
  <2> HIDE DEF esc
  <2> QED
    BY <2>1, <1>1, FilledTyped
<1>5. CASE value.kind = "number" /\ k \notin LongKeys
  <2> DEFINE card == NumberCard(k, v, note)
  <2>1. BuildCards(k, value, note) = <<card>>
    BY <1>5 DEF BuildCards
  <2>2. card \in Card /\ card.k = k
    <3>1. SubSeq(note, 1, Smaller(Len(note), NoteRoom)) \in Bytes
      BY <1>3, CutTyped
    <3> QED
      BY <3>1, <1>0, <1>2 DEF NumberCard, Card
  <2> QED
    BY <2>1, <2>2, BuiltOne
<1>6. CASE value.kind = "number" /\ k \in LongKeys
  <2> DEFINE card == [k |-> k, quoted |-> FALSE, text |-> value.text, note |-> note]
  <2>1. BuildCards(k, value, note) = <<card>>
    BY <1>6 DEF BuildCards
  <2>2. card \in Card /\ card.k = k
    BY <1>0, <1>2 DEF Card
  <2> QED
    BY <2>1, <2>2, BuiltOne
<1>7. CASE value.kind = "string" /\ k \notin LongKeys
  <2>0. LastRoom(note) > 0 /\ LastRoom(note) \in Int
    <3>1. LastRoom(note) > 0
      BY <1>7 DEF Buildable
    <3>2. LastRoom(note) \in Int
      BY <1>0, <1>3 DEF LastRoom, NoteCost
    <3> QED
      BY <3>1, <3>2
  <2>1. BuildCards(k, value, note) = PlainCards(k, v, note)
    BY <1>7 DEF BuildCards
  <2>2. CASE Len(esc) =< LastRoom(note)
    <3> DEFINE card == StringCard(k, esc, note)
               room == IF Len(Filled(esc)) =< Narrow THEN NoteRoom ELSE Payload - 3 - Len(esc)
    <3>1. PlainCards(k, v, note) = <<card>>
      BY <2>2 DEF PlainCards
    <3>2. room \in Int
      BY <1>3, <1>4
    <3>3. card = [k |-> k, quoted |-> TRUE, text |-> Filled(esc), note |-> SubSeq(note, 1, Smaller(Len(note), room))]
      BY DEF StringCard
    <3> HIDE DEF room
    <3>4. SubSeq(note, 1, Smaller(Len(note), room)) \in Bytes
      BY <3>2, CutTyped
    <3>5. card \in Card /\ card.k = k
      <4> HIDE DEF card, esc
      <4> QED
        BY <3>3, <3>4, <1>2, <1>4 DEF Card
    <3> QED
      BY <2>1, <3>1, <3>5, BuiltOne
  <2>3. CASE ~(Len(esc) =< LastRoom(note))
    <3> DEFINE firstRoom == Smaller(Len(esc) - LastRoom(note), Payload - 1)
    <3>1. PlainCards(k, v, note) = Chain(k, esc, note, firstRoom)
      BY <2>3 DEF PlainCards
    <3> HIDE DEF esc
    <3>2. firstRoom \in Nat \ {0}
      BY <1>3, <1>4, <2>0, <2>3 DEF Smaller
    <3>3. esc # <<>>
      <4>1. Len(<<>>) = 0
        OBVIOUS
      <4>2. Len(esc) # 0
        BY <1>4, <2>0, <2>3
      <4> QED
        BY <4>1, <4>2
    <3> HIDE DEF firstRoom
    <3> QED
      BY <2>0, <2>1, <3>1, <3>2, <3>3, <1>1, ChainBuilt
  <2> QED
    BY <2>2, <2>3
<1>8. CASE value.kind = "string" /\ k \in LongKeys
  <2> DEFINE chain == Chain(k, esc, note, LongRoom)
             more == [k |-> "CONTINUE", quoted |-> TRUE, text |-> <<>>, note |-> note]
             card == [k |-> k, quoted |-> TRUE, text |-> Filled(esc), note |-> note]
  <2>0. LastRoom(note) > 0 /\ (v = <<>> => MinText + NoteCost(note) =< LongRoom + 1)
    BY <1>8 DEF Buildable
  <2>1. BuildCards(k, value, note) =
          IF Len(Filled(esc)) + NoteCost(note) =< LongRoom + 1 THEN <<card>>
          ELSE IF Len(chain) = 1 THEN Append(chain, more) ELSE chain
    BY <1>8 DEF BuildCards, LongKeyCards
  <2>2. CASE Len(Filled(esc)) + NoteCost(note) =< LongRoom + 1
    <3>1. card \in Card /\ card.k = k
      <4> HIDE DEF esc
      <4> QED
        BY <1>2, <1>4 DEF Card
    <3> QED
      BY <2>1, <2>2, <3>1, BuiltOne
  <2>3. CASE ~(Len(Filled(esc)) + NoteCost(note) =< LongRoom + 1)
    <3>1. esc # <<>>
      <4> SUFFICES ASSUME esc = <<>> PROVE FALSE
        OBVIOUS
      <4>1. v = <<>> /\ Len(Filled(esc)) = MinText
        BY <1>1, <1>4
      <4> HIDE DEF esc
      <4>2. MinText + NoteCost(note) =< LongRoom + 1
        BY <4>1, <2>0
      <4>3. Len(Filled(esc)) + NoteCost(note) = MinText + NoteCost(note)
        BY <4>1, Zenon
      <4> QED
        BY <4>2, <4>3, <2>3, Zenon
    <3>2. LongRoom \in Nat \ {0}
      BY <1>3
    <3> HIDE DEF esc
    <3>3. Built(chain, k) /\ Links(chain[1])
      BY <2>0, <3>1, <3>2, <1>1, ChainBuilt
    <3> HIDE DEF chain
    <3>4. CASE Len(chain) = 1
      <4> DEFINE t == Append(chain, more)
      <4>1. more \in Card /\ more.k = "CONTINUE"
        <5>1. <<>> \in Bytes
          BY DEF Bytes
        <5> QED
          BY <5>1 DEF Card, Unkeyed
      <4>2. chain \in Seq(Card) /\ chain[1].k = k
        BY <3>3 DEF Built
      <4> HIDE DEF more
      <4>3. t \in Seq(Card) /\ Len(t) = 2 /\ t[1] = chain[1] /\ t[2] = more
        <5> DEFINE T == Card
        <5>1. chain \in Seq(T) /\ more \in T
          BY <4>1, <4>2
        <5> HIDE DEF T
        <5>2. t \in Seq(T) /\ Len(t) = Len(chain) + 1
              /\ (\A p \in 1..Len(chain) : t[p] = chain[p]) /\ t[Len(chain) + 1] = more
          BY <5>1, AppendProperties
        <5> HIDE DEF t
        <5>3. 1 + 1 = 2 /\ 1 \in 1..1
          OBVIOUS
        <5>4. Len(t) = 2 /\ t[1] = chain[1] /\ t[2] = more
          BY <3>4, <5>2, <5>3
        <5> QED
          BY <5>2, <5>4 DEF T
      <4> HIDE DEF t
      <4>4. \A p \in 2..Len(t) : p = 2 /\ p - 1 = 1
        BY <4>3
      <4>5. Built(t, k)
        BY <3>3, <4>1, <4>2, <4>3, <4>4 DEF Built
      <4> QED
        BY <2>1, <2>3, <3>4, <4>5 DEF t
    <3>5. CASE Len(chain) # 1
      BY <2>1, <2>3, <3>3, <3>5
    <3> QED
      BY <3>4, <3>5
  <2> QED
    BY <2>2, <2>3
<1> QED
  BY <1>0, <1>5, <1>6, <1>7, <1>8

\* The card that is there is one of a user's keywords.
LEMMA SpellingIs ==
  ASSUME NEW cs, Sound(cs), NEW k \in Keys
  PROVE  Spelling(cs, k) \in Keys /\ Lookup(Spelling(cs, k)) = Lookup(k)
<1> DEFINE i == At(cs, Lookup(k))
<1>1. cs \in Seq(Card)
  BY DEF Sound
<1>2. ASSUME i # 0 PROVE cs[i].k \in Keys /\ Lookup(cs[i].k) = Lookup(k)
  <2>1. i \in 0..Len(cs) /\ Keyed(cs[i], Lookup(k))
    BY <1>1, <1>2, AtIs
  <2> HIDE DEF i
  <2>2. i \in 1..Len(cs)
    BY <1>1, <1>2, <2>1
  <2>3. cs[i] \in Card
    BY <1>1, <2>2, ElementOfSeq
  <2>4. cs[i].k # Structural
    BY <2>1, StructuralKeyed DEF Keyed
  <2> QED
    BY <2>1, <2>3, <2>4 DEF Keyed, Card
<1> QED
  BY <1>2 DEF Spelling

LEMMA NoteForTyped ==
  ASSUME NEW cs, Sound(cs), NEW k \in Keys, NEW given \in Seq(Bytes)
  PROVE  NoteFor(cs, k, given) \in Bytes
<1> DEFINE i == At(cs, Lookup(k))
<1>1. cs \in Seq(Card) /\ Len(cs) \in Nat
  BY DEF Sound
<1>2. i \in 0..Len(cs)
  BY <1>1, AtIs
<1>3. i # 0 => Read(cs, i).note \in Bytes
  <2> HIDE DEF i
  <2> SUFFICES ASSUME i # 0 PROVE Read(cs, i).note \in Bytes
    OBVIOUS
  <2>1. i \in 1..Len(cs)
    BY <1>1, <1>2
  <2> QED
    BY <1>1, <2>1, ReadTyped
<1>4. given # <<>> => given[1] \in Bytes
  <2> DEFINE B == Bytes
  <2> HIDE DEF B
  <2>1. given \in Seq(B)
    BY DEF B
  <2>2. given # <<>> => 1 \in 1..Len(given)
    BY <2>1
  <2>3. given # <<>> => given[1] \in B
    BY <2>1, <2>2, ElementOfSeq
  <2> QED
    BY <2>3 DEF B
<1>5. <<>> \in Bytes
  BY DEF Bytes
<1> QED
  BY <1>3, <1>4, <1>5 DEF NoteFor

\* apply_setitem
LEMMA SetItemSound ==
  ASSUME NEW cs, Sound(cs), NEW k \in Keys, NEW value \in Value, NEW given \in Seq(Bytes),
         Settable(cs, k, value, given)
  PROVE  Sound(SetItem(cs, k, value, given)) /\ SameRows(cs, SetItem(cs, k, value, given))
<1> DEFINE n == Spelling(cs, k)
           note == NoteFor(cs, k, given)
           new == BuildCards(n, value, note)
<1>1. n \in Keys /\ Lookup(n) = Lookup(k) /\ note \in Bytes
  BY SpellingIs, NoteForTyped
<1>2. Buildable(n, value, note)
  BY DEF Settable
<1>3. SetItem(cs, k, value, given) = SetCards(cs, Lookup(n), new)
  BY <1>1 DEF SetItem
<1> HIDE DEF n, note
<1>4. Built(new, n)
  BY <1>1, <1>2, BuildCardsBuilt
<1> HIDE DEF new
<1> QED
  BY <1>1, <1>3, <1>4, SetCardsSound

-----------------------------------------------------------------------------
(* The calls.  KeepsRows is what each of them does for the structural card. *)

KeepsRows(cs, ds) == Sound(ds) /\ RowsCard(ds) = RowsCard(cs)

LEMMA SetItemKeepsRows ==
  ASSUME NEW cs, Sound(cs), NEW k \in Keys, NEW value \in Value, NEW given \in Seq(Bytes),
         Settable(cs, k, value, given)
  PROVE  KeepsRows(cs, SetItem(cs, k, value, given))
BY SetItemSound, SameRowsOf DEF KeepsRows

LEMMA AddCommentaryKeepsRows ==
  ASSUME NEW cs, Sound(cs), NEW kw \in Commentary, NEW text \in Bytes
  PROVE  KeepsRows(cs, AddCommentary(cs, kw, text))
BY AddCommentarySound, SameRowsOf DEF KeepsRows

\* A single comment, as a call passes it on.
LEMMA OneGiven ==
  ASSUME NEW note \in Bytes
  PROVE  <<note>> \in Seq(Bytes)
<1> DEFINE B == Bytes
<1>1. note \in B
  OBVIOUS
<1> HIDE DEF B
<1>2. <<note>> \in Seq(B)
  BY <1>1
<1> QED
  BY <1>2 DEF B

\* apply_set_comment
LEMMA RecommentedKeepsRows ==
  ASSUME NEW cs, Sound(cs), NEW k \in Keys, NEW note \in Bytes, Commentable(cs, k, note)
  PROVE  KeepsRows(cs, Recommented(cs, k, note))
<1> DEFINE i == At(cs, Lookup(k))
           value == Read(cs, i).value
<1>1. cs \in Seq(Card) /\ Len(cs) \in Nat
  BY DEF Sound
<1>2. i \in 0..Len(cs) /\ i # 0
  BY <1>1, AtIs DEF Commentable
<1>3. Settable(cs, k, value, <<note>>) /\ Recommented(cs, k, note) = SetItem(cs, k, value, <<note>>)
  BY DEF Commentable, Recommented
<1> HIDE DEF i
<1>4. i \in 1..Len(cs)
  BY <1>1, <1>2
<1>5. value \in Value
  BY <1>1, <1>4, ReadTyped
<1> HIDE DEF value
<1> QED
  BY <1>3, <1>5, OneGiven, SetItemKeepsRows

\* __delitem__
LEMMA WithoutKeepsRows ==
  ASSUME NEW cs, Sound(cs), NEW k \in Keys \cup Commentary, Holds(cs, k)
  PROVE  KeepsRows(cs, Without(cs, k))
<1>1. CASE k \in Commentary
  <2>1. Without(cs, k) = DeleteCommentary(cs, k)
    BY <1>1 DEF Without
  <2> QED
    BY <1>1, <2>1, DeleteCommentarySound, SameRowsOf DEF KeepsRows
<1>2. CASE k \notin Commentary
  <2>1. Without(cs, k) = DeleteCards(cs, Lookup(k)) /\ At(cs, Lookup(k)) # 0 /\ k \in Keys
    BY <1>2 DEF Without, Holds
  <2> QED
    BY <2>1, DeleteCardsSound, SameRowsOf DEF KeepsRows
<1> QED
  BY <1>1, <1>2

\* One action of an update().
LEMMA AppliedKeepsRows ==
  ASSUME NEW cs, Sound(cs), NEW a \in Action, Applicable(cs, a)
  PROVE  KeepsRows(cs, Applied(cs, a))
<1>1. CASE a.op = "set"
  <2>1. a.k \in Keys /\ a.value \in Value /\ a.given \in Seq(Bytes)
    <3> DEFINE G == Seq(Bytes)
    <3>1. a \in [op : {"set"}, k : Keys, value : Value, given : G]
               \cup [op : {"commentary"}, k : Commentary, text : Bytes]
      BY DEF Action
    <3> HIDE DEF G
    <3>2. a.k \in Keys /\ a.value \in Value /\ a.given \in G
      BY <1>1, <3>1
    <3> QED
      BY <3>2 DEF G
  <2>2. Settable(cs, a.k, a.value, a.given) /\ Applied(cs, a) = SetItem(cs, a.k, a.value, a.given)
    BY <1>1 DEF Applicable, Applied
  <2> QED
    BY <2>1, <2>2, SetItemKeepsRows
<1>2. CASE a.op # "set"
  <2>1. a.k \in Commentary /\ a.text \in Bytes
    <3> DEFINE G == Seq(Bytes)
    <3>1. a \in [op : {"set"}, k : Keys, value : Value, given : G]
               \cup [op : {"commentary"}, k : Commentary, text : Bytes]
      BY DEF Action
    <3> HIDE DEF G
    <3> QED
      BY <1>2, <3>1
  <2>2. Applied(cs, a) = AddCommentary(cs, a.k, a.text)
    BY <1>2 DEF Applied
  <2> QED
    BY <2>1, <2>2, AddCommentaryKeepsRows
<1> QED
  BY <1>1, <1>2

LEMMA KeepsRowsFurther ==
  ASSUME NEW cs, NEW ds, NEW es, KeepsRows(cs, ds), KeepsRows(ds, es)
  PROVE  KeepsRows(cs, es)
BY DEF KeepsRows

\* update(), whole or up to the action that raises.
LEMMA AfterActionsKeepsRows ==
  ASSUME NEW cs, Sound(cs), NEW actions \in Seq(Action)
  PROVE  KeepsRows(cs, AfterActions(cs, actions).cards)
<1> DEFINE N == Len(actions)
           D == 0..N
           more(ds, n) == IF Applicable(ds, actions[n]) THEN Applied(ds, actions[n]) ELSE ds
           after == CHOOSE after : after = [n \in 0..Len(actions) |->
                      IF n = 0 THEN cs
                      ELSE IF Applicable(after[n - 1], actions[n]) THEN Applied(after[n - 1], actions[n])
                      ELSE after[n - 1]]
           T == {n \in 0..Len(actions) : \A m \in 1..n : Applicable(after[m - 1], actions[m])}
<1>0. AfterActions(cs, actions).cards = after[Largest(T)]
  BY DEF AfterActions
<1>1. N \in Nat /\ \A n \in 1..N : actions[n] \in Action
  <2> DEFINE A == Action
  <2>1. actions \in Seq(A)
    OBVIOUS
  <2> HIDE DEF A
  <2>2. N \in Nat /\ \A n \in 1..N : actions[n] \in A
    BY <2>1, ElementOfSeq
  <2> QED
    BY <2>2 DEF A
<1>2. after = CHOOSE f : f = [n \in D |-> IF n = 0 THEN cs ELSE more(f[n - 1], n)]
  OBVIOUS
<1>3. Largest(T) \in D
  <2>1. T \subseteq 0..N
    OBVIOUS
  <2>2. 0 \in T
    BY <1>1
  <2> HIDE DEF T, N
  <2> QED
    BY <1>1, <2>1, <2>2, LargestIs
<1>4. \A ds : \A n \in 1..N : KeepsRows(cs, ds) => KeepsRows(cs, more(ds, n))
  <2> SUFFICES ASSUME NEW ds, NEW n \in 1..N, KeepsRows(cs, ds) PROVE KeepsRows(cs, more(ds, n))
    OBVIOUS
  <2>1. Sound(ds) /\ actions[n] \in Action
    BY <1>1 DEF KeepsRows
  <2>2. Applicable(ds, actions[n]) => KeepsRows(cs, Applied(ds, actions[n]))
    BY <2>1, AppliedKeepsRows, KeepsRowsFurther
  <2> QED
    BY <2>2
<1> HIDE DEF after, T, more, N
<1> DEFINE R == {ds \in Seq(Card) : KeepsRows(cs, ds)}
           measure == [n \in D |-> n]
           step == [p \in D \X [D -> R] |-> IF p[1] = 0 THEN cs ELSE more(p[2][p[1] - 1], p[1])]
<1>5. cs \in R
  BY DEF KeepsRows, Sound
<1>6. \A ds \in R : \A n \in 1..N : more(ds, n) \in R
  BY <1>4 DEF KeepsRows, Sound
<1>7. measure \in [D -> Nat] /\ \A n \in D : measure[n] = n
  BY <1>1
<1>8. \A n \in D : n # 0 => n \in 1..N /\ n - 1 \in D /\ measure[n - 1] < measure[n]
  <2> SUFFICES ASSUME NEW n \in D, n # 0 PROVE n \in 1..N /\ n - 1 \in D /\ measure[n - 1] < measure[n]
    OBVIOUS
  <2>1. n \in 1..N /\ n - 1 \in D /\ n - 1 < n
    BY <1>1
  <2>2. measure[n - 1] = n - 1 /\ measure[n] = n
    BY <2>1, <1>7
  <2> HIDE DEF measure
  <2> QED
    BY <2>1, <2>2
<1>9. R # {}
  BY <1>5
<1> HIDE DEF R, D, measure
<1>10. \A n \in D : \A g \in [D -> R] : step[<<n, g>>] = IF n = 0 THEN cs ELSE more(g[n - 1], n)
  OBVIOUS
<1>11. IsRecursion(D, R, measure, step)
  <2>1. step \in [D \X [D -> R] -> R]
    <3>1. \A n \in D : \A g \in [D -> R] : (IF n = 0 THEN cs ELSE more(g[n - 1], n)) \in R
      BY <1>5, <1>6, <1>8
    <3> QED
      BY <3>1
  <2>2. ASSUME NEW x \in D, NEW g \in [D -> R], NEW h \in [D -> R],
               \A y \in D : measure[y] < measure[x] => g[y] = h[y]
        PROVE  step[<<x, g>>] = step[<<x, h>>]
    <3>1. x # 0 => g[x - 1] = h[x - 1]
      BY <2>2, <1>8
    <3> HIDE DEF step
    <3>2. /\ step[<<x, g>>] = IF x = 0 THEN cs ELSE more(g[x - 1], x)
          /\ step[<<x, h>>] = IF x = 0 THEN cs ELSE more(h[x - 1], x)
      BY <1>10
    <3> QED
      BY <3>1, <3>2, Zenon
  <2> HIDE DEF step
  <2> QED
    BY <2>1, <2>2, <1>7, <1>9 DEF IsRecursion
<1> HIDE DEF step
<1>12. PICK f \in [D -> R] : \A x \in D : f[x] = step[<<x, f>>]
  BY <1>11, RecursionExists
<1>13. f = [n \in D |-> IF n = 0 THEN cs ELSE more(f[n - 1], n)]
  <2>1. \A x \in D : f[x] = IF x = 0 THEN cs ELSE more(f[x - 1], x)
    BY <1>10, <1>12
  <2> QED
    BY <2>1
<1>14. after = [n \in D |-> IF n = 0 THEN cs ELSE more(after[n - 1], n)]
  <2> DEFINE f2 == CHOOSE f1 : f1 = [n \in D |-> IF n = 0 THEN cs ELSE more(f1[n - 1], n)]
  <2>1. f2 = [n \in D |-> IF n = 0 THEN cs ELSE more(f2[n - 1], n)]
    BY <1>13
  <2>2. after = f2
    BY <1>2 DEF D
  <2> HIDE DEF f2
  <2> QED
    BY <2>1, <2>2
<1>15. \A n \in D : after[n] = IF n = 0 THEN cs ELSE more(after[n - 1], n)
  BY <1>14
<1> DEFINE S == {n \in D : after[n] \in R}
<1>16. \A n \in D : n \in S
  <2>1. ASSUME NEW n \in D, \A y \in D : measure[y] < measure[n] => y \in S PROVE n \in S
    <3>1. CASE n = 0
      BY <3>1, <1>5, <1>15
    <3>2. CASE n # 0
      <4>1. n \in 1..N /\ n - 1 \in S
        BY <2>1, <3>2, <1>8
      <4>2. after[n] = more(after[n - 1], n)
        BY <3>2, <1>15
      <4> QED
        BY <4>1, <4>2, <1>6
    <3> QED
      BY <3>1, <3>2
  <2> HIDE DEF S
  <2> QED
    BY <2>1, <1>7, MeasureInduction
<1>17. after[Largest(T)] \in R
  BY <1>3, <1>16
<1> QED
  BY <1>0, <1>17 DEF R

-----------------------------------------------------------------------------
(* The invariant.                                                          *)

\* The structural card of a list holds a number.
Counted(cs) == Sound(cs) /\ ~ RowsCard(cs).quoted

EditTyped ==
  edit # NoEdit =>
    /\ edit \in [cards : Seq(Card), calls : Nat, entered : BOOLEAN, committed : BOOLEAN]
    /\ Counted(edit.cards)

\* What is cached as the current metadata is what the cards say; a reader
\* under way will store what it stores under a version that is not ahead.
CacheCurrent ==
  /\ meta # NoMeta => meta.version \in 0..version
  /\ meta # NoMeta /\ meta.version = version => meta.rows = RowsOf(cards)
  /\ reader # NoReader => reader[1] \in 0..version

CardsInv ==
  /\ Counted(cards)
  /\ version \in 0..MaxVersion
  /\ CacheCurrent
  /\ EditTyped
  /\ rows \in 0..MaxRows
  /\ tainted \in BOOLEAN

\* The cards say what the data hold, and so does a copy that is yet to be
\* committed.
RowsInv ==
  ~ tainted =>
    /\ RowsOf(cards) = rows
    /\ edit # NoEdit => edit.committed \/ RowsOf(edit.cards) = rows

LEMMA KeepsRowsCounted ==
  ASSUME NEW cs, Counted(cs), NEW ds, KeepsRows(cs, ds)
  PROVE  Counted(ds) /\ RowsOf(ds) = RowsOf(cs)
BY DEF Counted, KeepsRows, RowsOf, RowsCard

\* What an append commits: the structural card is not quoted, so no chain
\* goes on behind it and its text may be replaced.
LEMMA AppendedCounted ==
  ASSUME NEW cs, Counted(cs), NEW n \in Nat
  PROVE  LET ds == [cs EXCEPT ![At(cs, Structural)].text = Number(n)]
         IN Counted(ds) /\ RowsOf(ds) = n
<1> DEFINE L == Len(cs)
           s == At(cs, Structural)
           card == [cs[s] EXCEPT !.text = Number(n)]
           ds == [cs EXCEPT ![s] = card]
<1>0. ds = [cs EXCEPT ![At(cs, Structural)].text = Number(n)]
  OBVIOUS
<1>1. cs \in Seq(Card) /\ L \in Nat /\ L > 0 /\ Sound(cs) /\ DOMAIN cs = 1..L
  BY DEF Counted, Sound
<1>2. s \in 1..L /\ cs[s].k = Structural /\ ~ cs[s].quoted
  <2>1. PICK t \in 1..L : cs[t].k = Structural
    BY <1>1 DEF Sound
  <2>2. s = t
    BY <1>1, <2>1, StructuralAt
  <2> HIDE DEF s
  <2> QED
    BY <2>1, <2>2 DEF Counted, RowsCard, s
<1>3. cs[s] \in Card
  BY <1>1, <1>2, ElementOfSeq
<1> HIDE DEF s
<1>4. card \in Card /\ card.k = Structural /\ ~ card.quoted /\ card.text[1] = 10 + n
  <2>1. Number(n) \in Bytes /\ Number(n)[1] = 10 + n
    BY DEF Number, Bytes
  <2> HIDE DEF Number
  <2> QED
    BY <1>2, <1>3, <2>1 DEF Card
<1> HIDE DEF card
<1>5. ds \in Seq(Card) /\ Len(ds) = L /\ ds[s] = card /\ \A i \in 1..L : i # s => ds[i] = cs[i]
  <2> DEFINE C == Card
  <2>1. cs \in Seq(C) /\ card \in C
    BY <1>1, <1>4
  <2> HIDE DEF C, L
  <2>2. cs \in [1..L -> C]
    <3>1. \A i \in 1..L : cs[i] \in C
      BY <2>1, ElementOfSeq DEF L
    <3>2. cs \in [1..Len(cs) -> C]
      BY <2>1
    <3> QED
      BY <3>2 DEF L
  <2>3. ds \in [1..L -> C] /\ ds[s] = card /\ \A i \in 1..L : i # s => ds[i] = cs[i]
    BY <1>2, <2>1, <2>2
  <2> HIDE DEF ds
  <2>4. ds \in Seq(C) /\ Len(ds) = L
    BY <1>1, <2>3
  <2> QED
    BY <2>3, <2>4 DEF C
<1> HIDE DEF ds, L
<1>6. \A i \in 1..L : ds[i].k = cs[i].k /\ ds[i].quoted = cs[i].quoted
  <2>1. card.quoted = cs[s].quoted
    BY <1>3 DEF card, Card
  <2>2. ASSUME NEW i \in 1..L PROVE ds[i].k = cs[i].k /\ ds[i].quoted = cs[i].quoted
    <3>1. CASE i = s
      BY <3>1, <2>1, <1>2, <1>4, <1>5, Zenon
    <3>2. CASE i # s
      BY <3>2, <1>5, Zenon
    <3> QED
      BY <3>1, <3>2
  <2> QED
    BY <2>2
<1>7. Sound(ds)
  <2> USE DEF L
  <2>1. OneEnd(ds)
    <3>1. cs[L].k = "END" /\ \A i \in 1..L : cs[i].k = "END" => i = L
      BY <1>1 DEF Sound, OneEnd
    <3>2. L \in 1..L
      BY <1>1
    <3> QED
      BY <1>5, <1>6, <3>1, <3>2, Zenon DEF OneEnd
  <2>2. NoDouble(ds)
    <3>1. \A i, j \in 1..L : cs[i].k \notin Unkeyed /\ cs[j].k \notin Unkeyed /\ i # j => Lookup(cs[i].k) # Lookup(cs[j].k)
      BY <1>1 DEF Sound, NoDouble
    <3> QED
      BY <1>5, <1>6, <3>1 DEF NoDouble
  <2>3. Chained(ds)
    <3> SUFFICES ASSUME NEW i \in 1..L, ds[i].k = "CONTINUE" PROVE i > 1 /\ Links(ds[i - 1])
      BY <1>5 DEF Chained
    <3>1. cs[i].k = "CONTINUE"
      BY <1>6
    <3>2. i > 1 /\ Links(cs[i - 1])
      BY <1>1, <3>1 DEF Sound, Chained
    <3>3. i - 1 \in 1..L
      BY <3>2, <1>1
    <3>4. i - 1 # s
      BY <3>2, <1>2 DEF Links
    <3>5. ds[i - 1] = cs[i - 1]
      BY <3>3, <3>4, <1>5
    <3> QED
      BY <3>2, <3>5
  <2>4. TextPlain(ds)
    BY <1>1, <1>5, <1>6 DEF Sound, TextPlain
  <2>5. \E t \in 1..L : ds[t].k = Structural
    BY <1>2, <1>6
  <2> QED
    BY <2>1, <2>2, <2>3, <2>4, <2>5, <1>1, <1>5 DEF Sound
<1>8. At(ds, Structural) = s
  <2>1. s \in 1..Len(ds) /\ ds[s].k = Structural
    BY <1>2, <1>5, <1>6
  <2> QED
    BY <1>7, <2>1, StructuralAt
<1>9. RowsOf(ds) = n
  <2>1. RowsOf(ds) = card.text[1] - 10
    BY <1>5, <1>8 DEF RowsOf
  <2> QED
    BY <2>1, <1>4
<1>10. Counted(ds)
  BY <1>4, <1>5, <1>7, <1>8 DEF Counted, RowsCard
<1> QED
  BY <1>0, <1>9, <1>10

\* A step that leaves the cache, and the cards and the version, or replaces
\* the cards under the next version.
LEMMA CacheKept ==
  ASSUME CardsInv, meta' = meta, reader' = reader,
         \/ cards' = cards /\ version' = version
         \/ version < MaxVersion /\ version' = version + 1
  PROVE  version' \in 0..MaxVersion /\ CacheCurrent'
<1>1. version \in 0..MaxVersion /\ MaxVersion \in Nat
  BY CallsAssumption DEF CardsInv
<1>2. CASE cards' = cards /\ version' = version
  BY <1>1, <1>2 DEF CardsInv, CacheCurrent
<1>3. CASE version < MaxVersion /\ version' = version + 1
  <2>1. version' \in 0..MaxVersion /\ \A v \in 0..version : v \in 0..version' /\ v # version'
    BY <1>1, <1>3
  <2> QED
    BY <2>1 DEF CardsInv, CacheCurrent
<1> QED
  BY <1>2, <1>3

\* A call on the live header.
LEMMA MutateKeeps ==
  ASSUME CardsInv, NEW new, KeepsRows(cards, new), Mutate(new)
  PROVE  CardsInv' /\ (RowsInv => RowsInv')
<1>0. UNCHANGED <<meta, reader, edit, rows>> /\ Rewrite(new)
  BY DEF Mutate
<1>1. Counted(new) /\ RowsOf(new) = RowsOf(cards)
  BY KeepsRowsCounted DEF CardsInv
<1>2. CASE version < MaxVersion /\ cards' = new /\ version' = version + 1 /\ UNCHANGED tainted
  <2>1. version' \in 0..MaxVersion /\ CacheCurrent'
    BY <1>0, <1>2, CacheKept
  <2>2. CardsInv'
    BY <1>0, <1>1, <1>2, <2>1 DEF CardsInv, EditTyped
  <2> QED
    BY <1>0, <1>1, <1>2, <2>2 DEF RowsInv
<1>3. CASE tainted' = TRUE /\ UNCHANGED <<cards, version>>
  <2>1. version' \in 0..MaxVersion /\ CacheCurrent'
    BY <1>0, <1>3, CacheKept
  <2> QED
    BY <1>0, <1>3, <2>1 DEF CardsInv, EditTyped, RowsInv
<1>4. CASE UNCHANGED <<cards, version, tainted>>
  <2>1. version' \in 0..MaxVersion /\ CacheCurrent'
    BY <1>0, <1>4, CacheKept
  <2> QED
    BY <1>0, <1>4, <2>1 DEF CardsInv, EditTyped, RowsInv
<1> QED
  BY <1>0, <1>2, <1>3, <1>4 DEF Rewrite

\* A call on the staged cards.
LEMMA StageKeeps ==
  ASSUME CardsInv, NEW new, Active, KeepsRows(edit.cards, new), Stage(new)
  PROVE  CardsInv' /\ (RowsInv => RowsInv')
<1>0. UNCHANGED <<cards, version, meta, reader, rows, tainted>>
      /\ edit' = [edit EXCEPT !.cards = new, !.calls = @ + 1]
  BY DEF Stage
<1>1. /\ edit \in [cards : Seq(Card), calls : Nat, entered : BOOLEAN, committed : BOOLEAN]
      /\ Counted(edit.cards) /\ edit # NoEdit
  BY DEF CardsInv, EditTyped, Active
<1>2. Counted(new) /\ RowsOf(new) = RowsOf(edit.cards) /\ new \in Seq(Card)
  BY <1>1, KeepsRowsCounted DEF Counted, Sound
<1>3. /\ edit' \in [cards : Seq(Card), calls : Nat, entered : BOOLEAN, committed : BOOLEAN]
      /\ edit'.cards = new /\ edit'.committed = edit.committed
  <2> DEFINE C == Seq(Card)
  <2>1. edit \in [cards : C, calls : Nat, entered : BOOLEAN, committed : BOOLEAN] /\ new \in C
    BY <1>1, <1>2
  <2> HIDE DEF C
  <2>2. /\ edit' \in [cards : C, calls : Nat, entered : BOOLEAN, committed : BOOLEAN]
        /\ edit'.cards = new /\ edit'.committed = edit.committed
    <3>1. /\ edit.calls \in Nat /\ edit.calls + 1 \in Nat
          /\ edit.entered \in BOOLEAN /\ edit.committed \in BOOLEAN
      BY <2>1
    <3>2. edit' = [cards |-> new, calls |-> edit.calls + 1,
                   entered |-> edit.entered, committed |-> edit.committed]
      BY <1>0, <2>1
    <3> QED
      BY <2>1, <3>1, <3>2
  <2> QED
    BY <2>2 DEF C
<1>4. CacheCurrent'
  BY <1>0 DEF CardsInv, CacheCurrent
<1>5. CardsInv'
  BY <1>0, <1>2, <1>3, <1>4 DEF CardsInv, EditTyped
<1>6. ASSUME RowsInv PROVE RowsInv'
  BY <1>0, <1>1, <1>2, <1>3, <1>6 DEF RowsInv
<1> QED
  BY <1>5, <1>6

LEMMA CardsInit ==
  ASSUME Init
  PROVE  CardsInv /\ RowsInv
<1>1. Counted(FirstCards)
  BY FirstCardsAssumption, SoundIsWellFormed DEF Counted, RowsCard
<1>2. 0 \in 0..MaxVersion
  BY CallsAssumption
<1>3. CacheCurrent /\ EditTyped
  BY DEF Init, CacheCurrent, EditTyped
<1> QED
  BY <1>1, <1>2, <1>3, FirstCardsAssumption DEF Init, CardsInv, RowsInv, NoEdit

\* Every step keeps the types; with nobody appending while an edit() is open
\* it also keeps the cards and the data together.
LEMMA CardsNext ==
  ASSUME CardsInv, [Next]_vars
  PROVE  CardsInv' /\ (Disciplined /\ RowsInv => RowsInv')
<1>0. Counted(cards) /\ Sound(cards)
  BY DEF CardsInv, Counted
<1>00. Active => Counted(edit.cards) /\ Sound(edit.cards)
  BY DEF CardsInv, EditTyped, Active, Counted
<1>1. CASE \E k \in Keys, v \in Values, g \in Given : SetKey(k, v, g) \/ StageSetKey(k, v, g)
  <2>1. PICK k \in Keys, v \in Values, g \in Given : SetKey(k, v, g) \/ StageSetKey(k, v, g)
    BY <1>1
  <2>2. v \in Value
    BY CallsAssumption
  <2>3. g \in Seq(Bytes)
    <3>1. g = <<>> \/ \E n \in Bytes : g = <<n>>
      BY CallsAssumption DEF Given
    <3>2. <<>> \in Seq(Bytes)
      BY EmptySeq
    <3> QED
      BY <3>1, <3>2, OneGiven
  <2>4. CASE SetKey(k, v, g)
    <3>1. Settable(cards, k, v, g) /\ Mutate(SetItem(cards, k, v, g))
      BY <2>4 DEF SetKey
    <3> QED
      BY <1>0, <2>2, <2>3, <3>1, SetItemKeepsRows, MutateKeeps
  <2>5. CASE StageSetKey(k, v, g)
    <3>1. Active /\ Settable(edit.cards, k, v, g) /\ Stage(SetItem(edit.cards, k, v, g))
      BY <2>5 DEF StageSetKey
    <3> QED
      BY <1>00, <2>2, <2>3, <3>1, SetItemKeepsRows, StageKeeps
  <2> QED
    BY <2>1, <2>4, <2>5
<1>2. CASE \E k \in Keys, n \in Notes : SetComment(k, n) \/ StageSetComment(k, n)
  <2>1. PICK k \in Keys, n \in Notes : SetComment(k, n) \/ StageSetComment(k, n)
    BY <1>2
  <2>2. n \in Bytes
    BY CallsAssumption
  <2>3. CASE SetComment(k, n)
    <3>1. Commentable(cards, k, n) /\ Mutate(Recommented(cards, k, n))
      BY <2>3 DEF SetComment
    <3> QED
      BY <1>0, <2>2, <3>1, RecommentedKeepsRows, MutateKeeps
  <2>4. CASE StageSetComment(k, n)
    <3>1. Active /\ Commentable(edit.cards, k, n) /\ Stage(Recommented(edit.cards, k, n))
      BY <2>4 DEF StageSetComment
    <3> QED
      BY <1>00, <2>2, <3>1, RecommentedKeepsRows, StageKeeps
  <2> QED
    BY <2>1, <2>3, <2>4
<1>3. CASE \E k \in Keys \cup Commentary : DelItem(k) \/ StageDelItem(k)
  <2>1. PICK k \in Keys \cup Commentary : DelItem(k) \/ StageDelItem(k)
    BY <1>3
  <2>2. CASE DelItem(k)
    <3>1. Holds(cards, k) /\ Mutate(Without(cards, k))
      BY <2>2 DEF DelItem
    <3> QED
      BY <1>0, <3>1, WithoutKeepsRows, MutateKeeps
  <2>3. CASE StageDelItem(k)
    <3>1. Active /\ Holds(edit.cards, k) /\ Stage(Without(edit.cards, k))
      BY <2>3 DEF StageDelItem
    <3> QED
      BY <1>00, <3>1, WithoutKeepsRows, StageKeeps
  <2> QED
    BY <2>1, <2>2, <2>3
<1>4. CASE \E kw \in Commentary, t \in Texts : AddText(kw, t) \/ StageAddText(kw, t)
  <2>1. PICK kw \in Commentary, t \in Texts : AddText(kw, t) \/ StageAddText(kw, t)
    BY <1>4
  <2>2. t \in Bytes
    BY CallsAssumption
  <2>3. CASE AddText(kw, t)
    <3>1. Mutate(AddCommentary(cards, kw, t))
      BY <2>3 DEF AddText
    <3> QED
      BY <1>0, <2>2, <3>1, AddCommentaryKeepsRows, MutateKeeps
  <2>4. CASE StageAddText(kw, t)
    <3>1. Active /\ Stage(AddCommentary(edit.cards, kw, t))
      BY <2>4 DEF StageAddText
    <3> QED
      BY <1>00, <2>2, <3>1, AddCommentaryKeepsRows, StageKeeps
  <2> QED
    BY <2>1, <2>3, <2>4
<1>5. CASE \E u \in Updates : Update(u) \/ StageUpdate(u)
  <2>1. PICK u \in Updates : Update(u) \/ StageUpdate(u)
    BY <1>5
  <2>2. u \in Seq(Action)
    BY CallsAssumption
  <2>3. CASE Update(u)
    <3>1. Mutate(AfterActions(cards, u).cards)
      BY <2>3 DEF Update
    <3> QED
      BY <1>0, <2>2, <3>1, AfterActionsKeepsRows, MutateKeeps
  <2>4. CASE StageUpdate(u)
    <3>1. Active /\ Stage(AfterActions(edit.cards, u).cards)
      BY <2>4 DEF StageUpdate
    <3> QED
      BY <1>00, <2>2, <3>1, AfterActionsKeepsRows, StageKeeps
  <2> QED
    BY <2>1, <2>3, <2>4
<1> DEFINE EditRecord == [cards : Seq(Card), calls : Nat, entered : BOOLEAN, committed : BOOLEAN]
           CardLists == Seq(Card)
<1>20. CacheCurrent
  BY DEF CardsInv
<1>6. CASE OpenEdit
  <2>1. /\ edit' = [cards |-> cards, calls |-> 0, entered |-> FALSE, committed |-> FALSE]
        /\ UNCHANGED <<cards, version, meta, reader, rows, tainted>>
    BY <1>6 DEF OpenEdit
  <2>2. cards \in CardLists
    BY <1>0 DEF Sound
  <2> HIDE DEF CardLists
  <2>3. edit' \in [cards : CardLists, calls : Nat, entered : BOOLEAN, committed : BOOLEAN]
        /\ edit'.cards = cards
    BY <2>1, <2>2
  <2>4. CacheCurrent'
    BY <2>1, <1>20 DEF CacheCurrent
  <2>5. CardsInv'
    BY <2>1, <2>3, <2>4, <1>0 DEF CardsInv, EditTyped, CardLists
  <2>6. RowsInv => RowsInv'
    BY <2>1, <2>3 DEF RowsInv
  <2> QED
    BY <2>5, <2>6
\* A step that only enters or leaves the block.
<1>7. ASSUME NEW b \in BOOLEAN, edit # NoEdit, edit' = [edit EXCEPT !.entered = b],
             UNCHANGED <<cards, version, meta, reader, rows, tainted>>
      PROVE  CardsInv' /\ (RowsInv => RowsInv')
  <2>1. edit \in [cards : CardLists, calls : Nat, entered : BOOLEAN, committed : BOOLEAN]
        /\ Counted(edit.cards)
    BY <1>7 DEF CardsInv, EditTyped
  <2> HIDE DEF CardLists
  <2>2. /\ edit' \in [cards : CardLists, calls : Nat, entered : BOOLEAN, committed : BOOLEAN]
        /\ edit'.cards = edit.cards /\ edit'.committed = edit.committed
    BY <1>7, <2>1
  <2>3. CacheCurrent'
    BY <1>7, <1>20 DEF CacheCurrent
  <2>4. CardsInv'
    BY <1>7, <2>1, <2>2, <2>3, <1>0 DEF CardsInv, EditTyped, CardLists
  <2>5. RowsInv => RowsInv'
    BY <1>7, <2>2 DEF RowsInv
  <2> QED
    BY <2>4, <2>5
<1>8. CASE Enter
  BY <1>7, <1>8 DEF Enter
<1>9. CASE ExitRaised
  BY <1>7, <1>9 DEF ExitRaised
<1>10. CASE ExitClean
  <2>1. /\ Active /\ edit # NoEdit /\ ~ edit.committed
        /\ (~ tainted /\ Rewrite(edit.cards)) \/ (tainted /\ UNCHANGED <<cards, version, tainted>>)
        /\ edit' = [edit EXCEPT !.entered = FALSE, !.committed = (version' # version)]
        /\ UNCHANGED <<meta, reader, rows>>
    BY <1>10 DEF ExitClean, Active
  <2>2. edit \in [cards : CardLists, calls : Nat, entered : BOOLEAN, committed : BOOLEAN]
        /\ Counted(edit.cards)
    BY <2>1 DEF CardsInv, EditTyped
  <2>3. /\ edit' \in [cards : CardLists, calls : Nat, entered : BOOLEAN, committed : BOOLEAN]
        /\ edit'.cards = edit.cards /\ edit'.committed = (version' # version)
    <3> HIDE DEF CardLists
    <3> DEFINE b == (version' # version)
    <3>1. b \in BOOLEAN
      OBVIOUS
    <3>2. edit' = [edit EXCEPT !.entered = FALSE, !.committed = b]
      BY <2>1
    <3> HIDE DEF b
    <3>3. /\ edit' \in [cards : CardLists, calls : Nat, entered : BOOLEAN, committed : BOOLEAN]
          /\ edit'.cards = edit.cards /\ edit'.committed = b
      BY <3>1, <3>2, <2>2
    <3> QED
      BY <3>3 DEF b
  <2>4. EditTyped'
    BY <2>2, <2>3 DEF EditTyped, CardLists
  <2>5. CASE ~ tainted /\ version < MaxVersion /\ cards' = edit.cards /\ version' = version + 1 /\ UNCHANGED tainted
    <3>1. version' \in 0..MaxVersion /\ CacheCurrent'
      BY <2>1, <2>5, CacheKept
    <3>2. CardsInv'
      BY <2>1, <2>2, <2>4, <2>5, <3>1 DEF CardsInv
    <3>3. version' # version
      <4>1. version \in Nat
        BY CallsAssumption DEF CardsInv
      <4> QED
        BY <4>1, <2>5
    <3>4. RowsInv => RowsInv'
      BY <2>1, <2>3, <2>5, <3>3 DEF RowsInv
    <3> QED
      BY <3>2, <3>4
  <2>6. CASE tainted' = TRUE /\ UNCHANGED <<cards, version>>
    <3>1. version' \in 0..MaxVersion /\ CacheCurrent'
      BY <2>1, <2>6, CacheKept
    <3>2. CardsInv'
      BY <2>1, <2>4, <2>6, <3>1 DEF CardsInv
    <3> QED
      BY <2>6, <3>2 DEF RowsInv
  <2>7. CASE UNCHANGED <<cards, version, tainted>>
    <3>1. version' \in 0..MaxVersion /\ CacheCurrent'
      BY <2>1, <2>7, CacheKept
    <3>2. CardsInv'
      BY <2>1, <2>4, <2>7, <3>1 DEF CardsInv
    <3>3. RowsInv => RowsInv'
      BY <2>1, <2>3, <2>7 DEF RowsInv
    <3> QED
      BY <3>2, <3>3
  <2> QED
    BY <2>1, <2>5, <2>6, <2>7 DEF Rewrite
<1>11. CASE AppendRows
  <2> DEFINE new == [cards EXCEPT ![At(cards, Structural)].text = Number(rows + 1)]
  <2>1. /\ ~ tainted /\ rows < MaxRows
        /\ (Disciplined /\ edit # NoEdit => edit.committed)
        /\ Rewrite(new) /\ rows' = (IF version' = version THEN rows ELSE rows + 1)
        /\ UNCHANGED <<meta, reader, edit>>
    BY <1>11 DEF AppendRows
  <2>2. rows \in Nat /\ rows + 1 \in Nat /\ rows' \in 0..MaxRows
    <3>1. rows \in 0..MaxRows /\ MaxRows \in Nat
      BY CallsAssumption DEF CardsInv
    <3> QED
      BY <3>1, <2>1
  <2>3. Counted(new) /\ RowsOf(new) = rows + 1
    BY <1>0, <2>2, AppendedCounted
  <2> HIDE DEF new
  <2>4. EditTyped'
    BY <2>1 DEF CardsInv, EditTyped
  <2>5. CASE version < MaxVersion /\ cards' = new /\ version' = version + 1 /\ UNCHANGED tainted
    <3>1. version' \in 0..MaxVersion /\ CacheCurrent'
      BY <2>1, <2>5, CacheKept
    <3>2. CardsInv'
      BY <2>1, <2>2, <2>3, <2>4, <2>5, <3>1 DEF CardsInv
    <3>3. version' # version
      <4>1. version \in Nat
        BY CallsAssumption DEF CardsInv
      <4> QED
        BY <4>1, <2>5
    <3>4. Disciplined => RowsInv'
      BY <2>1, <2>3, <2>5, <3>3 DEF RowsInv
    <3> QED
      BY <3>2, <3>4
  <2>6. CASE tainted' = TRUE /\ UNCHANGED <<cards, version>>
    <3>1. version' \in 0..MaxVersion /\ CacheCurrent'
      BY <2>1, <2>6, CacheKept
    <3>2. CardsInv'
      BY <2>2, <2>4, <2>6, <3>1 DEF CardsInv
    <3> QED
      BY <2>6, <3>2 DEF RowsInv
  <2>7. CASE UNCHANGED <<cards, version, tainted>>
    <3>1. version' \in 0..MaxVersion /\ CacheCurrent'
      BY <2>1, <2>7, CacheKept
    <3>2. CardsInv'
      BY <2>1, <2>2, <2>4, <2>7, <3>1 DEF CardsInv
    <3>3. RowsInv => RowsInv'
      BY <2>1, <2>7 DEF RowsInv
    <3> QED
      BY <3>2, <3>3
  <2> QED
    BY <2>1, <2>5, <2>6, <2>7 DEF Rewrite
<1>12. CASE MetaLoad
  <2>1. reader' = <<version>> /\ UNCHANGED <<cards, version, meta, edit, rows, tainted>>
    BY <1>12 DEF MetaLoad
  <2>2. version \in 0..version
    BY CallsAssumption DEF CardsInv
  <2>3. CacheCurrent'
    BY <2>1, <2>2, <1>20 DEF CacheCurrent
  <2> QED
    BY <2>1, <2>3 DEF CardsInv, EditTyped, RowsInv
<1>13. CASE MetaStore
  <2>1. /\ reader # NoReader
        /\ meta' = IF tainted THEN meta ELSE [version |-> reader[1], rows |-> RowsOf(cards)]
        /\ reader' = NoReader
        /\ UNCHANGED <<cards, version, edit, rows, tainted>>
    BY <1>13 DEF MetaStore
  <2>2. CacheCurrent'
    BY <2>1, <1>20 DEF CacheCurrent
  <2> QED
    BY <2>1, <2>2 DEF CardsInv, EditTyped, RowsInv
<1>14. CASE UNCHANGED vars
  <2>1. CacheCurrent'
    BY <1>14, <1>20 DEF CacheCurrent, vars
  <2> QED
    BY <1>14, <2>1 DEF CardsInv, EditTyped, RowsInv, vars
<1> QED
  BY <1>1, <1>2, <1>3, <1>4, <1>5, <1>6, <1>8, <1>9, <1>10, <1>11, <1>12, <1>13, <1>14 DEF Next

LEMMA CardsInvTypes ==
  ASSUME CardsInv
  PROVE  TypeOK
<1>1. WellFormed(cards) /\ (edit # NoEdit => WellFormed(edit.cards))
  BY SoundIsWellFormed DEF CardsInv, EditTyped, Counted
<1> QED
  BY <1>1 DEF CardsInv, CacheCurrent, TypeOK

\* Whatever users do with the header, live or staged, in whatever order and
\* with whatever writes failing, splice, drain and insert (header.rs:749)
\* leave card lists in order, and no reader stores metadata of a later version
\* than the cards have.
THEOREM HeaderTypeCorrect == Spec => []TypeOK
<1>1. Init => CardsInv
  BY CardsInit
<1>2. CardsInv /\ [Next]_vars => CardsInv'
  BY CardsNext
<1>3. CardsInv => TypeOK
  BY CardsInvTypes
<1> QED
  BY <1>1, <1>2, <1>3, PTL DEF Spec

\* With nobody appending while an edit() is open, the structural card of a
\* sound handle says what the data hold, and so does what meta() would return
\* from its cache (hdu_table/hdu.rs:163).
THEOREM HeaderAgrees ==
  ASSUME Disciplined
  PROVE  Spec => []HeaderDescribesData
<1> DEFINE I == CardsInv /\ RowsInv
<1>1. Init => I
  BY CardsInit
<1>2. I /\ [Next]_vars => I'
  BY CardsNext
<1>3. I => HeaderDescribesData
  BY DEF CardsInv, CacheCurrent, RowsInv, HeaderDescribesData
<1> HIDE DEF I
<1> QED
  BY <1>1, <1>2, <1>3, PTL DEF Spec
=============================================================================
