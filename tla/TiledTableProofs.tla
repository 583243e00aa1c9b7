------------------------- MODULE TiledTableProofs -------------------------
(***************************************************************************)
(* Theorems of TiledTable, for any tile size, rows, row lists and caches.  *)
(* In order: rows and tiles; what it means that a section holds a table    *)
(* (Content), and how content moves with the heap; what a read decodes;    *)
(* what a call in progress has done and has left to do (Work); the moves   *)
(* of a repack; the invariants TableInv and Spare; one lemma per action;   *)
(* the theorems.                                                           *)
(***************************************************************************)
EXTENDS TiledTable, PrefixSumTheorems

-----------------------------------------------------------------------------
(* Rows and tiles.                                                         *)

\* Products with the rows of a tile.
LEMMA Products ==
  /\ TileRows \in Nat \ {0}
  /\ \A i \in Int : i * TileRows \in Int /\ (i - 1) * TileRows = i * TileRows - TileRows
  /\ \A i, j \in Int : i <= j => i * TileRows <= j * TileRows
  /\ \A i \in Nat : i * TileRows \in Nat
<1> DEFINE T == TileRows
<1>0. T \in Nat \ {0}
  BY TableAssumption
<1> HIDE DEF T
<1>1. ASSUME NEW i \in Int PROVE i * T \in Int /\ (i - 1) * T = i * T - T
  BY <1>0
<1>2. ASSUME NEW i \in Int, NEW j \in Int, i <= j PROVE i * T <= j * T
  <2>1. (j - i) * T \in Nat /\ j - i \in Nat
    BY <1>0, <1>2
  <2>2. j * T = i * T + (j - i) * T
    BY <1>0
  <2> QED
    BY <1>0, <2>1, <2>2
<1>3. ASSUME NEW i \in Nat PROVE i * T \in Nat
  BY <1>0
<1> QED
  BY <1>0, <1>1, <1>2, <1>3 DEF T

\* Division with remainder.
LEMMA Remainder ==
  ASSUME NEW T \in Nat \ {0}, NEW n \in Nat
  PROVE  n % T = n - (n \div T) * T /\ n % T \in 0..(T - 1) /\ n \div T \in Nat
OBVIOUS

\* The tiles are the least number that holds the rows.
LEMMA TilesHold ==
  ASSUME NEW n \in Nat
  PROVE  /\ Tiles(n) \in Nat
         /\ n <= Tiles(n) * TileRows /\ Tiles(n) * TileRows < n + TileRows
<1> DEFINE T == TileRows
           m == n + T - 1
           q == m \div T
<1>0. T \in Nat \ {0} /\ m \in Nat /\ q = Tiles(n)
  BY TableAssumption DEF Tiles
<1> HIDE DEF T, m
<1>1. m % T = m - q * T /\ m % T \in 0..(T - 1) /\ q \in Nat
  BY <1>0, Remainder
<1> HIDE DEF q
<1>2. q * T \in Nat
  BY <1>0, <1>1
<1> DEFINE p == q * T
<1> HIDE DEF p
<1>3. p \in Nat /\ m % T = m - p /\ m % T \in 0..(T - 1)
  BY <1>1, <1>2 DEF p
<1>4. p <= m /\ m < p + T
  BY <1>0, <1>3
<1>5. n <= p /\ p < n + T
  BY <1>0, <1>3, <1>4 DEF m
<1> QED
  BY <1>0, <1>1, <1>5 DEF p, T

\* Tile i is there when its first row is.
LEMMA TileIsThere ==
  ASSUME NEW n \in Nat, NEW i \in Nat \ {0}
  PROVE  i <= Tiles(n) <=> i * TileRows < n + TileRows
<1> DEFINE q == Tiles(n)
           a == i * TileRows
           b == q * TileRows
           T == TileRows
<1>0. q \in Nat /\ T \in Nat \ {0} /\ a \in Nat /\ b \in Nat /\ n <= b /\ b < n + T
  BY TilesHold, Products
<1>1. i <= q => a <= b
  BY <1>0, Products
<1>2. i > q => a >= b + T
  <2> SUFFICES ASSUME i > q PROVE a >= b + T
    OBVIOUS
  <2>1. q <= i - 1 /\ i - 1 \in Int /\ q \in Int
    BY <1>0
  <2>2. q * TileRows <= (i - 1) * TileRows /\ (i - 1) * TileRows = i * TileRows - TileRows
    BY <2>1, Products
  <2>3. b <= a - T
    BY <2>2
  <2> HIDE DEF a, b, T
  <2> QED
    BY <1>0, <2>3
<1> HIDE DEF a, b, T, q
<1>3. i <= q <=> a < n + T
  BY <1>0, <1>1, <1>2
<1> QED
  BY <1>3 DEF a, q, T

\* The rows of tile i, as far as the table goes.
LEMMA TileLenIs ==
  ASSUME NEW n \in Nat, NEW i \in 1..Tiles(n)
  PROVE  /\ i \in Nat \ {0} /\ (i - 1) * TileRows \in Nat /\ (i - 1) * TileRows < n
         /\ TileLen(i, n) \in 1..TileRows
         /\ \A j \in Nat \ {0} : j <= TileLen(i, n) <=> j <= TileRows /\ RowOf(i, j) <= n
         /\ i * TileRows <= n => TileLen(i, n) = TileRows
         /\ n < i * TileRows => i = Tiles(n) /\ TileLen(i, n) = n - (i - 1) * TileRows
<1> DEFINE q == Tiles(n)
           a == i * TileRows
           o == (i - 1) * TileRows
           b == q * TileRows
           T == TileRows
           len == TileLen(i, n)
<1>0. q \in Nat /\ T \in Nat \ {0} /\ a \in Nat /\ b \in Nat /\ n <= b /\ b < n + T
  BY TilesHold, Products
<1>1. i \in Nat \ {0} /\ i <= q
  BY <1>0
<1>2. a < n + T /\ o = a - T /\ o \in Nat
  BY <1>0, <1>1, TileIsThere, Products
<1>3. i < q => a <= b - T
  <2> SUFFICES ASSUME i < q PROVE a <= b - T
    OBVIOUS
  <2>1. i <= q - 1 /\ i \in Int /\ q - 1 \in Int
    BY <1>0, <1>1
  <2>2. i * TileRows <= (q - 1) * TileRows /\ (q - 1) * TileRows = q * TileRows - TileRows
    BY <1>0, <2>1, Products
  <2> QED
    BY <2>2
<1>4. len = IF i = q THEN n - o ELSE T
  BY DEF TileLen
<1>5. \A j \in Nat : RowOf(i, j) = o + j
  BY DEF RowOf
<1>6. i = q => a = b
  OBVIOUS
<1> HIDE DEF a, b, o, T, q, len
<1>7. i = q \/ i < q
  BY <1>0, <1>1
<1>8. /\ len \in 1..T
      /\ \A j \in Nat \ {0} : j <= len <=> j <= T /\ o + j <= n
  BY <1>0, <1>2, <1>3, <1>4, <1>6, <1>7
<1>9. (a <= n => len = T) /\ (n < a => i = q /\ len = n - o)
  BY <1>0, <1>2, <1>3, <1>4, <1>6, <1>7
<1>10. o < n
  BY <1>0, <1>2
<1> QED
  BY <1>1, <1>2, <1>5, <1>8, <1>9, <1>10 DEF a, o, T, q, len

\* Division with a remainder has one result.
LEMMA OneQuotient ==
  ASSUME NEW q \in Nat, NEW m \in 0..(TileRows - 1)
  PROVE  (q * TileRows + m) \div TileRows = q /\ (q * TileRows + m) % TileRows = m
<1> DEFINE T == TileRows
           a == q * TileRows + m
           d == a \div TileRows
<1>0. T \in Nat \ {0} /\ q * T \in Nat /\ a \in Nat /\ m \in 0..(T - 1)
  BY Products
<1>1. a % T = a - d * T /\ a % T \in 0..(T - 1) /\ d \in Nat
  <2> HIDE DEF T, a
  <2>1. a % T = a - (a \div T) * T /\ a % T \in 0..(T - 1) /\ a \div T \in Nat
    BY <1>0, Remainder
  <2> QED
    BY <2>1 DEF T
<1> HIDE DEF d
<1>2. d * T \in Nat
  BY <1>1, Products
<1>3. d = q
  <2>1. CASE d < q
    <3>1. d <= q - 1 /\ d \in Int /\ q - 1 \in Int /\ q \in Int
      BY <1>1, <2>1
    <3>2. d * TileRows <= (q - 1) * TileRows /\ (q - 1) * TileRows = q * TileRows - TileRows
      BY <3>1, Products
    <3> DEFINE x == d * T
               y == q * T
    <3>3. x <= y - T /\ a = y + m /\ a % T = a - x /\ x \in Nat /\ y \in Nat
      BY <3>2, <1>0, <1>1, <1>2
    <3> HIDE DEF x, y, T, a
    <3> QED
      BY <1>0, <1>1, <3>3
  <2>2. CASE d > q
    <3>1. q <= d - 1 /\ d \in Int /\ d - 1 \in Int /\ q \in Int
      BY <1>1, <2>2
    <3>2. q * TileRows <= (d - 1) * TileRows /\ (d - 1) * TileRows = d * TileRows - TileRows
      BY <3>1, Products
    <3> DEFINE x == d * T
               y == q * T
    <3>3. y <= x - T /\ a = y + m /\ a % T = a - x /\ x \in Nat /\ y \in Nat
      BY <3>2, <1>0, <1>1, <1>2
    <3> HIDE DEF x, y, T, a
    <3> QED
      BY <1>0, <1>1, <3>3
  <2> QED
    BY <1>1, <2>1, <2>2
<1>4. a % T = m
  <2> DEFINE y == q * T
  <2>1. a % T = a - y /\ a = y + m /\ y \in Nat
    BY <1>0, <1>1, <1>3
  <2> HIDE DEF y, T, a
  <2> QED
    BY <1>0, <2>1
<1> QED
  BY <1>3, <1>4 DEF d

\* Where a row lies.
LEMMA RowPlace ==
  ASSUME NEW n \in Nat, NEW r \in 1..n
  PROVE  /\ TileOfRow(r) \in 1..Tiles(n)
         /\ PlaceOfRow(r) \in 1..TileLen(TileOfRow(r), n)
         /\ RowOf(TileOfRow(r), PlaceOfRow(r)) = r
<1> DEFINE T == TileRows
           q == (r - 1) \div T
           m == (r - 1) % T
           i == TileOfRow(r)
           j == PlaceOfRow(r)
<1>0. T \in Nat \ {0} /\ r - 1 \in Nat /\ r \in Nat /\ r <= n
  BY Products
<1>1. m = r - 1 - q * T /\ m \in 0..(T - 1) /\ q \in Nat
  <2> HIDE DEF T
  <2> QED
    BY <1>0, Remainder
<1>2. i = q + 1 /\ j = m + 1
  BY DEF TileOfRow, PlaceOfRow
<1> HIDE DEF q, m
<1>3. i \in Nat \ {0} /\ q = i - 1 /\ j \in Nat \ {0} /\ j <= T
  BY <1>0, <1>1, <1>2
<1> DEFINE o == (i - 1) * TileRows
           a == i * TileRows
<1>4. o = a - T /\ o \in Nat /\ a \in Nat
  BY <1>1, <1>3, Products
<1>5. r = o + j /\ RowOf(i, j) = o + j
  <2>1. m = r - 1 - o
    BY <1>1, <1>3
  <2>2. r = o + j
    <3> HIDE DEF o, i, j, T
    <3> QED
      BY <1>0, <1>1, <1>2, <1>4, <2>1
  <2> QED
    BY <2>2 DEF RowOf
<1>6. a < n + T
  <2> HIDE DEF o, i, j, T, a
  <2> QED
    BY <1>0, <1>3, <1>4, <1>5
<1>7. i \in 1..Tiles(n)
  <2>1. i <= Tiles(n)
    BY <1>3, <1>6, TileIsThere
  <2> HIDE DEF i
  <2> QED
    BY <1>3, <2>1, TilesHold
<1>8. j <= TileLen(i, n)
  <2>1. RowOf(i, j) <= n
    BY <1>0, <1>5
  <2> HIDE DEF i, j
  <2> QED
    BY <1>3, <1>7, <2>1, TileLenIs
<1>9. TileLen(i, n) \in Nat
  <2> HIDE DEF i
  <2>1. TileLen(i, n) \in 1..TileRows
    BY <1>7, TileLenIs
  <2> QED
    BY <2>1
<1> HIDE DEF i, j
<1>10. j \in 1..TileLen(i, n)
  BY <1>3, <1>8, <1>9
<1> QED
  BY <1>5, <1>7, <1>10 DEF i, j

\* What lies in a place.
LEMMA PlaceRow ==
  ASSUME NEW n \in Nat, NEW i \in 1..Tiles(n), NEW j \in 1..TileLen(i, n)
  PROVE  RowOf(i, j) \in 1..n /\ TileOfRow(RowOf(i, j)) = i /\ PlaceOfRow(RowOf(i, j)) = j
<1> DEFINE o == (i - 1) * TileRows
           T == TileRows
           len == TileLen(i, n)
<1>1. i \in Nat \ {0} /\ o \in Nat /\ len \in 1..T /\ T \in Nat \ {0}
  BY TileLenIs, Products
<1>2. j \in Nat \ {0} /\ j <= len
  <2> HIDE DEF T, o
  <2> QED
    BY <1>1
<1>3. j <= T /\ RowOf(i, j) <= n
  BY <1>2, TileLenIs
<1>4. RowOf(i, j) = o + j
  BY DEF RowOf
<1>5. RowOf(i, j) \in 1..n
  <2> HIDE DEF o
  <2> QED
    BY <1>1, <1>2, <1>3, <1>4
<1>6. i - 1 \in Nat /\ j - 1 \in 0..(TileRows - 1)
  BY <1>1, <1>2, <1>3
<1>7. /\ ((i - 1) * TileRows + (j - 1)) \div TileRows = i - 1
      /\ ((i - 1) * TileRows + (j - 1)) % TileRows = j - 1
  BY <1>6, OneQuotient
<1>8. RowOf(i, j) - 1 = (i - 1) * TileRows + (j - 1)
  <2> HIDE DEF o
  <2>1. RowOf(i, j) - 1 = o + (j - 1)
    BY <1>1, <1>2, <1>4
  <2> QED
    BY <2>1 DEF o
<1>9. TileOfRow(RowOf(i, j)) = (i - 1) + 1 /\ PlaceOfRow(RowOf(i, j)) = (j - 1) + 1
  BY <1>7, <1>8 DEF TileOfRow, PlaceOfRow
<1> QED
  BY <1>1, <1>2, <1>5, <1>9

\* A table that grows keeps its full tiles, and the last one gets the rows first.
LEMMA TilesGrow ==
  ASSUME NEW n \in Nat, NEW m \in Nat, n <= m
  PROVE  /\ Tiles(n) <= Tiles(m)
         /\ \A i \in 1..Tiles(n) : i * TileRows <= n => TileLen(i, m) = TileLen(i, n)
         /\ \A i \in 1..Tiles(m) : i * TileRows <= n => i \in 1..Tiles(n)
         /\ \A i \in 1..Tiles(m) : \A j \in 1..TileLen(i, m) :
              n < i * TileRows /\ RowOf(i, j) <= n => i = Tiles(n) /\ j \in 1..TileLen(i, n)
<1>0. Tiles(n) \in Nat /\ Tiles(m) \in Nat /\ TileRows \in Nat \ {0}
  BY TilesHold, Products
<1>1. ASSUME NEW i \in 1..Tiles(n) PROVE i \in 1..Tiles(m)
  <2>1. i \in Nat \ {0} /\ i <= Tiles(n) /\ i * TileRows \in Nat
    BY <1>0, Products
  <2>2. i * TileRows < n + TileRows
    BY <2>1, TileIsThere
  <2>3. i * TileRows < m + TileRows
    <3> DEFINE a == i * TileRows
    <3>1. a < n + TileRows /\ a \in Nat
      BY <2>1, <2>2
    <3> HIDE DEF a
    <3>2. a < m + TileRows
      BY <3>1, <1>0
    <3> QED
      BY <3>2 DEF a
  <2>4. i <= Tiles(m)
    BY <2>1, <2>3, TileIsThere
  <2> QED
    BY <1>0, <2>1, <2>4
<1>2. Tiles(n) <= Tiles(m)
  <2>1. CASE Tiles(n) = 0
    BY <1>0, <2>1
  <2>2. CASE Tiles(n) # 0
    <3>1. Tiles(n) \in 1..Tiles(n)
      BY <1>0, <2>2
    <3>2. Tiles(n) \in 1..Tiles(m)
      BY <3>1, <1>1
    <3> QED
      BY <1>0, <3>2
  <2> QED
    BY <2>1, <2>2
<1>3. ASSUME NEW i \in 1..Tiles(n), i * TileRows <= n PROVE TileLen(i, m) = TileLen(i, n)
  <2>1. i \in 1..Tiles(m) /\ i \in Nat /\ i * TileRows \in Nat
    BY <1>1, Products
  <2>2. i * TileRows <= m
    <3> DEFINE a == i * TileRows
    <3>1. a <= n /\ a \in Nat
      BY <1>3, <2>1
    <3> HIDE DEF a
    <3>2. a <= m
      BY <3>1
    <3> QED
      BY <3>2 DEF a
  <2> QED
    BY <1>3, <2>1, <2>2, TileLenIs
<1>4. ASSUME NEW i \in 1..Tiles(m), i * TileRows <= n PROVE i \in 1..Tiles(n)
  <2>1. i \in Nat \ {0} /\ i * TileRows \in Nat
    BY <1>0, Products
  <2>2. i * TileRows < n + TileRows
    <3> DEFINE a == i * TileRows
    <3>1. a <= n /\ a \in Nat
      BY <1>4, <2>1
    <3> HIDE DEF a
    <3>2. a < n + TileRows
      BY <3>1, <1>0
    <3> QED
      BY <3>2 DEF a
  <2>3. i <= Tiles(n)
    BY <2>1, <2>2, TileIsThere
  <2> QED
    BY <1>0, <2>1, <2>3
<1>5. ASSUME NEW i \in 1..Tiles(m), NEW j \in 1..TileLen(i, m), n < i * TileRows, RowOf(i, j) <= n
      PROVE  i = Tiles(n) /\ j \in 1..TileLen(i, n)
  <2>1. /\ i \in Nat \ {0} /\ (i - 1) * TileRows \in Nat /\ TileLen(i, m) \in 1..TileRows
        /\ i * TileRows = (i - 1) * TileRows + TileRows
    <3>1. /\ i \in Nat \ {0} /\ (i - 1) * TileRows \in Nat /\ TileLen(i, m) \in 1..TileRows
      BY TileLenIs
    <3>2. i * TileRows \in Int /\ (i - 1) * TileRows = i * TileRows - TileRows
      BY <3>1, Products
    <3> DEFINE a == i * TileRows
               o == (i - 1) * TileRows
    <3>3. a \in Int /\ o \in Nat /\ o = a - TileRows
      BY <3>1, <3>2
    <3> HIDE DEF a, o
    <3>4. a = o + TileRows
      BY <3>3, <1>0
    <3> QED
      BY <3>1, <3>4 DEF a, o
  <2>2. j \in Nat \ {0} /\ j <= TileRows /\ RowOf(i, j) = (i - 1) * TileRows + j
    BY <2>1, <1>0 DEF RowOf
  <2>3. i * TileRows < n + TileRows
    <3> DEFINE a == i * TileRows
               o == (i - 1) * TileRows
    <3>1. a = o + TileRows /\ o \in Nat /\ o + j <= n
      BY <2>1, <2>2, <1>5
    <3> HIDE DEF a, o
    <3>2. a < n + TileRows
      BY <1>0, <2>2, <3>1
    <3> QED
      BY <3>2 DEF a
  <2>4. i <= Tiles(n)
    BY <2>1, <2>3, TileIsThere
  <2>5. i \in 1..Tiles(n)
    BY <1>0, <2>1, <2>4
  <2>6. i = Tiles(n) /\ j <= TileLen(i, n) /\ TileLen(i, n) \in 1..TileRows
    BY <1>5, <2>2, <2>5, TileLenIs
  <2> QED
    BY <1>0, <2>2, <2>6
<1> QED
  BY <1>2, <1>3, <1>4, <1>5
-----------------------------------------------------------------------------
(* What the file holds.                                                    *)

\* The units u lie in S behind place p.
Lies(S, p, u) == \A q \in 1..Len(u) : p + q <= Len(S) /\ S[p + q] = u[q]

\* The n units of S behind a are those of S2 behind b.
Carries(S, a, S2, b, n) ==
    \A q \in 1..n : a + q <= Len(S) => b + q <= Len(S2) /\ S2[b + q] = S[a + q]

\* The descriptors of a cell, of a slab or blob, and of a tile; the rows of the history.
CellDescs == [n : Nat, orig : Nat, cn : Nat, cs : Nat]
HeapDescs == [n : Nat, off : Nat]
TileDescs == [t : {"desc"}, f : HeapDescs, v : HeapDescs]
TableRows == [f : Nat, v : Seq(Nat)]
Zero == [n |-> 0, orig |-> 0, cn |-> 0, cs |-> 0]

\* What a row has for a cell while its tile has no blob.
Blank(cs) == IF "v" \in cs THEN NoCell ELSE <<>>

SlabOf(tab, i) == [j \in 1..TileLen(i, Len(tab)) |-> tab[RowOf(i, j)].f]
DescsOf(D, i, n) == [j \in 1..TileLen(i, n) |-> D[RowOf(i, j)]]

\* Cell v lies where descriptor e says, within the first lim units of the heap at th.
CellLies(S, th, lim, e, v) ==
    /\ e.n = Len(v) /\ e.cn = Len(Cell(v)) /\ e.cs + e.cn <= lim
    /\ Lies(S, th + e.cs, Cell(v))

PartLies(S, th, lim, d, u) == d.n = Len(u) /\ d.off + d.n <= lim /\ Lies(S, th + d.off, u)

\* Descriptor d leads to the fixed cells of tile i of table tab, or none was written.
SlabSpells(S, th, lim, d, i, tab) ==
    \/ d.n = 0 /\ \A j \in 1..TileLen(i, Len(tab)) : tab[RowOf(i, j)].f = 0
    \/ /\ d.n # 0 /\ PartLies(S, th, lim, d, Slab(SlabOf(tab, i)))
       /\ \A j \in 1..TileLen(i, Len(tab)) : tab[RowOf(i, j)].f # 0

\* The same for the cells of a variable-length column, with the descriptors D of the rows.
BlobSpells(cs, S, th, lim, d, i, tab, D) ==
    \/ /\ d.n = 0
       /\ \A j \in 1..TileLen(i, Len(tab)) : tab[RowOf(i, j)].v = Blank(cs) /\ D[RowOf(i, j)] = Zero
    \/ /\ d.n # 0 /\ "v" \in cs /\ PartLies(S, th, lim, d, Blob(DescsOf(D, i, Len(tab))))
       /\ \A j \in 1..TileLen(i, Len(tab)) :
            /\ tab[RowOf(i, j)].v # NoCell
            /\ CellLies(S, th, lim, D[RowOf(i, j)], tab[RowOf(i, j)].v)

\* All tiles.
Content(cs, S, th, lim, main, tab, D) ==
    \A i \in 1..Tiles(Len(tab)) : /\ SlabSpells(S, th, lim, main[i].f, i, tab)
                                  /\ BlobSpells(cs, S, th, lim, main[i].v, i, tab, D)

\* The cells have places of their own in an original heap of z units.
Origs(D, n, z) ==
    /\ \A r \in 1..n : D[r].n > 0 => D[r].orig + D[r].n <= z
    /\ \A r, s \in 1..n : r # s /\ D[r].n > 0 /\ D[s].n > 0 =>
         D[r].orig + D[r].n <= D[s].orig \/ D[s].orig + D[s].n <= D[r].orig

-----------------------------------------------------------------------------
(* The call in progress.                                                   *)

\* Nothing was harmed: what the properties are about.
Sound == ~tainted /\ harmed = "no"

\* The call has not touched the heap that the header describes.
Intact ==
    \/ call = Idle \/ cards.pcount = 0
    \/ call.theap = cards.tiles /\ (call.op = "write" => call.cur = 0)

Left(c, i, col) == [tile |-> i, col |-> col] \in c.todo

\* The end of the original heap when call c is done.
HeapEnd(c) ==
    IF c.op = "setitem" THEN c.zp ELSE c.zp + SumTo(Lengths(c.data), Len(c.data))

\* The length and the place in the original heap of the cell of row r of a write or append.
Planned(c, D0, r) ==
    IF r <= Kept(c) THEN [n |-> D0[r].n, orig |-> D0[r].orig]
    ELSE [n |-> Len(c.data[r - Kept(c)].v),
          orig |-> c.zp + SumTo(Lengths(c.data), r - Kept(c) - 1)]

\* The form of a call in progress, and how its parts hang together.
Calls ==
    [op : {"write", "append", "setitem"}, cs : SUBSET cols, cards : {cards},
     todo : SUBSET [tile : Nat, col : cols], data : Seq(RowVals), at : Seq(1..cards.rows),
     main : Seq(TileDescs), theap : Nat, cur : Nat, zp : Nat,
     old : [f : Seq(Nat), v : Seq(CellDescs)], buffered : BOOLEAN]

CallOK(c) ==
    /\ c \in Calls
    /\ c.theap = Tiles(RowsAfter(c)) /\ Len(c.main) = c.theap
    /\ c.todo \subseteq [tile : 1..c.theap, col : c.cs]
    /\ c.op = "write" => c.cs = cols /\ Len(c.data) = cards.rows
    /\ c.op = "append" => /\ c.cs = cols /\ Len(c.data) > 0 /\ c.zp = cards.zpcount
                          /\ \A x \in c.todo : cards.rows < x.tile * TileRows
    /\ c.op = "setitem" => /\ Len(c.data) = Len(c.at)
                           /\ \A x \in c.todo : TileEdits(c, x.tile) # {}
    /\ c.op # "write" => cards.pcount <= c.cur

\* The last tile is decoded when an append goes into it.
MergeOK(cs, S, cds, tab, c, D0) ==
    c.op = "append" /\ cds.rows < cds.tiles * TileRows =>
      /\ S[cds.tiles].f.n # 0 /\ c.old.f = SlabOf(tab, cds.tiles)
      /\ "v" \in cs => /\ S[cds.tiles].v.n # 0
                       /\ c.old.v = DescsOf(D0, cds.tiles, cds.rows)

\* The old content is there to be decoded, behind the new table.
OldThere(cs, S, cds, tab, c, D0) ==
    c.op # "write" => /\ Content(cs, S, c.theap, cds.pcount, S, tab, D0)
                      /\ MergeOK(cs, S, cds, tab, c, D0)

\* What is encoded spells the result R.
SlabsDone(S, R, c) ==
    \A i \in 1..c.theap :
      ~Left(c, i, "f") => SlabSpells(S, c.theap, c.cur, c.main[i].f, i, R)

BlobsDone(cs, S, R, c, D) ==
    \A i \in 1..c.theap :
      ~Left(c, i, "v") => BlobSpells(cs, S, c.theap, c.cur, c.main[i].v, i, R, D)

\* A blob that setitem has yet to encode is the old one.
EditsLeft(S, c, D0, D) ==
    c.op = "setitem" =>
      \A i \in 1..c.theap : Left(c, i, "v") =>
        /\ c.main[i].v = S[i].v
        /\ \A j \in 1..TileLen(i, c.cards.rows) : D[RowOf(i, j)] = D0[RowOf(i, j)]

PlanKept(cs, c, D0, D) ==
    c.op # "setitem" /\ "v" \in cs =>
      \A r \in 1..RowsAfter(c) : D[r].n = Planned(c, D0, r).n /\ D[r].orig = Planned(c, D0, r).orig

\* The call c at work on section S, with the descriptors D0 of the old rows and D of the new.
Work(cs, S, cds, tab, R, c, D0, D) ==
    /\ D \in [1..RowsAfter(c) -> CellDescs]
    /\ OldThere(cs, S, cds, tab, c, D0)
    /\ SlabsDone(S, R, c) /\ BlobsDone(cs, S, R, c, D)
    /\ Origs(D, RowsAfter(c), HeapEnd(c))
    /\ EditsLeft(S, c, D0, D) /\ PlanKept(cs, c, D0, D)

\* The rows of the table, of the call and of the buffer.
Room ==
    /\ cards.rows + (IF call # Idle /\ call.op = "append" THEN Len(call.data) ELSE 0)
         + Len(pending.rows) <= MaxRows
    /\ ~pending.on => pending.rows = <<>>

\* A sequence, whatever its elements are.
IsSeq(s) == s \in Seq({s[i] : i \in DOMAIN s})

SectOK == IsSeq(sect) /\ cards.tiles <= Len(sect) /\ \A i \in 1..cards.tiles : sect[i] \in TileDescs

\* The form of the state.
Typed ==
    /\ cols \in {{"f"}, {"f", "v"}}
    /\ cards \in [rows : Nat, tiles : Nat, pcount : Nat, zpcount : Nat] /\ cards.tiles = Tiles(cards.rows)
    /\ table \in Seq(TableRows) /\ Len(table) = cards.rows
    /\ pending \in [on : BOOLEAN, rows : Seq(RowVals)]
    /\ harmed \in {"no", "io", "value", "repack"}
    /\ SectOK
    /\ call = Idle \/ CallOK(call)

-----------------------------------------------------------------------------
(* Sequences of units.                                                     *)

\* A function on 1..m is a sequence of m elements.
LEMMA FunIsSeq ==
  ASSUME NEW m \in Nat, NEW s, s = [q \in 1..m |-> s[q]]
  PROVE  IsSeq(s) /\ Len(s) = m
<1> DEFINE T == {s[i] : i \in DOMAIN s}
<1>1. DOMAIN s = 1..m
  OBVIOUS
<1>2. \A q \in 1..m : s[q] \in T
  BY <1>1
<1> HIDE DEF T
<1>3. [q \in 1..m |-> s[q]] \in [1..m -> T]
  BY <1>2
<1>4. s \in [1..m -> T]
  BY <1>3
<1>5. s \in Seq(T)
  BY <1>4
<1>6. Len(s) \in Nat /\ DOMAIN s = 1..Len(s)
  BY <1>5
<1>7. Len(s) = m
  BY <1>1, <1>6
<1> QED
  BY <1>5, <1>7 DEF IsSeq, T

\* And a sequence is such a function.
LEMMA SeqIsFun ==
  ASSUME NEW s, IsSeq(s)
  PROVE  Len(s) \in Nat /\ DOMAIN s = 1..Len(s) /\ s = [q \in 1..Len(s) |-> s[q]]
<1> DEFINE T == {s[i] : i \in DOMAIN s}
<1>1. s \in Seq(T)
  BY DEF IsSeq
<1> HIDE DEF T
<1> QED
  BY <1>1

\* A sequence of elements of T is a sequence.
LEMMA TypedIsSeq ==
  ASSUME NEW T, NEW s \in Seq(T)
  PROVE  IsSeq(s)
<1>1. Len(s) \in Nat /\ s = [q \in 1..Len(s) |-> s[q]]
  OBVIOUS
<1> QED
  BY <1>1, FunIsSeq

\* Sequences with the same elements are the same.
LEMMA SameSeq ==
  ASSUME NEW s, NEW t, IsSeq(s), IsSeq(t), Len(s) = Len(t), \A q \in 1..Len(s) : s[q] = t[q]
  PROVE  s = t
<1>1. s = [q \in 1..Len(s) |-> s[q]] /\ t = [q \in 1..Len(t) |-> t[q]]
  BY SeqIsFun
<1>2. [q \in 1..Len(s) |-> s[q]] = [q \in 1..Len(s) |-> t[q]]
  OBVIOUS
<1> QED
  BY <1>1, <1>2

\* The units of one slab, cell or blob.
LEMMA UnitsAre ==
  ASSUME NEW t, NEW of, NEW n \in Nat
  PROVE  /\ IsSeq(Units(t, of, n)) /\ Len(Units(t, of, n)) = n
         /\ \A q \in 1..n : Units(t, of, n)[q] = [t |-> t, of |-> of, i |-> q, n |-> n]
<1> DEFINE u == Units(t, of, n)
<1>1. u = [q \in 1..n |-> [t |-> t, of |-> of, i |-> q, n |-> n]]
  BY DEF Units
<1> HIDE DEF u
<1>2. \A q \in 1..n : u[q] = [t |-> t, of |-> of, i |-> q, n |-> n]
  BY <1>1
<1>3. u = [q \in 1..n |-> u[q]]
  BY <1>1
<1> QED
  BY <1>2, <1>3, FunIsSeq DEF u

\* A part of a sequence.
LEMMA PartIs ==
  ASSUME NEW s, IsSeq(s), NEW m \in Nat, NEW n \in Nat, m + n <= Len(s)
  PROVE  LET u == SubSeq(s, m + 1, m + n)
         IN  IsSeq(u) /\ Len(u) = n /\ \A q \in 1..n : u[q] = s[m + q]
<1> DEFINE T == {s[i] : i \in DOMAIN s}
           u == SubSeq(s, m + 1, m + n)
<1>1. s \in Seq(T)
  BY DEF IsSeq
<1> HIDE DEF T
<1>2. m + 1 \in Nat \ {0} /\ m + n \in Int
  OBVIOUS
<1>3. /\ u \in Seq(T) /\ Len(u) = IF m + 1 <= m + n THEN m + n - (m + 1) + 1 ELSE 0
      /\ \A i \in 1..(m + n - (m + 1) + 1) : u[i] = s[m + 1 + i - 1]
  BY <1>1, <1>2, SubSeqTyped
<1> HIDE DEF u
<1>4. m + n - (m + 1) + 1 = n /\ (m + 1 <= m + n <=> n > 0)
  OBVIOUS
<1>5. Len(u) = n
  BY <1>3, <1>4
<1>6. ASSUME NEW q \in 1..n PROVE u[q] = s[m + q]
  <2>1. m + 1 + q - 1 = m + q /\ q \in 1..(m + n - (m + 1) + 1)
    BY <1>4
  <2>2. u[q] = s[m + 1 + q - 1]
    BY <1>3, <2>1
  <2> QED
    BY <2>1, <2>2
<1>7. IsSeq(u)
  BY <1>3, TypedIsSeq
<1> QED
  BY <1>5, <1>6, <1>7 DEF u

\* Units that are written behind place p: they lie there, and nothing else changes.
LEMMA Written ==
  ASSUME NEW S, IsSeq(S), NEW u, IsSeq(u), NEW p \in Nat
  PROVE  LET W == WriteAt(S, p + 1, u)
         IN  /\ IsSeq(W) /\ Len(W) = (IF Len(S) < p + Len(u) THEN p + Len(u) ELSE Len(S))
             /\ \A q \in 1..Len(u) : W[p + q] = u[q]
             /\ \A q \in 1..Len(S) : q <= p \/ q > p + Len(u) => W[q] = S[q]
<1> DEFINE W == WriteAt(S, p + 1, u)
           M == IF Len(S) < p + Len(u) THEN p + Len(u) ELSE Len(S)
<1>1. Len(S) \in Nat /\ Len(u) \in Nat
  BY SeqIsFun
<1>2. p + 1 + Len(u) - 1 = p + Len(u)
  BY <1>1
<1>3. W = [q \in 1..M |-> IF q \in (p + 1)..(p + Len(u)) THEN u[q - (p + 1) + 1]
                          ELSE IF q <= Len(S) THEN S[q] ELSE [t |-> "junk"]]
  BY <1>2 DEF WriteAt
<1> HIDE DEF W
<1>4. M \in Nat /\ p + Len(u) <= M /\ Len(S) <= M
  BY <1>1
<1> HIDE DEF M
<1>5. W = [q \in 1..M |-> W[q]]
  BY <1>3
<1>6. IsSeq(W) /\ Len(W) = M
  BY <1>4, <1>5, FunIsSeq
<1>7. ASSUME NEW q \in 1..Len(u) PROVE W[p + q] = u[q]
  <2>1. p + q \in 1..M /\ p + q \in (p + 1)..(p + Len(u)) /\ p + q - (p + 1) + 1 = q
    BY <1>1, <1>4
  <2> QED
    BY <1>3, <2>1
<1>8. ASSUME NEW q \in 1..Len(S), q <= p \/ q > p + Len(u) PROVE W[q] = S[q]
  <2>1. q \in 1..M /\ q \notin (p + 1)..(p + Len(u)) /\ q <= Len(S)
    BY <1>1, <1>4, <1>8
  <2> QED
    BY <1>3, <2>1
<1> QED
  BY <1>6, <1>7, <1>8 DEF W, M

\* Units that are written lie where they were written.
LEMMA WrittenLies ==
  ASSUME NEW S, IsSeq(S), NEW u, IsSeq(u), NEW p \in Nat
  PROVE  Lies(WriteAt(S, p + 1, u), p, u)
<1> DEFINE W == WriteAt(S, p + 1, u)
<1>1. Len(S) \in Nat /\ Len(u) \in Nat
  BY SeqIsFun
<1>2. Len(W) = (IF Len(S) < p + Len(u) THEN p + Len(u) ELSE Len(S)) /\ \A q \in 1..Len(u) : W[p + q] = u[q]
  BY Written
<1> HIDE DEF W
<1>3. p + Len(u) <= Len(W)
  BY <1>1, <1>2
<1>4. Len(W) \in Nat
  BY <1>1, <1>2
<1>5. \A q \in 1..Len(u) : p + q <= Len(W)
  BY <1>1, <1>3, <1>4
<1> QED
  BY <1>2, <1>5 DEF Lies, W

\* A write leaves the units in front of it and behind it alone.
LEMMA WrittenCarries ==
  ASSUME NEW S, IsSeq(S), NEW u, IsSeq(u), NEW p \in Nat, NEW a \in Nat, NEW n \in Nat,
         a + n <= p \/ p + Len(u) <= a
  PROVE  Carries(S, a, WriteAt(S, p + 1, u), a, n)
<1> DEFINE W == WriteAt(S, p + 1, u)
<1>1. Len(S) \in Nat /\ Len(u) \in Nat
  BY SeqIsFun
<1>2. /\ Len(W) = (IF Len(S) < p + Len(u) THEN p + Len(u) ELSE Len(S))
      /\ \A q \in 1..Len(S) : q <= p \/ q > p + Len(u) => W[q] = S[q]
  BY Written
<1> HIDE DEF W
<1>3. Len(S) <= Len(W) /\ Len(W) \in Nat
  BY <1>1, <1>2
<1>4. ASSUME NEW q \in 1..n, a + q <= Len(S) PROVE a + q <= Len(W) /\ W[a + q] = S[a + q]
  <2>1. a + q \in 1..Len(S) /\ (a + q <= p \/ a + q > p + Len(u)) /\ a + q <= Len(W)
    BY <1>1, <1>3, <1>4
  <2> QED
    BY <1>2, <2>1
<1> QED
  BY <1>4 DEF Carries, W

\* The first m units, or what there is.
CutTo(s, m) == SubSeq(s, 1, IF Len(s) < m THEN Len(s) ELSE m)

\* What is cut off behind place m does not change what is in front.
LEMMA FrontIs ==
  ASSUME NEW S, IsSeq(S), NEW m \in Nat
  PROVE  LET U == CutTo(S, m)
         IN  /\ IsSeq(U) /\ Len(U) = (IF Len(S) < m THEN Len(S) ELSE m)
             /\ \A q \in 1..Len(U) : U[q] = S[q]
<1> DEFINE k == IF Len(S) < m THEN Len(S) ELSE m
           z == 0
           U == CutTo(S, m)
<1>1. Len(S) \in Nat
  BY SeqIsFun
<1>2. k \in Nat /\ z \in Nat /\ z + k <= Len(S) /\ z + 1 = 1 /\ z + k = k
  BY <1>1
<1>3. U = SubSeq(S, z + 1, z + k)
  BY <1>2 DEF CutTo
<1> HIDE DEF k, U, z
<1>4. IsSeq(U) /\ Len(U) = k /\ \A q \in 1..k : U[q] = S[z + q]
  BY <1>2, <1>3, PartIs
<1>5. \A q \in 1..k : z + q = q
  BY <1>2 DEF z
<1>6. \A q \in 1..Len(U) : U[q] = S[q]
  BY <1>4, <1>5
<1> QED
  BY <1>4, <1>6 DEF k, U

\* The units that are kept are carried along.
LEMMA FrontCarries ==
  ASSUME NEW S, IsSeq(S), NEW m \in Nat, NEW a \in Nat, NEW n \in Nat, a + n <= m
  PROVE  Carries(S, a, CutTo(S, m), a, n)
<1> DEFINE U == CutTo(S, m)
<1>1. Len(S) \in Nat
  BY SeqIsFun
<1>2. Len(U) = (IF Len(S) < m THEN Len(S) ELSE m) /\ \A q \in 1..Len(U) : U[q] = S[q]
  BY FrontIs
<1> HIDE DEF U
<1>3. ASSUME NEW q \in 1..n, a + q <= Len(S) PROVE a + q <= Len(U) /\ U[a + q] = S[a + q]
  <2>1. a + q \in 1..Len(U)
    BY <1>1, <1>2, <1>3
  <2>2. Len(U) \in Nat
    BY <1>1, <1>2
  <2> QED
    BY <1>2, <2>1, <2>2
<1> QED
  BY <1>3 DEF Carries, U

\* Two moves, one after the other.
LEMMA CarriesThrough ==
  ASSUME NEW S, NEW S2, NEW S3, NEW a, NEW b, NEW d, NEW n,
         Carries(S, a, S2, b, n), Carries(S2, b, S3, d, n)
  PROVE  Carries(S, a, S3, d, n)
BY DEF Carries

\* Units lie where they are carried to.
LEMMA LiesCarried ==
  ASSUME NEW S, NEW S2, NEW a \in Nat, NEW b \in Nat, NEW n \in Nat, Carries(S, a, S2, b, n),
         NEW off \in Nat, NEW u, IsSeq(u), off + Len(u) <= n, Lies(S, a + off, u)
  PROVE  Lies(S2, b + off, u)
<1>1. Len(u) \in Nat
  BY SeqIsFun
<1> SUFFICES ASSUME NEW q \in 1..Len(u) PROVE b + off + q <= Len(S2) /\ S2[b + off + q] = u[q]
  BY DEF Lies
<1>2. off + q \in 1..n /\ a + (off + q) = a + off + q /\ b + (off + q) = b + off + q
  BY <1>1
<1>3. a + off + q <= Len(S) /\ S[a + off + q] = u[q]
  BY DEF Lies
<1>4. b + (off + q) <= Len(S2) /\ S2[b + (off + q)] = S[a + (off + q)]
  BY <1>2, <1>3 DEF Carries
<1> QED
  BY <1>2, <1>3, <1>4

-----------------------------------------------------------------------------
(* Slabs, cells and blobs.                                                 *)

\* A sequence has finitely many elements, and at least one unless it is empty.
LEMMA ElementsFinite ==
  ASSUME NEW T, NEW s \in Seq(T)
  PROVE  Cardinality(ToSet(s)) \in Nat /\ (s # <<>> => Cardinality(ToSet(s)) # 0)
<1> DEFINE R == ToSet(s)
<1>1. Len(s) \in Nat /\ DOMAIN s = 1..Len(s) /\ IsFiniteSet(1..Len(s))
  BY FS_Interval
<1>2. R = {s[i] : i \in 1..Len(s)}
  BY <1>1 DEF ToSet
<1>3. IsFiniteSet(R)
  <2>1. s \in [1..Len(s) -> T]
    BY <1>1
  <2>2. s \in Surjection(1..Len(s), R)
    BY <1>1, <1>2, <2>1 DEF Surjection
  <2> QED
    BY <1>1, <2>2, FS_Surjection
<1>4. s # <<>> => R # {}
  <2> SUFFICES ASSUME s # <<>> PROVE R # {}
    OBVIOUS
  <2>1. 1 \in 1..Len(s)
    BY <1>1
  <2> QED
    BY <1>2, <2>1
<1> HIDE DEF R
<1>5. Cardinality(R) \in Nat /\ (R # {} => Cardinality(R) # 0)
  BY <1>3, FS_CardinalityType, FS_EmptySet
<1> QED
  BY <1>4, <1>5 DEF R

\* A slab has at least one unit.
LEMMA SlabIs ==
  ASSUME NEW x \in Seq(Nat), x # <<>>, x[1] # 0
  PROVE  \E n \in Nat \ {0} : Slab(x) = Units("slab", x, n)
<1>1. 1 \in 1..Len(x) /\ x[1] \in Nat
  OBVIOUS
<1> QED
  BY <1>1 DEF Slab

\* A cell has as many units as elements when it is stored as it is; only the empty one has
\* none.
LEMMA CellIs ==
  ASSUME NEW v \in Seq(Nat)
  PROVE  /\ v = <<>> => Cell(v) = <<>>
         /\ \E n \in Nat : /\ Cell(v) = Units(IF n = Len(v) THEN "raw" ELSE "cell", v, n)
                           /\ v # <<>> => n # 0
<1> DEFINE z == Cardinality(ToSet(v))
<1>1. z \in Nat /\ (v # <<>> => z # 0) /\ Len(v) \in Nat /\ (v # <<>> => Len(v) # 0)
  BY ElementsFinite
<1>2. Cell(v) = IF z < Len(v) THEN Units("cell", v, z) ELSE Units("raw", v, Len(v))
  BY DEF Cell
<1> HIDE DEF z
<1>3. ASSUME v = <<>> PROVE Cell(v) = <<>>
  <2>1. Len(v) = 0
    BY <1>3
  <2>2. ~(z < Len(v))
    BY <1>1, <2>1
  <2>3. Cell(v) = Units("raw", v, 0)
    BY <1>2, <2>1, <2>2
  <2>4. IsSeq(Cell(v)) /\ Len(Cell(v)) = 0
    BY <2>3, UnitsAre
  <2>5. Cell(v) \in Seq({Cell(v)[i] : i \in DOMAIN Cell(v)})
    BY <2>4 DEF IsSeq
  <2> QED
    BY <2>4, <2>5, EmptySeq
<1>4. \E n \in Nat : /\ Cell(v) = Units(IF n = Len(v) THEN "raw" ELSE "cell", v, n)
                     /\ v # <<>> => n # 0
  <2>1. CASE z < Len(v)
    <3>1. z # Len(v)
      BY <1>1, <2>1
    <3> QED
      BY <1>1, <1>2, <2>1, <3>1
  <2>2. CASE ~(z < Len(v))
    BY <1>1, <1>2, <2>2
  <2> QED
    BY <2>1, <2>2
<1> QED
  BY <1>3, <1>4

\* A blob has at least one unit.
LEMMA BlobIs ==
  ASSUME NEW b \in Seq(CellDescs)
  PROVE  \E n \in Nat \ {0} : Blob(b) = Units("blob", b, n)
<1> DEFINE w == [j \in DOMAIN b |-> b[j].cs]
           k == SumTo(w, Len(b))
<1>1. Len(b) \in Nat /\ DOMAIN b = 1..Len(b) /\ \A j \in 1..Len(b) : b[j] \in CellDescs
  OBVIOUS
<1>2. \A j \in 1..Len(b) : w[j] \in Nat
  BY <1>1 DEF CellDescs
<1>3. Blob(b) = Units("blob", b, 1 + (k % 2))
  BY DEF Blob
<1> HIDE DEF w
<1>4. k \in Nat
  <2>1. \A n \in 0..Len(b) : SumTo(w, n) \in Nat
    BY <1>1, <1>2, SumToNat
  <2>2. Len(b) \in 0..Len(b)
    BY <1>1
  <2> QED
    BY <2>1, <2>2
<1> HIDE DEF k
<1>5. 1 + (k % 2) \in Nat \ {0}
  BY <1>4
<1> QED
  BY <1>3, <1>5

\* The cells and the descriptors of a tile.
LEMMA TilePartsAre ==
  ASSUME NEW tab \in Seq(TableRows), NEW D \in [1..Len(tab) -> CellDescs], NEW i \in 1..Tiles(Len(tab))
  PROVE  LET len == TileLen(i, Len(tab))
         IN  /\ len \in Nat \ {0}
             /\ \A j \in 1..len : /\ RowOf(i, j) \in 1..Len(tab)
                                  /\ tab[RowOf(i, j)] \in TableRows /\ D[RowOf(i, j)] \in CellDescs
             /\ SlabOf(tab, i) \in Seq(Nat) /\ SlabOf(tab, i) # <<>> /\ Len(SlabOf(tab, i)) = len
             /\ DescsOf(D, i, Len(tab)) \in Seq(CellDescs) /\ DescsOf(D, i, Len(tab)) # <<>>
             /\ Len(DescsOf(D, i, Len(tab))) = len
             /\ \A j \in 1..len : /\ SlabOf(tab, i)[j] = tab[RowOf(i, j)].f
                                  /\ DescsOf(D, i, Len(tab))[j] = D[RowOf(i, j)]
<1> DEFINE n == Len(tab)
           len == TileLen(i, n)
           x == SlabOf(tab, i)
           y == DescsOf(D, i, n)
<1>1. n \in Nat /\ TileRows \in Nat \ {0}
  BY Products
<1>2. len \in Nat \ {0}
  <2>1. len \in 1..TileRows
    BY <1>1, TileLenIs
  <2> HIDE DEF len
  <2> QED
    BY <1>1, <2>1
<1>3. \A j \in 1..len : RowOf(i, j) \in 1..n
  BY <1>1, PlaceRow
<1>4. \A j \in 1..len : tab[RowOf(i, j)] \in TableRows /\ D[RowOf(i, j)] \in CellDescs
  BY <1>3
<1>5. x = [j \in 1..len |-> tab[RowOf(i, j)].f] /\ y = [j \in 1..len |-> D[RowOf(i, j)]]
  BY DEF SlabOf, DescsOf
<1> HIDE DEF len, n, x, y
<1>6. x \in [1..len -> Nat] /\ y \in [1..len -> CellDescs]
  BY <1>4, <1>5 DEF TableRows
<1>7. x \in Seq(Nat) /\ y \in Seq(CellDescs)
  BY <1>2, <1>6, SMTT(40)
<1>8. Len(x) = len /\ Len(y) = len
  BY <1>2, <1>6, <1>7
<1>9. x # <<>> /\ y # <<>>
  BY <1>2, <1>7, <1>8
<1>10. \A j \in 1..len : x[j] = tab[RowOf(i, j)].f /\ y[j] = D[RowOf(i, j)]
  BY <1>5
<1> QED
  BY <1>2, <1>3, <1>4, <1>7, <1>8, <1>9, <1>10 DEF len, n, x, y

\* The fixed cells of a tile that was written.
LEMMA SlabOfIs ==
  ASSUME NEW tab \in Seq(TableRows), NEW i \in 1..Tiles(Len(tab)),
         \A j \in 1..TileLen(i, Len(tab)) : tab[RowOf(i, j)].f # 0
  PROVE  SlabOf(tab, i) \in Seq(Nat) /\ SlabOf(tab, i) # <<>> /\ SlabOf(tab, i)[1] # 0
<1> DEFINE D == [r \in 1..Len(tab) |-> Zero]
           len == TileLen(i, Len(tab))
<1>1. D \in [1..Len(tab) -> CellDescs]
  BY DEF Zero, CellDescs
<1> HIDE DEF D
<1>2. /\ len \in Nat \ {0} /\ SlabOf(tab, i) \in Seq(Nat) /\ SlabOf(tab, i) # <<>>
      /\ \A j \in 1..len : SlabOf(tab, i)[j] = tab[RowOf(i, j)].f
  BY <1>1, TilePartsAre
<1> HIDE DEF len
<1>3. 1 \in 1..len
  BY <1>2
<1>4. SlabOf(tab, i)[1] # 0
  BY <1>2, <1>3 DEF len
<1> QED
  BY <1>2, <1>4

\* The heap at th of S, lim units long, is in the heap at th2 of S2.
Moves(S, th, lim, S2, th2, lim2) ==
    {th, th2, lim, lim2} \subseteq Nat /\ lim <= lim2 /\ Carries(S, th, S2, th2, lim)

\* What a descriptor leads to moves with the heap.
LEMMA PartMoved ==
  ASSUME NEW S, NEW th, NEW lim, NEW S2, NEW th2, NEW lim2, Moves(S, th, lim, S2, th2, lim2),
         NEW d \in HeapDescs, NEW u, IsSeq(u), PartLies(S, th, lim, d, u)
  PROVE  PartLies(S2, th2, lim2, d, u)
<1>1. th \in Nat /\ th2 \in Nat /\ lim \in Nat /\ lim2 \in Nat /\ lim <= lim2 /\ Carries(S, th, S2, th2, lim)
  BY DEF Moves
<1>2. d.n \in Nat /\ d.off \in Nat
  BY DEF HeapDescs
<1>3. d.n = Len(u) /\ d.off + d.n <= lim /\ Lies(S, th + d.off, u)
  BY DEF PartLies
<1>4. Lies(S2, th2 + d.off, u)
  BY <1>1, <1>2, <1>3, LiesCarried
<1>5. d.off + d.n <= lim2
  BY <1>1, <1>2, <1>3
<1> QED
  BY <1>3, <1>4, <1>5 DEF PartLies

\* A cell moves with the heap.
LEMMA CellMoved ==
  ASSUME NEW S, NEW th, NEW lim, NEW S2, NEW th2, NEW lim2, Moves(S, th, lim, S2, th2, lim2),
         NEW e \in CellDescs, NEW v \in Seq(Nat), CellLies(S, th, lim, e, v)
  PROVE  CellLies(S2, th2, lim2, e, v)
<1>1. th \in Nat /\ th2 \in Nat /\ lim \in Nat /\ lim2 \in Nat /\ lim <= lim2 /\ Carries(S, th, S2, th2, lim)
  BY DEF Moves
<1>2. e.cn \in Nat /\ e.cs \in Nat
  BY DEF CellDescs
<1>3. e.n = Len(v) /\ e.cn = Len(Cell(v)) /\ e.cs + e.cn <= lim /\ Lies(S, th + e.cs, Cell(v))
  BY DEF CellLies
<1>4. IsSeq(Cell(v))
  BY CellIs, UnitsAre
<1>5. Lies(S2, th2 + e.cs, Cell(v))
  BY <1>1, <1>2, <1>3, <1>4, LiesCarried
<1>6. e.cs + e.cn <= lim2
  BY <1>1, <1>2, <1>3
<1> QED
  BY <1>3, <1>5, <1>6 DEF CellLies

\* A slab moves with the heap.
LEMMA SlabMoved ==
  ASSUME NEW S, NEW th, NEW lim, NEW S2, NEW th2, NEW lim2, Moves(S, th, lim, S2, th2, lim2),
         NEW tab \in Seq(TableRows), NEW i \in 1..Tiles(Len(tab)),
         NEW d \in HeapDescs, SlabSpells(S, th, lim, d, i, tab)
  PROVE  SlabSpells(S2, th2, lim2, d, i, tab)
<1> DEFINE x == SlabOf(tab, i)
<1>1. CASE d.n = 0
  BY <1>1 DEF SlabSpells
<1>2. CASE d.n # 0
  <2>1. /\ PartLies(S, th, lim, d, Slab(x))
        /\ \A j \in 1..TileLen(i, Len(tab)) : tab[RowOf(i, j)].f # 0
    BY <1>2 DEF SlabSpells
  <2>2. x \in Seq(Nat) /\ x # <<>> /\ x[1] # 0
    BY <2>1, SlabOfIs
  <2> HIDE DEF x
  <2>3. IsSeq(Slab(x))
    BY <2>2, SlabIs, UnitsAre
  <2>4. PartLies(S2, th2, lim2, d, Slab(x))
    BY <2>1, <2>3, PartMoved
  <2> QED
    BY <1>2, <2>1, <2>4 DEF SlabSpells, x
<1> QED
  BY <1>1, <1>2

\* A blob and its cells move with the heap.
LEMMA BlobMoved ==
  ASSUME NEW S, NEW th, NEW lim, NEW S2, NEW th2, NEW lim2, Moves(S, th, lim, S2, th2, lim2),
         NEW tab \in Seq(TableRows), NEW i \in 1..Tiles(Len(tab)), NEW cs,
         NEW D \in [1..Len(tab) -> CellDescs],
         NEW d \in HeapDescs, BlobSpells(cs, S, th, lim, d, i, tab, D)
  PROVE  BlobSpells(cs, S2, th2, lim2, d, i, tab, D)
<1> DEFINE y == DescsOf(D, i, Len(tab))
           len == TileLen(i, Len(tab))
<1>1. y \in Seq(CellDescs)
  BY TilePartsAre
<1>2. IsSeq(Blob(y))
  BY <1>1, BlobIs, UnitsAre
<1>3. \A j \in 1..len : D[RowOf(i, j)] \in CellDescs /\ tab[RowOf(i, j)].v \in Seq(Nat)
  BY TilePartsAre DEF TableRows
<1> HIDE DEF y, len
<1>4. PartLies(S, th, lim, d, Blob(y)) => PartLies(S2, th2, lim2, d, Blob(y))
  BY <1>2, PartMoved
<1>5. \A j \in 1..len : CellLies(S, th, lim, D[RowOf(i, j)], tab[RowOf(i, j)].v)
                        => CellLies(S2, th2, lim2, D[RowOf(i, j)], tab[RowOf(i, j)].v)
  BY <1>3, CellMoved
<1>6. CASE d.n = 0
  BY <1>6 DEF BlobSpells
<1>7. CASE d.n # 0
  <2>1. /\ "v" \in cs /\ PartLies(S, th, lim, d, Blob(y))
        /\ \A j \in 1..len : /\ tab[RowOf(i, j)].v # NoCell
                             /\ CellLies(S, th, lim, D[RowOf(i, j)], tab[RowOf(i, j)].v)
    BY <1>7 DEF BlobSpells, y, len
  <2>2. \A j \in 1..len : CellLies(S2, th2, lim2, D[RowOf(i, j)], tab[RowOf(i, j)].v)
    BY <1>5, <2>1
  <2> QED
    BY <1>4, <1>7, <2>1, <2>2 DEF BlobSpells, y, len
<1> QED
  BY <1>6, <1>7

\* The content of all tiles moves with the heap.
LEMMA ContentMoved ==
  ASSUME NEW S, NEW th, NEW lim, NEW S2, NEW th2, NEW lim2, Moves(S, th, lim, S2, th2, lim2),
         NEW tab \in Seq(TableRows), NEW cs, NEW D \in [1..Len(tab) -> CellDescs],
         NEW main, NEW main2,
         \A i \in 1..Tiles(Len(tab)) : main[i] \in TileDescs /\ main2[i] = main[i],
         Content(cs, S, th, lim, main, tab, D)
  PROVE  Content(cs, S2, th2, lim2, main2, tab, D)
<1> SUFFICES ASSUME NEW i \in 1..Tiles(Len(tab))
             PROVE  /\ SlabSpells(S2, th2, lim2, main2[i].f, i, tab)
                    /\ BlobSpells(cs, S2, th2, lim2, main2[i].v, i, tab, D)
  BY DEF Content
<1>1. main[i].f \in HeapDescs /\ main[i].v \in HeapDescs /\ main2[i] = main[i]
  BY DEF TileDescs
<1>2. SlabSpells(S, th, lim, main[i].f, i, tab) /\ BlobSpells(cs, S, th, lim, main[i].v, i, tab, D)
  BY DEF Content
<1> QED
  BY <1>1, <1>2, SlabMoved, BlobMoved

\* A heap of no units holds nothing, wherever it is.
LEMMA ContentOfNothing ==
  ASSUME NEW S, NEW th \in Nat, NEW S2, NEW th2 \in Nat,
         NEW tab \in Seq(TableRows), NEW cs, NEW D \in [1..Len(tab) -> CellDescs],
         NEW main, NEW main2,
         \A i \in 1..Tiles(Len(tab)) : main[i] \in TileDescs /\ main2[i] = main[i],
         Content(cs, S, th, 0, main, tab, D)
  PROVE  Content(cs, S2, th2, 0, main2, tab, D)
<1>1. Carries(S, th, S2, th2, 0)
  BY DEF Carries
<1>2. Moves(S, th, 0, S2, th2, 0)
  BY <1>1 DEF Moves
<1> QED
  BY <1>2, ContentMoved

-----------------------------------------------------------------------------
(* Decoding.                                                               *)

\* Found, CellAt and TileAt over any section.
FoundIn(S, kind, n, off, theap) ==
    LET at == theap + off
        u  == SubSeq(S, at + 1, at + n)
    IN  IF n > 0 /\ at + n <= Len(S) /\ u[1].t = kind /\ u = Units(kind, u[1].of, n)
        THEN [ok |-> TRUE, of |-> u[1].of] ELSE Wrong

CellIn(S, e, theap) ==
    IF e.n = 0 THEN [ok |-> TRUE, of |-> <<>>]
    ELSE FoundIn(S, IF e.cn = e.n THEN "raw" ELSE "cell", e.cn, e.cs, theap)

TileIn(S, main, col, i, n, theap) ==
    LET got == IF col = "f" THEN FoundIn(S, "slab", main[i].f.n, main[i].f.off, theap)
               ELSE FoundIn(S, "blob", main[i].v.n, main[i].v.off, theap)
    IN  IF got.ok /\ Len(got.of) = TileLen(i, n) THEN got ELSE Wrong

Right(of) == [ok |-> TRUE, of |-> of]
Decoded(d, of) == IF d.n = 0 THEN Wrong ELSE Right(of)

\* Units that lie together are a part.
LEMMA LiesIsPart ==
  ASSUME NEW S, IsSeq(S), NEW u, IsSeq(u), NEW p \in Nat, Lies(S, p, u)
  PROVE  SubSeq(S, p + 1, p + Len(u)) = u /\ (u # <<>> => p + Len(u) <= Len(S))
<1>1. Len(S) \in Nat /\ Len(u) \in Nat
  BY SeqIsFun
<1>2. CASE Len(u) = 0
  <2>1. u \in Seq({u[i] : i \in DOMAIN u}) /\ S \in Seq({S[i] : i \in DOMAIN S})
    BY DEF IsSeq
  <2>2. u = <<>>
    BY <1>2, <2>1, EmptySeq
  <2>3. SubSeq(S, p + 1, p + 0) = <<>>
    BY <2>1
  <2> QED
    BY <1>2, <2>2, <2>3
<1>3. CASE Len(u) # 0
  <2>1. Len(u) \in 1..Len(u)
    BY <1>1, <1>3
  <2>2. p + Len(u) <= Len(S)
    BY <2>1 DEF Lies
  <2> DEFINE w == SubSeq(S, p + 1, p + Len(u))
  <2>3. IsSeq(w) /\ Len(w) = Len(u) /\ \A q \in 1..Len(u) : w[q] = S[p + q]
    BY <1>1, <2>2, PartIs
  <2> HIDE DEF w
  <2>4. \A q \in 1..Len(w) : w[q] = u[q]
    BY <2>3 DEF Lies
  <2>5. w = u
    BY <2>3, <2>4, SameSeq
  <2> QED
    BY <2>2, <2>5 DEF w
<1> QED
  BY <1>2, <1>3

\* Units that lie at an offset are found there.
LEMMA FoundUnits ==
  ASSUME NEW S, IsSeq(S), NEW kind, NEW of, NEW n \in Nat \ {0}, NEW th \in Nat, NEW off \in Nat,
         NEW w, w = Units(kind, of, n), Lies(S, th + off, w)
  PROVE  FoundIn(S, kind, n, off, th) = Right(of)
<1> DEFINE u == SubSeq(S, th + off + 1, th + off + n)
<1>1. IsSeq(w) /\ Len(w) = n /\ w[1] = [t |-> kind, of |-> of, i |-> 1, n |-> n]
  BY UnitsAre
<1>2. w # <<>>
  BY <1>1
<1>3. u = w /\ th + off + n <= Len(S)
  <2>1. th + off \in Nat
    OBVIOUS
  <2> QED
    BY <1>1, <1>2, <2>1, LiesIsPart
<1> HIDE DEF u
<1>4. u[1].t = kind /\ u[1].of = of
  BY <1>1, <1>3
<1>5. u = Units(kind, u[1].of, n)
  BY <1>3, <1>4
<1>6. n > 0
  OBVIOUS
<1>7. FoundIn(S, kind, n, off, th) =
        IF n > 0 /\ th + off + n <= Len(S) /\ u[1].t = kind /\ u = Units(kind, u[1].of, n)
        THEN Right(u[1].of) ELSE Wrong
  BY DEF FoundIn, u, Right
<1> QED
  BY <1>3, <1>4, <1>5, <1>6, <1>7

\* A descriptor of nothing leads to nothing.
LEMMA NothingFound ==
  ASSUME NEW S, NEW kind, NEW off, NEW th
  PROVE  FoundIn(S, kind, 0, off, th) = Wrong
BY DEF FoundIn

\* What a tile with a slab decodes to.
LEMMA SlabFound ==
  ASSUME NEW S, IsSeq(S), NEW th \in Nat, NEW lim, NEW tab \in Seq(TableRows), NEW i \in 1..Tiles(Len(tab)),
         NEW d \in HeapDescs, SlabSpells(S, th, lim, d, i, tab), d.n # 0
  PROVE  FoundIn(S, "slab", d.n, d.off, th) = Right(SlabOf(tab, i))
<1> DEFINE x == SlabOf(tab, i)
<1>1. \A j \in 1..TileLen(i, Len(tab)) : tab[RowOf(i, j)].f # 0
  BY DEF SlabSpells
<1>2. x \in Seq(Nat) /\ x # <<>> /\ x[1] # 0
  BY <1>1, SlabOfIs
<1>3. PartLies(S, th, lim, d, Slab(x))
  BY DEF SlabSpells
<1> HIDE DEF x
<1>4. PICK n \in Nat \ {0} : Slab(x) = Units("slab", x, n)
  BY <1>2, SlabIs
<1>5. d.n = n
  BY <1>3, <1>4, UnitsAre DEF PartLies
<1>6. Lies(S, th + d.off, Slab(x)) /\ d.off \in Nat
  BY <1>3 DEF PartLies, HeapDescs
<1>7. FoundIn(S, "slab", n, d.off, th) = Right(x)
  BY <1>4, <1>6, FoundUnits
<1> QED
  BY <1>5, <1>7 DEF x

\* What a tile with a blob decodes to.
LEMMA BlobFound ==
  ASSUME NEW S, IsSeq(S), NEW th \in Nat, NEW lim, NEW tab \in Seq(TableRows), NEW i \in 1..Tiles(Len(tab)),
         NEW cs, NEW D \in [1..Len(tab) -> CellDescs],
         NEW d \in HeapDescs, BlobSpells(cs, S, th, lim, d, i, tab, D), d.n # 0
  PROVE  FoundIn(S, "blob", d.n, d.off, th) = Right(DescsOf(D, i, Len(tab)))
<1> DEFINE y == DescsOf(D, i, Len(tab))
<1>2. y \in Seq(CellDescs)
  BY TilePartsAre
<1>3. PartLies(S, th, lim, d, Blob(y))
  BY DEF BlobSpells
<1> HIDE DEF y
<1>4. PICK n \in Nat \ {0} : Blob(y) = Units("blob", y, n)
  BY <1>2, BlobIs
<1>5. d.n = n
  BY <1>3, <1>4, UnitsAre DEF PartLies
<1>6. Lies(S, th + d.off, Blob(y)) /\ d.off \in Nat
  BY <1>3 DEF PartLies, HeapDescs
<1>7. FoundIn(S, "blob", n, d.off, th) = Right(y)
  BY <1>4, <1>6, FoundUnits
<1> QED
  BY <1>5, <1>7 DEF y

\* What a cell decodes to.
LEMMA CellFound ==
  ASSUME NEW S, IsSeq(S), NEW th \in Nat, NEW lim, NEW e \in CellDescs, NEW v \in Seq(Nat),
         CellLies(S, th, lim, e, v)
  PROVE  /\ CellIn(S, e, th) = Right(v)
         /\ SubSeq(S, th + e.cs + 1, th + e.cs + e.cn) = Cell(v)
<1>1. e.n = Len(v) /\ e.cn = Len(Cell(v)) /\ Lies(S, th + e.cs, Cell(v)) /\ e.cs \in Nat /\ th + e.cs \in Nat
  BY DEF CellLies, CellDescs
<1>2. PICK n \in Nat : /\ Cell(v) = Units(IF n = Len(v) THEN "raw" ELSE "cell", v, n)
                       /\ v # <<>> => n # 0
  BY CellIs
<1>3. IsSeq(Cell(v)) /\ Len(Cell(v)) = n
  BY <1>2, UnitsAre
<1>4. SubSeq(S, th + e.cs + 1, th + e.cs + e.cn) = Cell(v)
  BY <1>1, <1>3, LiesIsPart
<1>5. CellIn(S, e, th) = Right(v)
  <2>1. CASE e.n = 0
    <3>1. v = <<>>
      BY <1>1, <2>1, EmptySeq
    <3> QED
      BY <2>1, <3>1 DEF CellIn, Right
  <2>2. CASE e.n # 0
    <3>1. v # <<>> /\ n \in Nat \ {0} /\ e.cn = n
      BY <1>1, <1>2, <1>3, <2>2
    <3> DEFINE kind == IF e.cn = e.n THEN "raw" ELSE "cell"
    <3>2. Cell(v) = Units(kind, v, n)
      BY <1>1, <1>2, <3>1
    <3> HIDE DEF kind
    <3>4. FoundIn(S, kind, n, e.cs, th) = Right(v)
      BY <1>1, <3>1, <3>2, FoundUnits
    <3>3. FoundIn(S, IF e.cn = e.n THEN "raw" ELSE "cell", n, e.cs, th) = Right(v)
      BY <3>4 DEF kind
    <3> QED
      BY <2>2, <3>1, <3>3 DEF CellIn
  <2> QED
    BY <2>1, <2>2
<1> QED
  BY <1>4, <1>5

Holds(cs, S, th, lim, main, tab, D) ==
    /\ IsSeq(S) /\ th \in Nat /\ tab \in Seq(TableRows) /\ D \in [1..Len(tab) -> CellDescs]
    /\ \A i \in 1..Tiles(Len(tab)) : main[i] \in TileDescs
    /\ Content(cs, S, th, lim, main, tab, D)

\* What the tiles of the content decode to.
LEMMA TilesFound ==
  ASSUME NEW cs, NEW S, NEW th, NEW lim, NEW main, NEW tab, NEW D, Holds(cs, S, th, lim, main, tab, D),
         NEW i \in 1..Tiles(Len(tab))
  PROVE  /\ TileIn(S, main, "f", i, Len(tab), th) =
              Decoded(main[i].f, SlabOf(tab, i))
         /\ TileIn(S, main, "v", i, Len(tab), th) =
              Decoded(main[i].v, DescsOf(D, i, Len(tab)))
<1>0. /\ main[i].f \in HeapDescs /\ main[i].v \in HeapDescs
      /\ IsSeq(S) /\ th \in Nat /\ tab \in Seq(TableRows) /\ D \in [1..Len(tab) -> CellDescs]
  BY DEF TileDescs, Holds
<1>1. SlabSpells(S, th, lim, main[i].f, i, tab) /\ BlobSpells(cs, S, th, lim, main[i].v, i, tab, D)
  BY DEF Content, Holds
<1>2. Len(SlabOf(tab, i)) = TileLen(i, Len(tab)) /\ Len(DescsOf(D, i, Len(tab))) = TileLen(i, Len(tab))
  BY <1>0, TilePartsAre
<1> DEFINE f == FoundIn(S, "slab", main[i].f.n, main[i].f.off, th)
           v == FoundIn(S, "blob", main[i].v.n, main[i].v.off, th)
<1>3. f = Decoded(main[i].f, SlabOf(tab, i))
  BY <1>0, <1>1, SlabFound, NothingFound DEF Decoded
<1>4. v = Decoded(main[i].v, DescsOf(D, i, Len(tab)))
  BY <1>0, <1>1, BlobFound, NothingFound DEF Decoded
<1>5. /\ TileIn(S, main, "f", i, Len(tab), th) = IF f.ok /\ Len(f.of) = TileLen(i, Len(tab)) THEN f ELSE Wrong
      /\ TileIn(S, main, "v", i, Len(tab), th) = IF v.ok /\ Len(v.of) = TileLen(i, Len(tab)) THEN v ELSE Wrong
  BY DEF TileIn
<1> HIDE DEF f, v
<1>6. TileIn(S, main, "f", i, Len(tab), th) =
              Decoded(main[i].f, SlabOf(tab, i))
  BY <1>2, <1>3, <1>5 DEF Wrong, Right, Decoded
<1>7. TileIn(S, main, "v", i, Len(tab), th) =
              Decoded(main[i].v, DescsOf(D, i, Len(tab)))
  BY <1>2, <1>4, <1>5 DEF Wrong, Right, Decoded
<1> QED
  BY <1>6, <1>7

-----------------------------------------------------------------------------
(* Cells one behind the other.                                             *)

\* Two sequences, one behind the other.
LEMMA ConcatIs ==
  ASSUME NEW s, NEW t, IsSeq(s), IsSeq(t)
  PROVE  /\ IsSeq(s \o t) /\ Len(s \o t) = Len(s) + Len(t)
         /\ \A q \in 1..Len(s) : (s \o t)[q] = s[q]
         /\ \A q \in 1..Len(t) : (s \o t)[Len(s) + q] = t[q]
<1> DEFINE A == {s[i] : i \in DOMAIN s}
           B == {t[i] : i \in DOMAIN t}
           T == A \cup B
<1>1. s \in Seq(A) /\ t \in Seq(B)
  BY DEF IsSeq
<1> HIDE DEF A, B
<1>2. A \subseteq T /\ B \subseteq T
  OBVIOUS
<1> HIDE DEF T
<1>3. s \in Seq(T) /\ t \in Seq(T)
  BY <1>1, <1>2
<1>4. /\ s \o t \in Seq(T)
      /\ Len(s \o t) = Len(s) + Len(t)
      /\ \A i \in 1..Len(s) : (s \o t)[i] = s[i]
      /\ \A i \in (Len(s) + 1)..(Len(s) + Len(t)) : (s \o t)[i] = t[i - Len(s)]
  BY <1>3, ConcatTyped
<1>5. Len(s) \in Nat /\ Len(t) \in Nat
  BY <1>3
<1>6. ASSUME NEW q \in 1..Len(t) PROVE (s \o t)[Len(s) + q] = t[q]
  <2>1. Len(s) + q \in (Len(s) + 1)..(Len(s) + Len(t)) /\ Len(s) + q - Len(s) = q
    BY <1>5
  <2> DEFINE u == s \o t
  <2>2. \A i \in (Len(s) + 1)..(Len(s) + Len(t)) : u[i] = t[i - Len(s)]
    BY <1>4
  <2> HIDE DEF u
  <2>3. u[Len(s) + q] = t[q]
    BY <2>1, <2>2
  <2> QED
    BY <2>3 DEF u
<1>7. IsSeq(s \o t)
  BY <1>4, TypedIsSeq
<1> QED
  BY <1>4, <1>6, <1>7

\* What lies in the second one lies behind the first.
LEMMA LiesInConcat ==
  ASSUME NEW s, NEW t, IsSeq(s), IsSeq(t), NEW u, IsSeq(u), NEW p \in Nat
  PROVE  /\ Lies(s, p, u) => Lies(s \o t, p, u)
         /\ Lies(t, p, u) => Lies(s \o t, Len(s) + p, u)
<1> DEFINE w == s \o t
<1>1. Len(s) \in Nat /\ Len(t) \in Nat /\ Len(u) \in Nat
  BY SeqIsFun
<1>2. Len(w) = Len(s) + Len(t) /\ (\A q \in 1..Len(s) : w[q] = s[q]) /\ \A q \in 1..Len(t) : w[Len(s) + q] = t[q]
  BY ConcatIs
<1> HIDE DEF w
<1>3. ASSUME Lies(s, p, u), NEW q \in 1..Len(u) PROVE p + q <= Len(w) /\ w[p + q] = u[q]
  <2>1. p + q <= Len(s) /\ s[p + q] = u[q]
    BY <1>3 DEF Lies
  <2>2. p + q \in 1..Len(s) /\ p + q <= Len(w)
    BY <1>1, <1>2, <2>1
  <2> QED
    BY <1>2, <2>1, <2>2
<1>4. ASSUME Lies(t, p, u), NEW q \in 1..Len(u)
      PROVE  Len(s) + p + q <= Len(w) /\ w[Len(s) + p + q] = u[q]
  <2>1. p + q <= Len(t) /\ t[p + q] = u[q]
    BY <1>4 DEF Lies
  <2>2. p + q \in 1..Len(t) /\ Len(s) + p + q <= Len(w) /\ Len(s) + p + q = Len(s) + (p + q)
    BY <1>1, <1>2, <2>1
  <2> QED
    BY <1>2, <2>1, <2>2
<1> QED
  BY <1>3, <1>4 DEF Lies, w

\* Units lie in themselves.
LEMMA LiesInItself ==
  ASSUME NEW s, IsSeq(s)
  PROVE  Lies(s, 0, s)
<1>1. Len(s) \in Nat
  BY SeqIsFun
<1>2. \A q \in 1..Len(s) : 0 + q = q /\ q <= Len(s)
  BY <1>1
<1> QED
  BY <1>2 DEF Lies

LengthsOf(us) == [j \in DOMAIN us |-> Len(us[j])]

\* Where the parts of a flattened sequence lie.
LEMMA FlattenPlaces ==
  ASSUME NEW m \in Nat, NEW us, us = [j \in 1..m |-> us[j]], \A j \in 1..m : IsSeq(us[j])
  PROVE  /\ IsSeq(FlattenSeq(us)) /\ Len(FlattenSeq(us)) = SumTo(LengthsOf(us), m)
         /\ \A j \in 1..m : /\ SumTo(LengthsOf(us), j - 1) \in Nat
                            /\ SumTo(LengthsOf(us), j - 1) + Len(us[j]) <= SumTo(LengthsOf(us), m)
                            /\ Lies(FlattenSeq(us), SumTo(LengthsOf(us), j - 1), us[j])
<1> DEFINE R(j) == {us[j][q] : q \in DOMAIN us[j]}
           T == UNION {R(j) : j \in 1..m}
           B == Seq(T)
           w == LengthsOf(us)
<1>0. DOMAIN us = 1..m
  OBVIOUS
<1>1. \A j \in 1..m : us[j] \in B
  <2> SUFFICES ASSUME NEW j \in 1..m PROVE us[j] \in B
    OBVIOUS
  <2>1. us[j] \in Seq(R(j))
    BY DEF IsSeq
  <2>2. R(j) \subseteq T
    OBVIOUS
  <2> HIDE DEF R, T
  <2> QED
    BY <2>1, <2>2
<1> HIDE DEF T
<1>2. us \in Seq(B) /\ Len(us) = m
  <2> HIDE DEF B
  <2>1. us \in [1..m -> B]
    BY <1>1
  <2>2. us \in Seq(B)
    BY <2>1
  <2>3. Len(us) \in Nat /\ DOMAIN us = 1..Len(us)
    BY <2>2
  <2>4. Len(us) = m
    BY <1>0, <2>3
  <2> QED
    BY <2>2, <2>4
<1>3. PICK f \in [0..m -> B] :
           /\ f[0] = <<>>
           /\ \A i \in 1..m : f[i] = f[i - 1] \o us[i]
           /\ FlattenSeq(us) = f[m]
  BY <1>2, FlattenSeqUnfolds
<1>4. \A i \in 0..m : IsSeq(f[i])
  BY <1>3, TypedIsSeq
<1> HIDE DEF B
<1>5. \A j \in 1..m : w[j] = Len(us[j]) /\ w[j] \in Nat
  BY <1>0, SeqIsFun DEF LengthsOf
<1> HIDE DEF w
<1>6. /\ \A n \in 0..m : SumTo(w, n) \in Nat
      /\ \A n \in 1..m : SumTo(w, n) = SumTo(w, n - 1) + w[n]
      /\ \A k, n \in 0..m : k <= n => SumTo(w, k) <= SumTo(w, n)
  BY <1>5, SumToNat
<1> DEFINE Q(k) == /\ Len(f[k]) = SumTo(w, k)
                   /\ \A j \in 1..k : Lies(f[k], SumTo(w, j - 1), us[j])
           P == {k \in Nat : k <= m => Q(k)}
<1>7. 0 \in P
  <2>1. Len(f[0]) = 0
    BY <1>3
  <2>2. Q(0)
    BY <2>1, SumToUnfolds
  <2> HIDE DEF Q
  <2> QED
    BY <2>2
<1>8. ASSUME NEW k \in Nat, k \in P PROVE k + 1 \in P
  <2> HIDE DEF Q
  <2> SUFFICES ASSUME k + 1 <= m PROVE Q(k + 1)
    OBVIOUS
  <2>0. Q(k)
    BY <1>8
  <2> HIDE DEF P
  <2>1. /\ Len(f[k]) = SumTo(w, k) /\ \A j \in 1..k : Lies(f[k], SumTo(w, j - 1), us[j])
    BY <2>0 DEF Q
  <2>2. k + 1 \in 1..m /\ k \in 0..m /\ k + 1 - 1 = k
    OBVIOUS
  <2>3. f[k + 1] = f[k] \o us[k + 1] /\ IsSeq(f[k]) /\ IsSeq(us[k + 1])
    <3> DEFINE i == k + 1
    <3>1. i \in 1..m /\ i - 1 = k
      BY <2>2
    <3> HIDE DEF i
    <3>2. f[i] = f[i - 1] \o us[i] /\ IsSeq(us[i])
      BY <1>3, <3>1
    <3> QED
      BY <1>4, <2>2, <3>1, <3>2 DEF i
  <2>4. Len(f[k + 1]) = SumTo(w, k + 1)
    <3>1. Len(f[k + 1]) = Len(f[k]) + Len(us[k + 1])
      BY <2>3, ConcatIs
    <3>2. SumTo(w, k + 1) = SumTo(w, k + 1 - 1) + w[k + 1]
      BY <1>6, <2>2
    <3> QED
      BY <1>5, <2>1, <2>2, <3>1, <3>2
  <2>5. ASSUME NEW j \in 1..(k + 1) PROVE Lies(f[k + 1], SumTo(w, j - 1), us[j])
    <3>1. CASE j = k + 1
      <4>1. Lies(us[k + 1], 0, us[k + 1])
        BY <2>3, LiesInItself
      <4>2. Lies(f[k] \o us[k + 1], Len(f[k]) + 0, us[k + 1])
        BY <2>3, <4>1, LiesInConcat
      <4>3. Len(f[k]) + 0 = SumTo(w, k)
        BY <1>6, <2>1, <2>2
      <4> QED
        BY <2>2, <2>3, <3>1, <4>2, <4>3
    <3>2. CASE j # k + 1
      <4>1. j \in 1..k /\ j \in 1..m /\ j - 1 \in 0..m
        BY <2>2, <3>2
      <4>2. Lies(f[k], SumTo(w, j - 1), us[j]) /\ IsSeq(us[j]) /\ SumTo(w, j - 1) \in Nat
        BY <1>6, <2>1, <4>1
      <4> QED
        BY <2>3, <4>2, LiesInConcat
    <3> QED
      BY <3>1, <3>2
  <2> QED
    BY <2>4, <2>5 DEF Q
<1>9. \A k \in Nat : k \in P
  <2> HIDE DEF P
  <2> QED
    BY <1>7, <1>8, SetInduction
<1>10. Q(m)
  <2> HIDE DEF Q
  <2>1. m \in P
    BY <1>9
  <2> QED
    BY <2>1
<1>11. Len(f[m]) = SumTo(w, m) /\ \A j \in 1..m : Lies(f[m], SumTo(w, j - 1), us[j])
  BY <1>10
<1>12. ASSUME NEW j \in 1..m
       PROVE  SumTo(w, j - 1) \in Nat /\ SumTo(w, j - 1) + Len(us[j]) <= SumTo(w, m)
  <2>1. j - 1 \in 0..m /\ j \in 0..m /\ m \in 0..m /\ j <= m
    OBVIOUS
  <2>2. SumTo(w, j - 1) \in Nat /\ SumTo(w, j) = SumTo(w, j - 1) + w[j] /\ SumTo(w, j) <= SumTo(w, m)
    BY <1>6, <2>1
  <2> QED
    BY <1>5, <2>2
<1>13. IsSeq(f[m])
  BY <1>4
<1> QED
  BY <1>3, <1>11, <1>12, <1>13 DEF w

\* A part of what lies in S lies in S.
LEMMA LiesWithin ==
  ASSUME NEW S, NEW u, IsSeq(u), NEW w, IsSeq(w), NEW p \in Nat, NEW q \in Nat,
         Lies(S, p, u), Lies(u, q, w)
  PROVE  Lies(S, p + q, w)
<1>1. Len(u) \in Nat /\ Len(w) \in Nat
  BY SeqIsFun
<1> SUFFICES ASSUME NEW k \in 1..Len(w) PROVE p + q + k <= Len(S) /\ S[p + q + k] = w[k]
  BY DEF Lies
<1>2. q + k <= Len(u) /\ u[q + k] = w[k]
  BY DEF Lies
<1>3. q + k \in 1..Len(u) /\ p + q + k = p + (q + k)
  BY <1>1, <1>2
<1>4. p + (q + k) <= Len(S) /\ S[p + (q + k)] = u[q + k]
  BY <1>3 DEF Lies
<1> QED
  BY <1>2, <1>3, <1>4

\* The cells vs, with the lengths and the original places of.
CellsToLay(m, vs, us, of) ==
    /\ m \in Nat /\ vs \in [1..m -> Seq(Nat)] /\ us = [j \in 1..m |-> Cell(vs[j])]
    /\ \A j \in 1..m : of[j].n = Len(vs[j]) /\ of[j].orig \in Nat

\* The units of the cells of a tile are sequences.
LEMMA UnitsToLay ==
  ASSUME NEW m, NEW vs, NEW us, NEW of, CellsToLay(m, vs, us, of)
  PROVE  /\ m \in Nat /\ DOMAIN us = 1..m /\ us = [j \in 1..m |-> us[j]]
         /\ \A j \in 1..m : /\ us[j] = Cell(vs[j]) /\ vs[j] \in Seq(Nat) /\ IsSeq(us[j]) /\ Len(us[j]) \in Nat
                            /\ LengthsOf(us)[j] = Len(us[j])
<1>1. us = [j \in 1..m |-> Cell(vs[j])] /\ m \in Nat /\ \A j \in 1..m : vs[j] \in Seq(Nat)
  BY DEF CellsToLay
<1>2. DOMAIN us = 1..m /\ \A j \in 1..m : us[j] = Cell(vs[j])
  BY <1>1
<1>3. us = [j \in 1..m |-> us[j]]
  BY <1>1
<1>4. \A j \in 1..m : IsSeq(Cell(vs[j]))
  <2> SUFFICES ASSUME NEW j \in 1..m PROVE IsSeq(Cell(vs[j]))
    OBVIOUS
  <2>1. PICK n \in Nat : Cell(vs[j]) = Units(IF n = Len(vs[j]) THEN "raw" ELSE "cell", vs[j], n)
    BY <1>1, CellIs
  <2> QED
    BY <2>1, UnitsAre
<1>5. \A j \in 1..m : IsSeq(us[j]) /\ Len(us[j]) \in Nat
  BY <1>2, <1>4, SeqIsFun
<1>6. \A j \in 1..m : LengthsOf(us)[j] = Len(us[j])
  BY <1>2 DEF LengthsOf
<1> QED
  BY <1>1, <1>2, <1>3, <1>5, <1>6

\* The descriptors that Laid makes.
LEMMA LaidTyped ==
  ASSUME NEW m, NEW vs, NEW us, NEW of, CellsToLay(m, vs, us, of), NEW cur \in Nat
  PROVE  LET l == Laid(us, of, cur)
         IN  /\ IsSeq(l.units) /\ l.units = FlattenSeq(us) /\ l.descs \in [1..m -> CellDescs]
             /\ \A j \in 1..m : /\ l.descs[j].n = Len(vs[j]) /\ l.descs[j].orig = of[j].orig
                                /\ l.descs[j].cn = Len(Cell(vs[j]))
                                /\ l.descs[j].cs = IF Len(us[j]) = 0 THEN 0
                                                   ELSE cur + SumTo(LengthsOf(us), j - 1)
<1> DEFINE w == LengthsOf(us)
           D == [j \in DOMAIN us |-> [n |-> of[j].n, orig |-> of[j].orig, cn |-> w[j],
                                      cs |-> IF w[j] = 0 THEN 0 ELSE cur + SumTo(w, j - 1)]]
<1>1. Laid(us, of, cur) = [units |-> FlattenSeq(us), descs |-> D]
  BY DEF Laid, LengthsOf
<1>2. /\ m \in Nat /\ DOMAIN us = 1..m /\ us = [j \in 1..m |-> us[j]]
      /\ \A j \in 1..m : /\ us[j] = Cell(vs[j]) /\ vs[j] \in Seq(Nat) /\ IsSeq(us[j]) /\ Len(us[j]) \in Nat
                         /\ w[j] = Len(us[j])
  BY UnitsToLay
<1>3. IsSeq(FlattenSeq(us)) /\ \A j \in 1..m : SumTo(w, j - 1) \in Nat
  BY <1>2, FlattenPlaces
<1> HIDE DEF w
<1>4. ASSUME NEW j \in 1..m
      PROVE  /\ D[j] \in CellDescs /\ D[j].n = Len(vs[j]) /\ D[j].orig = of[j].orig
             /\ D[j].cn = Len(Cell(vs[j]))
             /\ D[j].cs = IF Len(us[j]) = 0 THEN 0 ELSE cur + SumTo(w, j - 1)
  <2>1. D[j] = [n |-> of[j].n, orig |-> of[j].orig, cn |-> w[j],
                cs |-> IF w[j] = 0 THEN 0 ELSE cur + SumTo(w, j - 1)]
    BY <1>2
  <2>2. of[j].n = Len(vs[j]) /\ of[j].n \in Nat /\ of[j].orig \in Nat
    BY <1>2 DEF CellsToLay
  <2>3. w[j] \in Nat /\ w[j] = Len(us[j]) /\ w[j] = Len(Cell(vs[j])) /\ SumTo(w, j - 1) \in Nat
    BY <1>2, <1>3
  <2>4. (IF w[j] = 0 THEN 0 ELSE cur + SumTo(w, j - 1)) \in Nat
    BY <2>3
  <2> HIDE DEF D
  <2>5. D[j] \in CellDescs
    BY <2>1, <2>2, <2>3, <2>4 DEF CellDescs
  <2> QED
    BY <2>1, <2>2, <2>3, <2>5
<1>5. DOMAIN D = 1..m /\ D = [j \in 1..m |-> D[j]]
  BY <1>2
<1> HIDE DEF D
<1>6. D \in [1..m -> CellDescs]
  BY <1>4, <1>5
<1> QED
  BY <1>1, <1>3, <1>4, <1>6 DEF w

\* Where the units lie, every descriptor leads to its cell.
LEMMA LaidLies ==
  ASSUME NEW m, NEW vs, NEW us, NEW of, CellsToLay(m, vs, us, of), NEW cur \in Nat,
         NEW S, NEW th \in Nat, NEW lim \in Nat,
         Lies(S, th + cur, Laid(us, of, cur).units), cur + Len(Laid(us, of, cur).units) <= lim,
         NEW j \in 1..m
  PROVE  CellLies(S, th, lim, Laid(us, of, cur).descs[j], vs[j])
<1> DEFINE w == LengthsOf(us)
           l == Laid(us, of, cur)
           e == l.descs[j]
           o == SumTo(w, j - 1)
           z == SumTo(w, m)
<1>1. /\ us = [k \in 1..m |-> us[k]] /\ m \in Nat /\ \A k \in 1..m : IsSeq(us[k])
      /\ us[j] = Cell(vs[j]) /\ Len(us[j]) \in Nat /\ IsSeq(us[j])
  BY UnitsToLay
<1>2. /\ l.units = FlattenSeq(us) /\ IsSeq(l.units) /\ e \in CellDescs
      /\ e.n = Len(vs[j]) /\ e.cn = Len(Cell(vs[j]))
      /\ e.cs = IF Len(us[j]) = 0 THEN 0 ELSE cur + o
  <2>1. /\ IsSeq(l.units) /\ l.units = FlattenSeq(us) /\ l.descs \in [1..m -> CellDescs]
        /\ \A k \in 1..m : /\ l.descs[k].n = Len(vs[k]) /\ l.descs[k].orig = of[k].orig
                           /\ l.descs[k].cn = Len(Cell(vs[k]))
                           /\ l.descs[k].cs = IF Len(us[k]) = 0 THEN 0 ELSE cur + SumTo(w, k - 1)
    BY LaidTyped
  <2> HIDE DEF l, w
  <2> QED
    BY <2>1
<1>3. Len(FlattenSeq(us)) = z /\ o \in Nat /\ o + Len(us[j]) <= z /\ Lies(FlattenSeq(us), o, us[j])
  BY <1>1, FlattenPlaces
<1> HIDE DEF l, e, w, o, z
<1>4. Len(l.units) \in Nat
  BY <1>2, SeqIsFun
<1>5. e.cs + e.cn <= lim
  <2>1. cur + Len(l.units) <= lim /\ Len(l.units) = z /\ e.cn = Len(us[j])
    BY <1>1, <1>2, <1>3 DEF l
  <2> QED
    BY <1>1, <1>2, <1>3, <1>4, <2>1
<1>6. Lies(S, th + e.cs, Cell(vs[j]))
  <2>1. CASE Len(us[j]) = 0
    BY <1>1, <2>1 DEF Lies
  <2>2. CASE Len(us[j]) # 0
    <3>1. e.cs = cur + o /\ th + e.cs = th + cur + o /\ th + cur \in Nat
      BY <1>2, <1>3, <2>2
    <3>2. Lies(S, th + cur, l.units) /\ Lies(l.units, o, us[j])
      BY <1>2, <1>3 DEF l
    <3>3. Lies(S, th + cur + o, us[j])
      BY <1>1, <1>2, <1>3, <3>1, <3>2, LiesWithin
    <3> QED
      BY <1>1, <3>1, <3>3
  <2> QED
    BY <2>1, <2>2
<1>7. CellLies(S, th, lim, e, vs[j])
  BY <1>2, <1>5, <1>6 DEF CellLies
<1> QED
  BY <1>7 DEF e, l

-----------------------------------------------------------------------------
(* The rows after a call.                                                  *)

\* The rows that are written are rows of a table, and zero is none of their cells.
LEMMA RowValsAre ==
  ASSUME NEW x \in RowVals
  PROVE  /\ x.f \in Nat /\ x.f # 0 /\ x.v \in Seq(Nat) /\ x.v # NoCell /\ Len(x.v) \in Nat
         /\ Row(x) = [f |-> x.f, v |-> IF "v" \in cols THEN x.v ELSE <<>>] /\ Row(x) \in TableRows
<1>1. x \in [f : Nat \ {0}, v : Seq(Nat \ {0})]
  BY RowsAssumption
<1>2. x.f \in Nat /\ x.f # 0 /\ x.v \in Seq(Nat \ {0})
  BY <1>1
<1>3. x.v \in Seq(Nat) /\ Len(x.v) \in Nat
  BY <1>2
<1>4. x.v # NoCell
  <2> SUFFICES ASSUME x.v = NoCell PROVE FALSE
    OBVIOUS
  <2>1. Len(x.v) = 1 /\ x.v[1] = 0
    BY DEF NoCell
  <2>2. 1 \in 1..Len(x.v)
    BY <2>1
  <2>3. x.v[1] \in Nat \ {0}
    BY <1>2, <2>2, ElementOfSeq
  <2> QED
    BY <2>1, <2>3
<1>5. Row(x) = [f |-> x.f, v |-> IF "v" \in cols THEN x.v ELSE <<>>]
  BY <1>1 DEF Row
<1>6. (IF "v" \in cols THEN x.v ELSE <<>>) \in Seq(Nat)
  BY <1>3
<1> QED
  BY <1>2, <1>3, <1>4, <1>5, <1>6 DEF TableRows

\* The last edit of a row, or none.
LEMMA LastEditIs ==
  ASSUME NEW c, NEW T, c.at \in Seq(T), NEW r
  PROVE  LET k == LastEdit(c, r) IN k \in 0..Len(c.at) /\ (k # 0 => c.at[k] = r)
<1> DEFINE I == {k \in 1..Len(c.at) : c.at[k] = r}
           k == LastEdit(c, r)
<1>1. k = IF I # {} THEN Max(I) ELSE 0
  BY DEF LastEdit, SelectLastInSeq
<1>2. Len(c.at) \in Nat
  OBVIOUS
<1>3. I \subseteq 0..Len(c.at)
  OBVIOUS
<1>4. \A q \in I : q \in 1..Len(c.at) /\ c.at[q] = r
  OBVIOUS
<1> HIDE DEF I, k
<1>5. I # {} => Max(I) \in I
  BY <1>2, <1>3, MaxIs
<1>6. CASE I # {}
  BY <1>1, <1>2, <1>4, <1>5, <1>6 DEF k
<1>7. CASE I = {}
  BY <1>1, <1>2, <1>7 DEF k
<1> QED
  BY <1>6, <1>7

\* The parts of a call that the lemmas use.
LEMMA CallParts ==
  ASSUME Typed, NEW c, CallOK(c)
  PROVE  /\ c.op \in {"write", "append", "setitem"} /\ c.cs \subseteq cols /\ c.cards = cards
         /\ c.data \in Seq(RowVals) /\ Len(c.data) \in Nat /\ DOMAIN c.data = 1..Len(c.data)
         /\ \A k \in 1..Len(c.data) : c.data[k] \in RowVals
         /\ c.at \in Seq(1..cards.rows) /\ Len(c.at) \in Nat /\ DOMAIN c.at = 1..Len(c.at)
         /\ c.main \in Seq(TileDescs) /\ Len(c.main) = c.theap /\ c.theap = Tiles(RowsAfter(c)) /\ c.theap \in Nat
         /\ c.cur \in Nat /\ c.zp \in Nat /\ RowsAfter(c) \in Nat /\ Kept(c) \in Nat
         /\ cards.rows \in Nat /\ cards.tiles \in Nat /\ cards.pcount \in Nat /\ cards.zpcount \in Nat
         /\ table \in Seq(TableRows) /\ Len(table) = cards.rows /\ cards.tiles = Tiles(cards.rows)
         /\ \A r \in 1..cards.rows : table[r] \in TableRows
<1>1. c \in Calls /\ c.theap = Tiles(RowsAfter(c)) /\ Len(c.main) = c.theap
  BY DEF CallOK
<1>2. /\ c.op \in {"write", "append", "setitem"} /\ c.cs \subseteq cols /\ c.cards = cards
      /\ c.data \in Seq(RowVals) /\ c.at \in Seq(1..cards.rows)
      /\ c.main \in Seq(TileDescs) /\ c.theap \in Nat /\ c.cur \in Nat /\ c.zp \in Nat
  BY <1>1 DEF Calls
<1>3. cards \in [rows : Nat, tiles : Nat, pcount : Nat, zpcount : Nat] /\ cards.tiles = Tiles(cards.rows)
      /\ table \in Seq(TableRows) /\ Len(table) = cards.rows
  BY DEF Typed
<1>4. cards.rows \in Nat /\ cards.tiles \in Nat /\ cards.pcount \in Nat /\ cards.zpcount \in Nat
  BY <1>3
<1>5. Len(c.data) \in Nat /\ DOMAIN c.data = 1..Len(c.data) /\ Len(c.at) \in Nat /\ DOMAIN c.at = 1..Len(c.at)
  BY <1>2
<1>6. \A k \in 1..Len(c.data) : c.data[k] \in RowVals
  BY <1>2, ElementOfSeq
<1>7. \A r \in 1..cards.rows : table[r] \in TableRows
  BY <1>3, ElementOfSeq
<1>8. RowsAfter(c) \in Nat /\ Kept(c) \in Nat
  BY <1>2, <1>4, <1>5 DEF RowsAfter, Kept
<1> QED
  BY <1>1, <1>2, <1>3, <1>4, <1>5, <1>6, <1>7, <1>8

\* write and append: the rows that are kept, then those of the data.
LEMMA ResultNew ==
  ASSUME Typed, NEW c, CallOK(c), c.op # "setitem"
  PROVE  /\ Result(c) \in Seq(TableRows) /\ Len(Result(c)) = RowsAfter(c)
         /\ RowsAfter(c) = Kept(c) + Len(c.data)
         /\ \A r \in 1..RowsAfter(c) :
              /\ r <= Kept(c) => c.op = "append" /\ r \in 1..cards.rows /\ Result(c)[r] = table[r]
              /\ r > Kept(c) => /\ r - Kept(c) \in 1..Len(c.data)
                                /\ Result(c)[r] = Row(c.data[r - Kept(c)])
<1>0. /\ c.op \in {"write", "append", "setitem"} /\ c.cards = cards
      /\ Len(c.data) \in Nat /\ DOMAIN c.data = 1..Len(c.data)
      /\ \A k \in 1..Len(c.data) : c.data[k] \in RowVals
      /\ cards.rows \in Nat /\ table \in Seq(TableRows) /\ Len(table) = cards.rows
  BY CallParts
<1> DEFINE new == [k \in DOMAIN c.data |-> Row(c.data[k])]
           m == Len(c.data)
<1>1. new = [k \in 1..m |-> Row(c.data[k])]
  BY <1>0
<1> HIDE DEF new
<1>2. \A k \in 1..m : new[k] = Row(c.data[k]) /\ Row(c.data[k]) \in TableRows
  BY <1>0, <1>1, RowValsAre
<1>3. new \in [1..m -> TableRows]
  BY <1>1, <1>2
<1>4. new \in Seq(TableRows) /\ Len(new) = m
  <2>1. new \in Seq(TableRows)
    BY <1>0, <1>3
  <2>2. Len(new) \in Nat /\ DOMAIN new = 1..Len(new) /\ DOMAIN new = 1..m
    BY <1>3, <2>1
  <2> QED
    BY <1>0, <2>1, <2>2
<1>5. CASE c.op = "write"
  <2>1. Kept(c) = 0 /\ RowsAfter(c) = cards.rows /\ m = cards.rows
    BY <1>0, <1>5 DEF Kept, RowsAfter, CallOK
  <2>2. Result(c) = new
    BY <1>5 DEF Result, new
  <2> HIDE DEF m
  <2>3. \A r \in 1..m : r - 0 = r /\ ~(r <= 0) /\ r > 0
    BY <1>0
  <2>4. m = 0 + m
    BY <1>0 DEF m
  <2>5. \A r \in 1..m : r - 0 \in 1..m /\ Result(c)[r] = Row(c.data[r - 0])
    BY <1>2, <2>2, <2>3
  <2> QED
    BY <1>4, <2>1, <2>2, <2>3, <2>4, <2>5 DEF m
<1>6. CASE c.op = "append"
  <2>1. Kept(c) = cards.rows /\ RowsAfter(c) = cards.rows + m
    BY <1>0, <1>6 DEF Kept, RowsAfter
  <2>2. Result(c) = table \o new
    BY <1>6 DEF Result, new
  <2> DEFINE n == cards.rows
             t == table \o new
  <2>3. /\ t \in Seq(TableRows) /\ Len(t) = n + m /\ \A r \in 1..n : t[r] = table[r]
        /\ \A r \in (n + 1)..(n + m) : t[r] = new[r - n]
    <3>0. table \in Seq(TableRows) /\ new \in Seq(TableRows)
      BY <1>0, <1>4
    <3>1. /\ t \in Seq(TableRows) /\ Len(t) = Len(table) + Len(new)
          /\ \A r \in 1..Len(table) : t[r] = table[r]
          /\ \A r \in (Len(table) + 1)..(Len(table) + Len(new)) : t[r] = new[r - Len(table)]
      BY <3>0, ConcatTyped
    <3> HIDE DEF t, m
    <3> QED
      BY <1>0, <1>4, <3>1
  <2> HIDE DEF t, n, m
  <2>4. n \in Nat /\ m \in Nat
    BY <1>0 DEF n, m
  <2>5. ASSUME NEW r \in 1..(n + m)
        PROVE  /\ r <= n => r \in 1..n /\ t[r] = table[r]
               /\ r > n => r - n \in 1..m /\ t[r] = Row(c.data[r - n])
    <3>1. CASE r <= n
      <4>1. r \in 1..n /\ ~(r > n)
        BY <2>4, <3>1
      <4> QED
        BY <2>3, <4>1
    <3>2. CASE r > n
      <4>1. r \in (n + 1)..(n + m) /\ r - n \in 1..m /\ ~(r <= n)
        BY <2>4, <3>2
      <4> QED
        BY <1>2, <2>3, <4>1
    <3> QED
      BY <2>4, <3>1, <3>2
  <2> QED
    BY <1>6, <2>1, <2>2, <2>3, <2>5 DEF t, n, m
<1> QED
  BY <1>0, <1>5, <1>6

\* setitem: the last edit of a row, and empty cells in a tile that had none.
LEMMA ResultSet ==
  ASSUME Typed, NEW c, CallOK(c), c.op = "setitem"
  PROVE  /\ Result(c) \in Seq(TableRows) /\ Len(Result(c)) = cards.rows
         /\ RowsAfter(c) = cards.rows /\ c.theap = cards.tiles
         /\ \A r \in 1..cards.rows :
              LET k == LastEdit(c, r) IN
              /\ k # 0 => k \in 1..Len(c.at) /\ k \in 1..Len(c.data) /\ c.at[k] = r /\ k \in TileEdits(c, TileOfRow(r))
              /\ Result(c)[r].f = IF k # 0 /\ "f" \in c.cs THEN c.data[k].f ELSE table[r].f
              /\ Result(c)[r].v = IF k # 0 /\ "v" \in c.cs THEN c.data[k].v
                                  ELSE IF table[r].v = NoCell /\ "v" \in c.cs /\ TileEdits(c, TileOfRow(r)) # {}
                                  THEN <<>> ELSE table[r].v
<1>0. /\ c.cards = cards /\ Len(c.data) \in Nat /\ \A k \in 1..Len(c.data) : c.data[k] \in RowVals
      /\ c.at \in Seq(1..cards.rows) /\ Len(c.at) \in Nat /\ DOMAIN c.at = 1..Len(c.at)
      /\ cards.rows \in Nat /\ table \in Seq(TableRows) /\ Len(table) = cards.rows /\ cards.tiles = Tiles(cards.rows)
      /\ \A r \in 1..cards.rows : table[r] \in TableRows
      /\ c.theap = Tiles(RowsAfter(c))
  BY CallParts
<1>1. Len(c.data) = Len(c.at)
  BY DEF CallOK
<1>2. RowsAfter(c) = cards.rows
  BY <1>0 DEF RowsAfter
<1> DEFINE Old(r) == IF table[r].v = NoCell /\ "v" \in c.cs /\ TileEdits(c, TileOfRow(r)) # {}
                     THEN <<>> ELSE table[r].v
           K(r) == LastEdit(c, r)
           New(r) == IF K(r) = 0 THEN [table[r] EXCEPT !.v = Old(r)]
                     ELSE [f |-> IF "f" \in c.cs THEN c.data[K(r)].f ELSE table[r].f,
                           v |-> IF "v" \in c.cs THEN c.data[K(r)].v ELSE Old(r)]
<1>3. DOMAIN table = 1..cards.rows
  BY <1>0
<1>4. Result(c) = [r \in 1..cards.rows |-> New(r)]
  BY <1>3 DEF Result
<1>5. ASSUME NEW r \in 1..cards.rows
      PROVE  /\ New(r) \in TableRows
             /\ K(r) # 0 => K(r) \in 1..Len(c.at) /\ K(r) \in 1..Len(c.data) /\ c.at[K(r)] = r
                            /\ K(r) \in TileEdits(c, TileOfRow(r))
             /\ New(r).f = IF K(r) # 0 /\ "f" \in c.cs THEN c.data[K(r)].f ELSE table[r].f
             /\ New(r).v = IF K(r) # 0 /\ "v" \in c.cs THEN c.data[K(r)].v ELSE Old(r)
  <2> DEFINE k == K(r)
             o == Old(r)
  <2>1. k \in 0..Len(c.at) /\ (k # 0 => c.at[k] = r)
    BY <1>0, LastEditIs
  <2>2. table[r] \in [f : Nat, v : Seq(Nat)]
    BY <1>0 DEF TableRows
  <2>3. o \in Seq(Nat)
    BY <2>2
  <2>4. New(r) = IF k = 0 THEN [table[r] EXCEPT !.v = o]
                 ELSE [f |-> IF "f" \in c.cs THEN c.data[k].f ELSE table[r].f,
                       v |-> IF "v" \in c.cs THEN c.data[k].v ELSE o]
    OBVIOUS
  <2> HIDE DEF Old, K, New
  <2> HIDE DEF k, o
  <2>5. CASE k = 0
    <3>1. New(r) = [f |-> table[r].f, v |-> o]
      BY <2>2, <2>4, <2>5
    <3> QED
      BY <2>2, <2>3, <2>5, <3>1 DEF TableRows, k, o
  <2>6. CASE k # 0
    <3>1. k \in 1..Len(c.at) /\ k \in 1..Len(c.data) /\ c.at[k] = r
      BY <1>0, <1>1, <2>1, <2>6
    <3>2. k \in TileEdits(c, TileOfRow(r))
      BY <1>0, <3>1 DEF TileEdits
    <3>3. c.data[k].f \in Nat /\ c.data[k].v \in Seq(Nat)
      BY <1>0, <3>1, RowValsAre
    <3>4. New(r) = [f |-> IF "f" \in c.cs THEN c.data[k].f ELSE table[r].f,
                    v |-> IF "v" \in c.cs THEN c.data[k].v ELSE o]
      BY <2>4, <2>6
    <3>5. New(r) \in TableRows
      BY <2>2, <2>3, <3>3, <3>4 DEF TableRows
    <3> QED
      BY <2>6, <3>1, <3>2, <3>4, <3>5 DEF k, o
  <2> QED
    BY <2>5, <2>6
<1> HIDE DEF New
<1>6. Result(c) \in [1..cards.rows -> TableRows] /\ \A r \in 1..cards.rows : Result(c)[r] = New(r)
  BY <1>4, <1>5
<1>7. Result(c) \in Seq(TableRows) /\ Len(Result(c)) = cards.rows
  <2> DEFINE t == Result(c)
  <2> HIDE DEF t
  <2>1. t \in Seq(TableRows) /\ DOMAIN t = 1..cards.rows
    BY <1>0, <1>6 DEF t
  <2>2. Len(t) \in Nat /\ DOMAIN t = 1..Len(t)
    BY <2>1
  <2>3. Len(t) = cards.rows
    BY <1>0, <2>1, <2>2
  <2> QED
    BY <2>1, <2>3 DEF t
<1> QED
  BY <1>0, <1>2, <1>5, <1>6, <1>7, SMTT(40)

-----------------------------------------------------------------------------
(* Encoding one tile.                                                      *)

\* The plan of the original heap: running sums of the lengths.
LEMMA PlanIs ==
  ASSUME NEW m \in Nat, NEW lens \in [1..m -> Nat], NEW z \in Nat
  PROVE  /\ Len(lens) = m
         /\ \A k \in 1..(m + 1) : /\ Plan(lens, z)[k] = z + SumTo(lens, k - 1)
                                  /\ SumTo(lens, k - 1) \in Nat /\ Plan(lens, z)[k] \in Nat
<1>1. Len(lens) = m
  <2>1. lens \in Seq(Nat) /\ DOMAIN lens = 1..m
    OBVIOUS
  <2>2. Len(lens) \in Nat /\ DOMAIN lens = 1..Len(lens)
    BY <2>1
  <2> QED
    BY <2>1, <2>2
<1>2. Plan(lens, z) = [k \in 1..(m + 1) |-> z + SumTo(lens, k - 1)]
  BY <1>1 DEF Plan
<1>3. \A n \in 0..m : SumTo(lens, n) \in Nat
  BY SumToNat
<1>4. ASSUME NEW k \in 1..(m + 1)
      PROVE  /\ Plan(lens, z)[k] = z + SumTo(lens, k - 1)
             /\ SumTo(lens, k - 1) \in Nat /\ Plan(lens, z)[k] \in Nat
  <2>1. k - 1 \in 0..m
    OBVIOUS
  <2>2. SumTo(lens, k - 1) \in Nat
    BY <1>3, <2>1
  <2>3. Plan(lens, z)[k] = z + SumTo(lens, k - 1)
    BY <1>2
  <2> QED
    BY <2>2, <2>3
<1> QED
  BY <1>1, <1>4

\* The lengths of the cells that are written.
LEMMA LengthsAre ==
  ASSUME NEW data \in Seq(RowVals)
  PROVE  Lengths(data) \in [1..Len(data) -> Nat] /\ \A k \in 1..Len(data) : Lengths(data)[k] = Len(data[k].v)
<1>1. DOMAIN data = 1..Len(data) /\ \A k \in 1..Len(data) : data[k] \in RowVals
  BY ElementOfSeq
<1>2. \A k \in 1..Len(data) : Len(data[k].v) \in Nat
  BY <1>1, RowValsAre
<1>3. Lengths(data) = [k \in 1..Len(data) |-> Len(data[k].v)]
  BY <1>1 DEF Lengths
<1> QED
  BY <1>2, <1>3

\* A row of a tile that write or append encodes is kept only in the last tile of the old table.
LEMMA TileToEncode ==
  ASSUME Typed, NEW c, CallOK(c), c.op # "setitem", NEW i, NEW col, Left(c, i, col),
         NEW j \in 1..TileLen(i, RowsAfter(c))
  PROVE  /\ i \in 1..c.theap /\ RowOf(i, j) \in 1..RowsAfter(c)
         /\ RowOf(i, j) <= Kept(c) =>
              /\ c.op = "append" /\ i = cards.tiles /\ i \in 1..cards.tiles /\ j \in 1..TileLen(i, cards.rows)
              /\ cards.rows < cards.tiles * TileRows /\ RowOf(i, j) \in 1..cards.rows
<1>0. /\ c.op \in {"write", "append", "setitem"} /\ c.cards = cards /\ Len(c.data) \in Nat
      /\ c.theap = Tiles(RowsAfter(c)) /\ RowsAfter(c) \in Nat /\ Kept(c) \in Nat
      /\ cards.rows \in Nat /\ cards.tiles \in Nat /\ cards.tiles = Tiles(cards.rows)
  BY CallParts
<1>1. [tile |-> i, col |-> col] \in c.todo
  BY DEF Left
<1>2. i \in 1..c.theap
  BY <1>1 DEF CallOK
<1>3. RowOf(i, j) \in 1..RowsAfter(c)
  BY <1>0, <1>2, PlaceRow
<1>4. ASSUME RowOf(i, j) <= Kept(c)
      PROVE  /\ c.op = "append" /\ i = cards.tiles /\ i \in 1..cards.tiles /\ j \in 1..TileLen(i, cards.rows)
             /\ cards.rows < cards.tiles * TileRows /\ RowOf(i, j) \in 1..cards.rows
  <2>1. Kept(c) # 0
    BY <1>0, <1>3, <1>4
  <2>2. c.op = "append" /\ Kept(c) = cards.rows
    BY <1>0, <2>1 DEF Kept
  <2>3. cards.rows < i * TileRows
    BY <1>1, <2>2 DEF CallOK
  <2>4. RowsAfter(c) = cards.rows + Len(c.data)
    BY <1>0, <2>2 DEF RowsAfter
  <2>5. cards.rows <= RowsAfter(c)
    BY <1>0, <2>4
  <2>6. i = Tiles(cards.rows) /\ j \in 1..TileLen(i, cards.rows)
    BY <1>0, <1>2, <1>4, <2>2, <2>3, <2>5, TilesGrow
  <2>7. i \in 1..cards.tiles
    BY <1>0, <1>2, <2>6
  <2>8. RowOf(i, j) \in 1..cards.rows
    BY <1>0, <2>6, <2>7, PlaceRow
  <2> QED
    BY <1>0, <2>2, <2>3, <2>6, <2>7, <2>8
<1> QED
  BY <1>2, <1>3, <1>4

\* The slab of write and append.
LEMMA NewSlabIs ==
  ASSUME Typed, NEW c, CallOK(c), c.op # "setitem", NEW i, Left(c, i, "f"),
         NEW D0 \in [1..cards.rows -> CellDescs], OldThere(cols, sect, cards, table, c, D0)
  PROVE  /\ NewSlab(c, i) = SlabOf(Result(c), i)
         /\ \A j \in 1..TileLen(i, RowsAfter(c)) : Result(c)[RowOf(i, j)].f # 0
<1> DEFINE n == RowsAfter(c)
           R == Result(c)
<1>0. /\ c.op \in {"write", "append", "setitem"} /\ Len(c.data) \in Nat
      /\ \A k \in 1..Len(c.data) : c.data[k] \in RowVals
      /\ n \in Nat /\ Kept(c) \in Nat /\ cards.rows \in Nat
      /\ table \in Seq(TableRows) /\ Len(table) = cards.rows /\ cards.tiles = Tiles(cards.rows)
  BY CallParts
<1>1. /\ R \in Seq(TableRows) /\ Len(R) = n
      /\ \A r \in 1..n :
              /\ r <= Kept(c) => c.op = "append" /\ r \in 1..cards.rows /\ R[r] = table[r]
              /\ r > Kept(c) => r - Kept(c) \in 1..Len(c.data) /\ R[r] = Row(c.data[r - Kept(c)])
  BY ResultNew
<1>2. ASSUME NEW j \in 1..TileLen(i, n)
      PROVE  /\ R[RowOf(i, j)].f = IF RowOf(i, j) <= Kept(c) THEN c.old.f[j] ELSE c.data[RowOf(i, j) - Kept(c)].f
             /\ R[RowOf(i, j)].f # 0
  <2> DEFINE r == RowOf(i, j)
             k == cards.tiles
  <2>1. /\ r \in 1..n
        /\ r <= Kept(c) =>
              /\ c.op = "append" /\ i = k /\ i \in 1..k /\ j \in 1..TileLen(i, cards.rows)
              /\ cards.rows < k * TileRows /\ r \in 1..cards.rows
    BY TileToEncode
  <2>2. CASE r <= Kept(c)
    <3>1. /\ c.op = "append" /\ i = k /\ i \in 1..k /\ j \in 1..TileLen(i, cards.rows)
          /\ cards.rows < k * TileRows /\ R[r] = table[r]
      BY <1>1, <2>1, <2>2
    <3>2. sect[k].f.n # 0 /\ c.old.f = SlabOf(table, k) /\ Content(cols, sect, c.theap, cards.pcount, sect, table, D0)
      BY <3>1 DEF OldThere, MergeOK
    <3>3. SlabSpells(sect, c.theap, cards.pcount, sect[k].f, k, table)
      BY <1>0, <3>1, <3>2 DEF Content
    <3>4. table[r].f # 0
      BY <1>0, <3>1, <3>2, <3>3 DEF SlabSpells
    <3>5. c.old.f[j] = table[r].f
      BY <1>0, <3>1, <3>2 DEF SlabOf
    <3> QED
      BY <2>2, <3>1, <3>4, <3>5
  <2>3. CASE ~(r <= Kept(c))
    <3>1. r > Kept(c)
      BY <1>0, <2>1, <2>3
    <3>2. r - Kept(c) \in 1..Len(c.data) /\ R[r] = Row(c.data[r - Kept(c)])
      BY <1>1, <2>1, <3>1
    <3>3. c.data[r - Kept(c)] \in RowVals
      BY <1>0, <3>2
    <3>4. R[r].f = c.data[r - Kept(c)].f /\ R[r].f # 0
      BY <3>2, <3>3, RowValsAre
    <3> QED
      BY <2>3, <3>4
  <2> QED
    BY <2>2, <2>3
<1>3. SlabOf(R, i) = [j \in 1..TileLen(i, n) |-> R[RowOf(i, j)].f]
  BY <1>1 DEF SlabOf
<1>4. NewSlab(c, i) = [j \in 1..TileLen(i, n) |->
                         IF RowOf(i, j) <= Kept(c) THEN c.old.f[j] ELSE c.data[RowOf(i, j) - Kept(c)].f]
  BY DEF NewSlab
<1> HIDE DEF R, n
<1>5. NewSlab(c, i) = SlabOf(R, i)
  BY <1>2, <1>3, <1>4
<1> QED
  BY <1>2, <1>5 DEF R, n

\* SlabAt and BlobAt are TileIn of the section.
LEMMA TileAtIs ==
  ASSUME NEW i, NEW n, NEW th
  PROVE  /\ SlabAt(i, n, th) = TileIn(sect, sect, "f", i, n, th)
         /\ BlobAt(i, n, th) = TileIn(sect, sect, "v", i, n, th)
BY DEF SlabAt, BlobAt, TileIn, Found, FoundIn

\* What the old tiles decode to.
LEMMA OldTiles ==
  ASSUME Typed, NEW th \in Nat, NEW lim, NEW D0 \in [1..cards.rows -> CellDescs],
         Content(cols, sect, th, lim, sect, table, D0), NEW i \in 1..cards.tiles
  PROVE  /\ SlabAt(i, cards.rows, th) = Decoded(sect[i].f, SlabOf(table, i))
         /\ BlobAt(i, cards.rows, th) =
              Decoded(sect[i].v, DescsOf(D0, i, cards.rows))
         /\ sect[i].v \in HeapDescs /\ sect[i].f \in HeapDescs
         /\ BlobSpells(cols, sect, th, lim, sect[i].v, i, table, D0)
         /\ SlabSpells(sect, th, lim, sect[i].f, i, table)
<1>1. /\ IsSeq(sect) /\ sect[i] \in TileDescs /\ (\A k \in 1..Tiles(Len(table)) : sect[k] \in TileDescs)
      /\ table \in Seq(TableRows) /\ Len(table) = cards.rows
      /\ i \in 1..Tiles(Len(table)) /\ D0 \in [1..Len(table) -> CellDescs]
  <2>1. /\ IsSeq(sect) /\ table \in Seq(TableRows) /\ Len(table) = cards.rows
        /\ cards.tiles = Tiles(cards.rows) /\ \A k \in 1..cards.tiles : sect[k] \in TileDescs
    BY DEF Typed, SectOK
  <2> QED
    BY <2>1
<1>5. Holds(cols, sect, th, lim, sect, table, D0)
  BY <1>1 DEF Holds
<1>2. /\ TileIn(sect, sect, "f", i, Len(table), th) = Decoded(sect[i].f, SlabOf(table, i))
      /\ TileIn(sect, sect, "v", i, Len(table), th) =
           Decoded(sect[i].v, DescsOf(D0, i, Len(table)))
  BY <1>1, <1>5, TilesFound
<1>3. sect[i].v \in HeapDescs /\ sect[i].f \in HeapDescs
  BY <1>1 DEF TileDescs
<1>4. BlobSpells(cols, sect, th, lim, sect[i].v, i, table, D0) /\ SlabSpells(sect, th, lim, sect[i].f, i, table)
  BY <1>1 DEF Content
<1> QED
  BY <1>1, <1>2, <1>3, <1>4, TileAtIs

\* The slab of setitem.
LEMMA PatchedSlabIs ==
  ASSUME Typed, NEW c, CallOK(c), c.op = "setitem", NEW i, Left(c, i, "f"),
         NEW D0 \in [1..cards.rows -> CellDescs], OldThere(cols, sect, cards, table, c, D0),
         ~Undecodable(c, i, "f")
  PROVE  /\ PatchedSlab(c, i) = SlabOf(Result(c), i)
         /\ \A j \in 1..TileLen(i, RowsAfter(c)) : Result(c)[RowOf(i, j)].f # 0
<1> DEFINE n == cards.rows
           R == Result(c)
           len == TileLen(i, n)
<1>0. /\ c.cards = cards /\ \A k \in 1..Len(c.data) : c.data[k] \in RowVals
      /\ n \in Nat /\ table \in Seq(TableRows) /\ Len(table) = n /\ cards.tiles = Tiles(n)
  BY CallParts
<1>1. /\ R \in Seq(TableRows) /\ Len(R) = n /\ RowsAfter(c) = n /\ c.theap = cards.tiles
      /\ \A r \in 1..n :
              /\ LastEdit(c, r) # 0 => LastEdit(c, r) \in 1..Len(c.data)
              /\ R[r].f = IF LastEdit(c, r) # 0 /\ "f" \in c.cs THEN c.data[LastEdit(c, r)].f ELSE table[r].f
  BY ResultSet
<1>2. [tile |-> i, col |-> "f"] \in c.todo
  BY DEF Left
<1>3. i \in 1..cards.tiles /\ "f" \in c.cs
  BY <1>1, <1>2 DEF CallOK
<1>4. Content(cols, sect, c.theap, cards.pcount, sect, table, D0) /\ c.theap \in Nat
  BY <1>1, CallParts DEF OldThere
<1>5. SlabAt(i, n, c.theap).ok
  BY <1>0 DEF Undecodable
<1>6. sect[i].f.n # 0 /\ SlabAt(i, n, c.theap) = Right(SlabOf(table, i))
      /\ SlabSpells(sect, c.theap, cards.pcount, sect[i].f, i, table)
  <2>1. /\ SlabAt(i, n, c.theap) = Decoded(sect[i].f, SlabOf(table, i))
        /\ SlabSpells(sect, c.theap, cards.pcount, sect[i].f, i, table)
    BY <1>3, <1>4, OldTiles
  <2> QED
    BY <1>5, <2>1 DEF Wrong, Decoded
<1>7. SlabOf(table, i) = [j \in 1..len |-> table[RowOf(i, j)].f] /\ SlabOf(R, i) = [j \in 1..len |-> R[RowOf(i, j)].f]
  BY <1>0, <1>1 DEF SlabOf
<1>8. ASSUME NEW j \in 1..len
      PROVE  /\ R[RowOf(i, j)].f # 0
             /\ R[RowOf(i, j)].f = IF LastEdit(c, RowOf(i, j)) = 0 THEN table[RowOf(i, j)].f
                                   ELSE c.data[LastEdit(c, RowOf(i, j))].f
  <2> DEFINE r == RowOf(i, j)
             k == LastEdit(c, r)
  <2>1. r \in 1..n
    BY <1>0, <1>3, PlaceRow
  <2>2. (k # 0 => k \in 1..Len(c.data)) /\ R[r].f = IF k = 0 THEN table[r].f ELSE c.data[k].f
    BY <1>1, <1>3, <2>1
  <2>3. table[r].f # 0
    BY <1>0, <1>6 DEF SlabSpells
  <2>4. k # 0 => c.data[k].f # 0
    BY <1>0, <2>2, RowValsAre
  <2> HIDE DEF r, k
  <2>5. R[r].f # 0
    BY <2>2, <2>3, <2>4
  <2> QED
    BY <2>2, <2>5 DEF r, k
<1>9. PatchedSlab(c, i) = [j \in 1..len |-> LET k == LastEdit(c, RowOf(i, j))
                                            IN  IF k = 0 THEN table[RowOf(i, j)].f ELSE c.data[k].f]
  <2> DEFINE o == SlabOf(table, i)
  <2>1. PatchedSlab(c, i) = [j \in DOMAIN o |-> LET k == LastEdit(c, RowOf(i, j))
                                                IN  IF k = 0 THEN o[j] ELSE c.data[k].f]
    BY <1>0, <1>6 DEF PatchedSlab, Right
  <2>2. DOMAIN o = 1..len /\ \A j \in 1..len : o[j] = table[RowOf(i, j)].f
    BY <1>7
  <2> HIDE DEF o, len
  <2> QED
    BY <2>1, <2>2
<1> HIDE DEF R, len
<1>10. PatchedSlab(c, i) = SlabOf(R, i)
  BY <1>7, <1>8, <1>9
<1> QED
  BY <1>1, <1>8, <1>10 DEF R, len

\* The cells of a tile.
CellsOf(tab, i) == [j \in 1..TileLen(i, Len(tab)) |-> tab[RowOf(i, j)].v]

\* A row of the tile in the cells of write and append.
LEMMA NewCell ==
  ASSUME Typed, NEW c, CallOK(c), c.op # "setitem", NEW i, Left(c, i, "v"),
         NEW D0 \in [1..cards.rows -> CellDescs], OldThere(cols, sect, cards, table, c, D0),
         NEW j \in 1..TileLen(i, RowsAfter(c))
  PROVE  LET r == RowOf(i, j)
             k == r - Kept(c)
             v == Result(c)[r].v
         IN  /\ r \in 1..RowsAfter(c) /\ v \in Seq(Nat) /\ v # NoCell
             /\ IF k <= 0
                THEN /\ UnitsOf(c.old.v[j], c.theap) = Cell(v) /\ c.old.v[j].n = Len(v)
                     /\ c.old.v[j].orig \in Nat
                     /\ Planned(c, D0, r) = [n |-> c.old.v[j].n, orig |-> c.old.v[j].orig]
                ELSE /\ k \in 1..Len(c.data) /\ c.data[k].v = v
                     /\ Planned(c, D0, r) = [n |-> Len(v), orig |-> c.zp + SumTo(Lengths(c.data), k - 1)]
<1> DEFINE n == RowsAfter(c)
           R == Result(c)
           r == RowOf(i, j)
           k == r - Kept(c)
           t == cards.tiles
<1>0. /\ c.op \in {"write", "append", "setitem"} /\ Len(c.data) \in Nat
      /\ \A q \in 1..Len(c.data) : c.data[q] \in RowVals
      /\ n \in Nat /\ Kept(c) \in Nat /\ cards.rows \in Nat /\ c.theap \in Nat /\ c.cs \subseteq cols
      /\ table \in Seq(TableRows) /\ Len(table) = cards.rows /\ cards.tiles = Tiles(cards.rows)
      /\ \A q \in 1..cards.rows : table[q] \in TableRows
  BY CallParts
<1>1. /\ \A q \in 1..n :
              /\ q <= Kept(c) => c.op = "append" /\ q \in 1..cards.rows /\ R[q] = table[q]
              /\ q > Kept(c) => q - Kept(c) \in 1..Len(c.data) /\ R[q] = Row(c.data[q - Kept(c)])
  BY ResultNew
<1>2. "v" \in cols
  <2>1. [tile |-> i, col |-> "v"] \in c.todo
    BY DEF Left
  <2>2. "v" \in c.cs
    BY <2>1 DEF CallOK
  <2> QED
    BY <1>0, <2>2
<1>3. /\ r \in 1..n
      /\ r <= Kept(c) =>
            /\ c.op = "append" /\ i = t /\ i \in 1..t /\ j \in 1..TileLen(i, cards.rows)
            /\ cards.rows < t * TileRows /\ r \in 1..cards.rows
  BY TileToEncode
<1> HIDE DEF r
<1>4. r \in Int /\ Kept(c) \in Int /\ k \in Int /\ (k <= 0 <=> r <= Kept(c)) /\ (~(k <= 0) <=> r > Kept(c))
  BY <1>0, <1>3
<1>5. CASE k <= 0
  <2>1. /\ c.op = "append" /\ i = t /\ i \in 1..t /\ j \in 1..TileLen(i, cards.rows)
        /\ cards.rows < t * TileRows /\ r \in 1..cards.rows /\ R[r] = table[r] /\ r <= Kept(c)
    BY <1>1, <1>3, <1>4, <1>5
  <2>2. /\ sect[t].v.n # 0 /\ c.old.v = DescsOf(D0, t, cards.rows)
        /\ Content(cols, sect, c.theap, cards.pcount, sect, table, D0)
    BY <1>2, <2>1 DEF OldThere, MergeOK
  <2>3. BlobSpells(cols, sect, c.theap, cards.pcount, sect[t].v, t, table, D0)
    BY <1>0, <2>1, <2>2 DEF Content
  <2>4. table[r].v # NoCell /\ CellLies(sect, c.theap, cards.pcount, D0[r], table[r].v)
    BY <1>0, <2>1, <2>2, <2>3 DEF BlobSpells, r
  <2>5. c.old.v[j] = D0[r] /\ D0[r] \in CellDescs
    BY <2>1, <2>2 DEF DescsOf, r
  <2>6. table[r].v \in Seq(Nat)
    BY <1>0, <2>1 DEF TableRows
  <2>7. IsSeq(sect)
    BY DEF Typed, SectOK
  <2>8. UnitsOf(D0[r], c.theap) = Cell(table[r].v)
    <3> DEFINE e == D0[r]
               v == table[r].v
               th == c.theap
    <3>1. e \in CellDescs /\ v \in Seq(Nat) /\ th \in Nat /\ CellLies(sect, th, cards.pcount, e, v)
      BY <1>0, <2>4, <2>5, <2>6
    <3> HIDE DEF e, v, th
    <3>2. SubSeq(sect, th + e.cs + 1, th + e.cs + e.cn) = Cell(v)
      BY <2>7, <3>1, CellFound
    <3> QED
      BY <3>2 DEF UnitsOf, e, v, th
  <2>9. D0[r].n = Len(table[r].v) /\ D0[r].orig \in Nat
    BY <2>4, <2>5 DEF CellLies, CellDescs
  <2>10. Planned(c, D0, r) = [n |-> D0[r].n, orig |-> D0[r].orig]
    BY <2>1 DEF Planned
  <2> QED
    BY <1>3, <1>5, <2>1, <2>4, <2>5, <2>6, <2>8, <2>9, <2>10 DEF r
<1>6. CASE ~(k <= 0)
  <2>1. r > Kept(c) /\ k \in 1..Len(c.data) /\ R[r] = Row(c.data[k])
    BY <1>1, <1>3, <1>4, <1>6
  <2>2. c.data[k] \in RowVals
    BY <1>0, <2>1
  <2>3. R[r].v = c.data[k].v /\ R[r].v \in Seq(Nat) /\ R[r].v # NoCell
    BY <1>2, <2>1, <2>2, RowValsAre
  <2>4. ~(r <= Kept(c))
    BY <1>4, <1>6
  <2>5. Planned(c, D0, r) = [n |-> Len(c.data[k].v), orig |-> c.zp + SumTo(Lengths(c.data), k - 1)]
    BY <2>4 DEF Planned
  <2> QED
    BY <1>3, <1>6, <2>1, <2>3, <2>5 DEF r
<1> QED
  BY <1>5, <1>6

\* The cells of write and append are those of the result, and keep to the plan.
LEMMA NewCellsAre ==
  ASSUME Typed, NEW c, CallOK(c), c.op # "setitem", NEW i, Left(c, i, "v"),
         NEW D0 \in [1..cards.rows -> CellDescs], OldThere(cols, sect, cards, table, c, D0)
  PROVE  \E us, of :
           /\ NewCells(c, i) = Laid(us, of, c.cur)
           /\ CellsToLay(TileLen(i, RowsAfter(c)), CellsOf(Result(c), i), us, of)
           /\ \A j \in 1..TileLen(i, RowsAfter(c)) :
                /\ Result(c)[RowOf(i, j)].v # NoCell
                /\ of[j].n = Planned(c, D0, RowOf(i, j)).n /\ of[j].orig = Planned(c, D0, RowOf(i, j)).orig
<1> DEFINE n == RowsAfter(c)
           R == Result(c)
           len == TileLen(i, n)
           plan == Plan(Lengths(c.data), c.zp)
           New(j) == RowOf(i, j) - Kept(c)
           us == [j \in 1..len |-> IF New(j) <= 0 THEN UnitsOf(c.old.v[j], c.theap) ELSE Cell(c.data[New(j)].v)]
           of == [j \in 1..len |-> IF New(j) <= 0 THEN c.old.v[j]
                                   ELSE [n |-> Len(c.data[New(j)].v), orig |-> plan[New(j)]]]
           vs == CellsOf(R, i)
<1>0. /\ c.data \in Seq(RowVals) /\ n \in Nat /\ c.zp \in Nat /\ Len(c.data) \in Nat /\ c.theap = Tiles(n)
  BY CallParts
<1>1. R \in Seq(TableRows) /\ Len(R) = n
  BY ResultNew
<1>2. NewCells(c, i) = Laid(us, of, c.cur)
  BY DEF NewCells
<1>3. vs = [j \in 1..len |-> R[RowOf(i, j)].v]
  BY <1>1 DEF CellsOf
<1>4. \A k \in 1..Len(c.data) : plan[k] = c.zp + SumTo(Lengths(c.data), k - 1) /\ plan[k] \in Nat
  <2>1. Lengths(c.data) \in [1..Len(c.data) -> Nat]
    BY <1>0, LengthsAre
  <2>2. \A k \in 1..(Len(c.data) + 1) : plan[k] = c.zp + SumTo(Lengths(c.data), k - 1) /\ plan[k] \in Nat
    BY <1>0, <2>1, PlanIs
  <2> HIDE DEF plan
  <2>3. \A k \in 1..Len(c.data) : k \in 1..(Len(c.data) + 1)
    BY <1>0
  <2> QED
    BY <2>2, <2>3
<1>5. ASSUME NEW j \in 1..len
      PROVE  /\ R[RowOf(i, j)].v \in Seq(Nat) /\ R[RowOf(i, j)].v # NoCell
             /\ us[j] = Cell(R[RowOf(i, j)].v)
             /\ of[j].n = Len(R[RowOf(i, j)].v) /\ of[j].orig \in Nat
             /\ of[j].n = Planned(c, D0, RowOf(i, j)).n /\ of[j].orig = Planned(c, D0, RowOf(i, j)).orig
  <2> DEFINE v == R[RowOf(i, j)].v
             p == Planned(c, D0, RowOf(i, j))
             k == New(j)
  <2>1. /\ v \in Seq(Nat) /\ v # NoCell
        /\ IF k <= 0
           THEN /\ UnitsOf(c.old.v[j], c.theap) = Cell(v) /\ c.old.v[j].n = Len(v)
                /\ c.old.v[j].orig \in Nat
                /\ p = [n |-> c.old.v[j].n, orig |-> c.old.v[j].orig]
           ELSE /\ k \in 1..Len(c.data) /\ c.data[k].v = v
                /\ p = [n |-> Len(v), orig |-> c.zp + SumTo(Lengths(c.data), k - 1)]
    BY NewCell
  <2>2. /\ us[j] = IF k <= 0 THEN UnitsOf(c.old.v[j], c.theap) ELSE Cell(c.data[k].v)
        /\ of[j] = IF k <= 0 THEN c.old.v[j] ELSE [n |-> Len(c.data[k].v), orig |-> plan[k]]
    OBVIOUS
  <2> HIDE DEF v, p, k, us, of, plan
  <2>3. CASE k <= 0
    BY <2>1, <2>2, <2>3 DEF v, p
  <2>4. CASE ~(k <= 0)
    <3>1. plan[k] = c.zp + SumTo(Lengths(c.data), k - 1) /\ plan[k] \in Nat
      BY <1>4, <2>1, <2>4
    <3> QED
      BY <2>1, <2>2, <2>4, <3>1 DEF v, p
  <2> QED
    BY <2>3, <2>4
<1>6. us = [j \in 1..len |-> us[j]]
  OBVIOUS
<1>7. i \in 1..Tiles(n)
  <2>1. [tile |-> i, col |-> "v"] \in c.todo
    BY DEF Left
  <2> QED
    BY <1>0, <2>1 DEF CallOK
<1>8. len \in Nat
  <2>1. len \in 1..TileRows /\ TileRows \in Nat
    BY <1>0, <1>7, TileLenIs, Products
  <2> HIDE DEF len
  <2> QED
    BY <2>1
<1> HIDE DEF us, of, len, R, vs
<1>9. vs \in [1..len -> Seq(Nat)] /\ \A j \in 1..len : vs[j] = R[RowOf(i, j)].v
  BY <1>3, <1>5
<1>10. us = [j \in 1..len |-> Cell(vs[j])]
  BY <1>5, <1>6, <1>9
<1>11. \A j \in 1..len : of[j].n = Len(vs[j]) /\ of[j].orig \in Nat
  BY <1>5, <1>9
<1>12. CellsToLay(len, vs, us, of)
  BY <1>8, <1>9, <1>10, <1>11 DEF CellsToLay
<1> QED
  BY <1>2, <1>5, <1>12 DEF len, R, vs

\* Cells that are added behind an original heap of z units, one behind the other: row r gets
\* the one with number K[r].
Added(N, D, z, m, lens, K, D2) ==
    /\ N \in Nat /\ m \in Nat /\ z \in Nat /\ lens \in [1..m -> Nat] /\ K \in [1..N -> 0..m]
    /\ \A r \in 1..N : D[r].n \in Nat /\ D[r].orig \in Nat
    /\ \A r, s \in 1..N : r # s /\ K[r] # 0 => K[r] # K[s]
    /\ \A r \in 1..N : IF K[r] = 0 THEN D2[r].n = D[r].n /\ D2[r].orig = D[r].orig
                       ELSE D2[r].n = lens[K[r]] /\ D2[r].orig = z + SumTo(lens, K[r] - 1)

\* Cells behind the end of the original heap have places of their own.
LEMMA OrigsAdded ==
  ASSUME NEW N, NEW D, NEW z, NEW m, NEW lens, NEW K, NEW D2, Added(N, D, z, m, lens, K, D2),
         Origs(D, N, z)
  PROVE  Origs(D2, N, z + SumTo(lens, m)) /\ SumTo(lens, m) \in Nat
<1>0. N \in Nat /\ m \in Nat /\ z \in Nat /\ lens \in [1..m -> Nat] /\ K \in [1..N -> 0..m]
  BY DEF Added
<1>1. /\ \A n \in 0..m : SumTo(lens, n) \in Nat
      /\ \A n \in 1..m : SumTo(lens, n) = SumTo(lens, n - 1) + lens[n]
      /\ \A k, n \in 0..m : k <= n => SumTo(lens, k) <= SumTo(lens, n)
  BY <1>0, SumToNat
<1> DEFINE e == SumTo(lens, m)
           Lo(k) == SumTo(lens, k - 1)
<1>2. e \in Nat
  BY <1>0, <1>1
<1>3. \A k \in 1..m : Lo(k) \in Nat /\ lens[k] \in Nat /\ Lo(k) + lens[k] <= e
  <2> SUFFICES ASSUME NEW k \in 1..m PROVE Lo(k) \in Nat /\ lens[k] \in Nat /\ Lo(k) + lens[k] <= e
    OBVIOUS
  <2>1. k - 1 \in 0..m /\ k \in 0..m /\ m \in 0..m /\ k <= m
    BY <1>0
  <2>2. SumTo(lens, k) <= e /\ SumTo(lens, k) = Lo(k) + lens[k] /\ Lo(k) \in Nat
    BY <1>1, <2>1
  <2> QED
    BY <1>0, <2>2
<1>4. \A k, l \in 1..m : k < l => Lo(k) + lens[k] <= Lo(l)
  <2> SUFFICES ASSUME NEW k \in 1..m, NEW l \in 1..m, k < l PROVE Lo(k) + lens[k] <= Lo(l)
    OBVIOUS
  <2>1. l - 1 \in 0..m /\ k \in 0..m /\ k <= l - 1
    BY <1>0
  <2>2. SumTo(lens, k) <= Lo(l) /\ SumTo(lens, k) = Lo(k) + lens[k]
    BY <1>1, <2>1
  <2> QED
    BY <2>2
<1> HIDE DEF e, Lo
<1>5. ASSUME NEW r \in 1..N
      PROVE  /\ K[r] \in 0..m /\ D[r].n \in Nat /\ D[r].orig \in Nat
             /\ K[r] = 0 => D2[r].n = D[r].n /\ D2[r].orig = D[r].orig
             /\ K[r] # 0 => K[r] \in 1..m /\ D2[r].n = lens[K[r]] /\ D2[r].orig = z + Lo(K[r])
  BY <1>0 DEF Added, Lo
<1>6. ASSUME NEW r \in 1..N, D2[r].n > 0 PROVE D2[r].orig + D2[r].n <= z + e
  <2>1. CASE K[r] = 0
    <3>1. D[r].orig + D[r].n <= z
      BY <1>5, <1>6, <2>1 DEF Origs
    <3> QED
      BY <1>0, <1>2, <1>5, <2>1, <3>1
  <2>2. CASE K[r] # 0
    <3> DEFINE k == K[r]
    <3>1. k \in 1..m /\ D2[r].n = lens[k] /\ D2[r].orig = z + Lo(k)
      BY <1>5, <2>2
    <3> HIDE DEF k
    <3>2. Lo(k) \in Nat /\ lens[k] \in Nat /\ Lo(k) + lens[k] <= e
      BY <1>3, <3>1
    <3> QED
      BY <1>0, <1>2, <3>1, <3>2
  <2> QED
    BY <2>1, <2>2
<1>7. ASSUME NEW r \in 1..N, NEW s \in 1..N, r # s, D2[r].n > 0, D2[s].n > 0
      PROVE  D2[r].orig + D2[r].n <= D2[s].orig \/ D2[s].orig + D2[s].n <= D2[r].orig
  <2>1. CASE K[r] = 0 /\ K[s] = 0
    BY <1>5, <1>7, <2>1 DEF Origs
  <2>2. CASE K[r] = 0 /\ K[s] # 0
    <3>1. D2[r].orig + D2[r].n <= z
      BY <1>5, <1>7, <2>2 DEF Origs
    <3>2. D2[s].orig = z + Lo(K[s]) /\ Lo(K[s]) \in Nat /\ D2[r].n \in Nat /\ D2[r].orig \in Nat
      BY <1>3, <1>5, <2>2
    <3> QED
      BY <1>0, <3>1, <3>2
  <2>3. CASE K[r] # 0 /\ K[s] = 0
    <3>1. D2[s].orig + D2[s].n <= z
      BY <1>5, <1>7, <2>3 DEF Origs
    <3>2. D2[r].orig = z + Lo(K[r]) /\ Lo(K[r]) \in Nat /\ D2[s].n \in Nat /\ D2[s].orig \in Nat
      BY <1>3, <1>5, <2>3
    <3> QED
      BY <1>0, <3>1, <3>2
  <2>4. CASE K[r] # 0 /\ K[s] # 0
    <3> DEFINE k == K[r]
               l == K[s]
    <3>1. /\ k \in 1..m /\ D2[r].n = lens[k] /\ D2[r].orig = z + Lo(k)
          /\ l \in 1..m /\ D2[s].n = lens[l] /\ D2[s].orig = z + Lo(l)
      BY <1>5, <2>4
    <3>2. k # l
      BY <1>7, <2>4 DEF Added
    <3> HIDE DEF k, l
    <3>3. Lo(k) \in Nat /\ lens[k] \in Nat /\ Lo(l) \in Nat /\ lens[l] \in Nat
      BY <1>3, <3>1
    <3>4. Lo(k) + lens[k] <= Lo(l) \/ Lo(l) + lens[l] <= Lo(k)
      <4>1. k < l \/ l < k
        BY <1>0, <3>1, <3>2
      <4> QED
        BY <1>4, <3>1, <4>1
    <3> QED
      BY <1>0, <3>1, <3>3, <3>4, SMTT(40)
  <2> QED
    BY <2>1, <2>2, <2>3, <2>4
<1> QED
  BY <1>2, <1>6, <1>7 DEF Origs, e

\* The cells that setitem gives to tile i; an edit of another tile gives none.
EditedVals(c, i) == [k \in 1..Len(c.at) |-> IF k \in TileEdits(c, i) THEN c.data[k].v ELSE <<>>]

\* The cells that setitem adds to a tile.
LEMMA EditedCellsAre ==
  ASSUME Typed, NEW c, CallOK(c), c.op = "setitem", NEW i
  PROVE  /\ EditLengths(c, i) \in [1..Len(c.at) -> Nat]
         /\ \A k \in 1..Len(c.at) : EditLengths(c, i)[k] = Len(EditedVals(c, i)[k])
         /\ Plan(EditLengths(c, i), c.zp)[Len(c.at) + 1] = c.zp + SumTo(EditLengths(c, i), Len(c.at))
         /\ \E us, of :
              /\ EditedCells(c, i) = Laid(us, of, c.cur)
              /\ CellsToLay(Len(c.at), EditedVals(c, i), us, of)
              /\ \A k \in 1..Len(c.at) : of[k].orig = c.zp + SumTo(EditLengths(c, i), k - 1)
<1> DEFINE m == Len(c.at)
           E == TileEdits(c, i)
           lens == EditLengths(c, i)
           plan == Plan(lens, c.zp)
           vs == EditedVals(c, i)
           us == [k \in DOMAIN c.at |-> IF k \in E THEN Cell(c.data[k].v) ELSE <<>>]
           of == [k \in DOMAIN c.at |-> [n |-> lens[k], orig |-> plan[k]]]
<1>0. /\ m \in Nat /\ DOMAIN c.at = 1..m /\ c.zp \in Nat /\ Len(c.data) = m
      /\ \A k \in 1..m : c.data[k] \in RowVals
  <2>1. Len(c.data) = Len(c.at)
    BY DEF CallOK
  <2> QED
    BY <2>1, CallParts
<1>1. \A k \in 1..m : c.data[k].v \in Seq(Nat) /\ Len(c.data[k].v) \in Nat
  BY <1>0, RowValsAre
<1>2. lens = [k \in 1..m |-> IF k \in E THEN Len(c.data[k].v) ELSE 0]
  BY <1>0 DEF EditLengths
<1>3. vs = [k \in 1..m |-> IF k \in E THEN c.data[k].v ELSE <<>>]
  BY DEF EditedVals
<1>4. us = [k \in 1..m |-> IF k \in E THEN Cell(c.data[k].v) ELSE <<>>]
      /\ of = [k \in 1..m |-> [n |-> lens[k], orig |-> plan[k]]]
  BY <1>0
<1>5. EditedCells(c, i) = Laid(us, of, c.cur)
  BY DEF EditedCells
<1> HIDE DEF us, of, lens, vs, E, m
<1>6. lens \in [1..m -> Nat]
  BY <1>1, <1>2
<1>7. /\ \A k \in 1..(m + 1) : plan[k] = c.zp + SumTo(lens, k - 1) /\ plan[k] \in Nat
  BY <1>0, <1>6, PlanIs
<1> HIDE DEF plan
<1>8. vs \in [1..m -> Seq(Nat)]
  <2>1. <<>> \in Seq(Nat)
    OBVIOUS
  <2>2. \A k \in 1..m : (IF k \in E THEN c.data[k].v ELSE <<>>) \in Seq(Nat)
    BY <1>1, <2>1
  <2> QED
    BY <1>3, <2>2
<1>9. Cell(<<>>) = <<>> /\ Len(<<>>) = 0
  <2>1. <<>> \in Seq(Nat)
    OBVIOUS
  <2> QED
    BY <2>1, CellIs
<1>10. us = [k \in 1..m |-> Cell(vs[k])]
  BY <1>3, <1>4, <1>9
<1>11. \A k \in 1..m : lens[k] = Len(vs[k])
  BY <1>2, <1>3, <1>9
<1>12. \A k \in 1..m : k \in 1..(m + 1) /\ m + 1 \in 1..(m + 1) /\ m + 1 - 1 = m
  BY <1>0
<1>13. \A k \in 1..m : of[k].n = Len(vs[k]) /\ of[k].orig \in Nat /\ of[k].orig = c.zp + SumTo(lens, k - 1)
  BY <1>4, <1>7, <1>11, <1>12
<1>14. CellsToLay(m, vs, us, of)
  BY <1>0, <1>8, <1>10, <1>13 DEF CellsToLay
<1>15. plan[m + 1] = c.zp + SumTo(lens, m)
  <2> DEFINE k == m + 1
  <2>1. k \in 1..k /\ k - 1 = m /\ \A q \in 1..k : plan[q] = c.zp + SumTo(lens, q - 1)
    BY <1>0, <1>7
  <2> HIDE DEF k
  <2>2. plan[k] = c.zp + SumTo(lens, m)
    BY <2>1
  <2> QED
    BY <2>2 DEF k
<1> QED
  BY <1>5, <1>6, <1>11, <1>13, <1>14, <1>15 DEF m, lens, plan, vs

\* The descriptors that setitem starts from.
LEMMA OldDescsAre ==
  ASSUME Typed, NEW c, CallOK(c), c.op = "setitem", NEW i, Left(c, i, "v"),
         NEW D0 \in [1..cards.rows -> CellDescs], OldThere(cols, sect, cards, table, c, D0),
         c.main[i].v = sect[i].v
  PROVE  OldDescs(c, i) = DescsOf(D0, i, cards.rows)
<1> DEFINE n == cards.rows
           th == c.theap
           len == TileLen(i, n)
<1>0. c.cards = cards /\ th \in Nat /\ Len(table) = n
  BY CallParts
<1>1. th = cards.tiles
  BY ResultSet
<1>2. i \in 1..cards.tiles
  <2>1. [tile |-> i, col |-> "v"] \in c.todo
    BY DEF Left
  <2> QED
    BY <1>1, <2>1 DEF CallOK
<1>3. Content(cols, sect, th, cards.pcount, sect, table, D0)
  BY DEF OldThere
<1>4. /\ BlobSpells(cols, sect, th, cards.pcount, sect[i].v, i, table, D0) /\ sect[i].v \in HeapDescs
  BY <1>0, <1>2, <1>3, OldTiles
<1>5. CASE sect[i].v.n = 0
  <2>1. \A j \in 1..len : D0[RowOf(i, j)] = Zero
    BY <1>0, <1>4, <1>5 DEF BlobSpells
  <2>2. OldDescs(c, i) = [j \in 1..len |-> Zero]
    BY <1>0, <1>5 DEF OldDescs, Zero
  <2>3. DescsOf(D0, i, n) = [j \in 1..len |-> D0[RowOf(i, j)]]
    BY DEF DescsOf
  <2> HIDE DEF len
  <2> QED
    BY <2>1, <2>2, <2>3
<1>6. CASE sect[i].v.n # 0
  <2>1. /\ IsSeq(sect) /\ table \in Seq(TableRows) /\ cards.tiles = Tiles(n)
    BY DEF Typed, SectOK
  <2>2. D0 \in [1..Len(table) -> CellDescs] /\ i \in 1..Tiles(Len(table))
    BY <1>0, <1>2, <2>1
  <2>3. FoundIn(sect, "blob", sect[i].v.n, sect[i].v.off, th) = Right(DescsOf(D0, i, Len(table)))
    BY <1>0, <1>4, <1>6, <2>1, <2>2, BlobFound
  <2>4. sect[i].v.n > 0
    BY <1>4, <1>6 DEF HeapDescs
  <2>5. OldDescs(c, i) = Found("blob", sect[i].v.n, sect[i].v.off, th).of
    BY <2>4 DEF OldDescs
  <2>6. OldDescs(c, i) = FoundIn(sect, "blob", sect[i].v.n, sect[i].v.off, th).of
    BY <2>5 DEF Found, FoundIn
  <2>7. OldDescs(c, i) = DescsOf(D0, i, Len(table))
    BY <2>3, <2>6 DEF Right
  <2> QED
    BY <1>0, <2>7
<1> QED
  BY <1>5, <1>6

-----------------------------------------------------------------------------
(* The step that encodes a tile.                                           *)

\* Units u go to the cursor, and d becomes the descriptor.
Steps(c, i, col, u, d, z, c2) ==
    c2 = [c EXCEPT !.todo = @ \ {[tile |-> i, col |-> col]}, !.cur = @ + Len(u), !.zp = z,
                   !.main[i] = IF col = "f" THEN [@ EXCEPT !.f = d] ELSE [@ EXCEPT !.v = d]]

SameCall(c, c2) ==
    /\ c2.op = c.op /\ c2.cs = c.cs /\ c2.cards = c.cards /\ c2.data = c.data /\ c2.at = c.at
    /\ c2.theap = c.theap /\ c2.old = c.old /\ c2.buffered = c.buffered

\* What the call keeps in a step.
LEMMA SameCallParts ==
  ASSUME NEW c, NEW c2, SameCall(c, c2)
  PROVE  /\ RowsAfter(c2) = RowsAfter(c) /\ Kept(c2) = Kept(c) /\ Result(c2) = Result(c)
         /\ \A i : TileEdits(c2, i) = TileEdits(c, i)
<1>1. RowsAfter(c2) = RowsAfter(c) /\ Kept(c2) = Kept(c)
  BY DEF SameCall, RowsAfter, Kept
<1>2. \A i : TileEdits(c2, i) = TileEdits(c, i)
  BY DEF SameCall, TileEdits
<1>3. \A r : LastEdit(c2, r) = LastEdit(c, r)
  BY DEF SameCall, LastEdit
<1>4. c2.op = c.op /\ c2.data = c.data /\ c2.cs = c.cs
  BY DEF SameCall
<1>5. Result(c2) = Result(c)
  BY <1>2, <1>3, <1>4 DEF Result
<1> QED
  BY <1>1, <1>2, <1>5

\* What the call is after it has encoded a tile of a column.
LEMMA StepFields ==
  ASSUME Typed, NEW c, CallOK(c), NEW i, NEW col \in {"f", "v"}, Left(c, i, col), NEW u, IsSeq(u),
         NEW d \in HeapDescs, NEW z \in Nat, NEW c2, Steps(c, i, col, u, d, z, c2)
  PROVE  /\ i \in 1..c.theap /\ SameCall(c, c2) /\ c2 \in Calls
         /\ c2.todo = c.todo \ {[tile |-> i, col |-> col]}
         /\ c2.cur = c.cur + Len(u) /\ c.cur <= c2.cur /\ c2.cur \in Nat /\ c2.zp = z
         /\ Len(c2.main) = c.theap
         /\ \A k \in 1..c.theap :
              /\ c2.main[k] \in TileDescs
              /\ c2.main[k].f = IF k = i /\ col = "f" THEN d ELSE c.main[k].f
              /\ c2.main[k].v = IF k = i /\ col = "v" THEN d ELSE c.main[k].v
<1> DEFINE x == [tile |-> i, col |-> col]
           A == c.todo \ {x}
           B == c.cur + Len(u)
           t == c.main[i]
           e == IF col = "f" THEN [t EXCEPT !.f = d] ELSE [t EXCEPT !.v = d]
           M == [c.main EXCEPT ![i] = e]
<1>0. c \in Calls /\ Len(c.main) = c.theap /\ c.main \in Seq(TileDescs) /\ c.cur \in Nat /\ c.theap \in Nat
  BY CallParts DEF CallOK
<1>1. x \in c.todo /\ i \in 1..c.theap
  BY DEF Left, CallOK
<1>2. Len(u) \in Nat
  BY SeqIsFun
<1>3. c2 = [c EXCEPT !.todo = A, !.cur = B, !.zp = z, !.main = M]
  BY DEF Steps
<1>4. t \in TileDescs
  BY <1>0, <1>1, ElementOfSeq
<1>5. /\ e \in TileDescs
      /\ e.f = IF col = "f" THEN d ELSE t.f
      /\ e.v = IF col = "v" THEN d ELSE t.v
  <2> HIDE DEF t
  <2>1. CASE col = "f"
    BY <1>4, <2>1 DEF TileDescs
  <2>2. CASE col = "v"
    BY <1>4, <2>2 DEF TileDescs
  <2> QED
    BY <2>1, <2>2
<1> HIDE DEF e
<1>6. M \in Seq(TileDescs) /\ Len(M) = c.theap /\ \A k \in 1..c.theap : M[k] = IF k = i THEN e ELSE c.main[k]
  <2> DEFINE s == c.main
             n == c.theap
  <2>1. s \in Seq(TileDescs) /\ Len(s) = n /\ i \in 1..n /\ e \in TileDescs /\ n \in Nat
    BY <1>0, <1>1, <1>5
  <2>2. M = [s EXCEPT ![i] = e]
    OBVIOUS
  <2> HIDE DEF s, n, M
  <2> QED
    BY <2>1, <2>2 DEF s, n
<1>7. \A k \in 1..c.theap : c.main[k] \in TileDescs
  BY <1>0, ElementOfSeq
<1> HIDE DEF M
<1>8. \A k \in 1..c.theap :
        /\ M[k] \in TileDescs
        /\ M[k].f = IF k = i /\ col = "f" THEN d ELSE c.main[k].f
        /\ M[k].v = IF k = i /\ col = "v" THEN d ELSE c.main[k].v
  BY <1>5, <1>6, <1>7 DEF t
<1>9. A \subseteq c.todo /\ B \in Nat /\ c.cur <= B
  BY <1>0, <1>2
<1> HIDE DEF A, B
<1>10. /\ c2.op = c.op /\ c2.cs = c.cs /\ c2.cards = c.cards /\ c2.data = c.data /\ c2.at = c.at
       /\ c2.theap = c.theap /\ c2.old = c.old /\ c2.buffered = c.buffered
       /\ c2.todo = A /\ c2.cur = B /\ c2.zp = z /\ c2.main = M
  BY <1>0, <1>3 DEF Calls
<1>11. c2 \in Calls
  <2>1. c.todo \in SUBSET [tile : Nat, col : cols]
    BY <1>0 DEF Calls
  <2>2. A \in SUBSET [tile : Nat, col : cols]
    BY <1>9, <2>1
  <2> QED
    BY <1>0, <1>3, <1>6, <1>9, <2>2 DEF Calls
<1> QED
  BY <1>1, <1>6, <1>8, <1>9, <1>10, <1>11 DEF SameCall, A, B
\* The step of call c from section S, with all it rests on.
Stepping(c, i, col, u, d, z, c2, D0, D) ==
    /\ Typed /\ CallOK(c) /\ Left(c, i, col) /\ col \in {"f", "v"} /\ IsSeq(u) /\ d \in HeapDescs
    /\ z \in Nat /\ (c.op # "setitem" => z = c.zp) /\ Steps(c, i, col, u, d, z, c2)
    /\ D0 \in [1..cards.rows -> CellDescs]
    /\ Work(cols, sect, cards, table, Result(c), c, D0, D)

\* The section after it.
Grown(c, u) == WriteAt(sect, c.theap + c.cur + 1, u)

\* The fields of the call after the step.
LEMMA StepParts ==
  ASSUME NEW c, NEW i, NEW col, NEW u, NEW d, NEW z, NEW c2, NEW D0, NEW D,
         Stepping(c, i, col, u, d, z, c2, D0, D)
  PROVE  /\ i \in 1..c.theap /\ SameCall(c, c2) /\ c2 \in Calls
         /\ c2.todo = c.todo \ {[tile |-> i, col |-> col]}
         /\ c2.cur = c.cur + Len(u) /\ c.cur <= c2.cur /\ c2.cur \in Nat /\ c2.zp = z
         /\ Len(c2.main) = c.theap
         /\ \A k \in 1..c.theap :
              /\ c2.main[k] \in TileDescs
              /\ c2.main[k].f = IF k = i /\ col = "f" THEN d ELSE c.main[k].f
              /\ c2.main[k].v = IF k = i /\ col = "v" THEN d ELSE c.main[k].v
<1>1. /\ Typed /\ CallOK(c) /\ Left(c, i, col) /\ col \in {"f", "v"} /\ IsSeq(u) /\ d \in HeapDescs
      /\ z \in Nat /\ Steps(c, i, col, u, d, z, c2)
  BY DEF Stepping
<1> QED
  BY <1>1, StepFields

\* The call after the step is well-formed.
LEMMA StepCallOK ==
  ASSUME NEW c, NEW i, NEW col, NEW u, NEW d, NEW z, NEW c2, NEW D0, NEW D,
         Stepping(c, i, col, u, d, z, c2, D0, D)
  PROVE  CallOK(c2)
<1>1. /\ SameCall(c, c2) /\ c2 \in Calls /\ c2.todo = c.todo \ {[tile |-> i, col |-> col]}
      /\ c.cur <= c2.cur /\ c2.cur \in Nat /\ c2.zp = z /\ Len(c2.main) = c.theap
  BY StepParts
<1>2. Typed /\ CallOK(c) /\ (c.op # "setitem" => z = c.zp)
  BY DEF Stepping
<1>3. RowsAfter(c2) = RowsAfter(c) /\ \A k : TileEdits(c2, k) = TileEdits(c, k)
  BY <1>1, SameCallParts
<1>4. /\ c2.op = c.op /\ c2.cs = c.cs /\ c2.data = c.data /\ c2.at = c.at /\ c2.theap = c.theap
  BY <1>1 DEF SameCall
<1>5. c2.todo \subseteq c.todo
  BY <1>1
<1>6. c2.theap = Tiles(RowsAfter(c2)) /\ Len(c2.main) = c2.theap
  BY <1>1, <1>2, <1>3, <1>4 DEF CallOK
<1>7. c2.todo \subseteq [tile : 1..c2.theap, col : c2.cs]
  BY <1>2, <1>4, <1>5 DEF CallOK
<1>8. c2.op = "write" => c2.cs = cols /\ Len(c2.data) = cards.rows
  BY <1>2, <1>4 DEF CallOK
<1>9. c2.op = "append" => /\ c2.cs = cols /\ Len(c2.data) > 0 /\ c2.zp = cards.zpcount
                          /\ \A x \in c2.todo : cards.rows < x.tile * TileRows
  BY <1>1, <1>2, <1>4, <1>5 DEF CallOK
<1>10. c2.op = "setitem" => /\ Len(c2.data) = Len(c2.at)
                           /\ \A x \in c2.todo : TileEdits(c2, x.tile) # {}
  BY <1>2, <1>3, <1>4, <1>5 DEF CallOK
<1>11. c2.op # "write" => cards.pcount <= c2.cur
  <2>1. cards.pcount \in Nat /\ c.cur \in Nat
    BY <1>2, CallParts
  <2>2. c.op # "write" => cards.pcount <= c.cur
    BY <1>2 DEF CallOK
  <2> QED
    BY <1>1, <1>4, <2>1, <2>2
<1> QED
  BY <1>1, <1>6, <1>7, <1>8, <1>9, <1>10, <1>11 DEF CallOK

\* What the step leaves of the section.
LEMMA StepSection ==
  ASSUME NEW c, NEW i, NEW col, NEW u, NEW d, NEW z, NEW c2, NEW D0, NEW D,
         Stepping(c, i, col, u, d, z, c2, D0, D)
  PROVE  LET S2 == Grown(c, u) IN
         /\ IsSeq(S2) /\ Lies(S2, c.theap + c.cur, u) /\ cards.tiles <= Len(S2)
         /\ \A k \in 1..cards.tiles : S2[k] = sect[k]
         /\ Moves(sect, c.theap, c.cur, S2, c.theap, c2.cur)
         /\ c.op # "write" => Moves(sect, c.theap, cards.pcount, S2, c.theap, cards.pcount)
<1> DEFINE S2 == Grown(c, u)
           p == c.theap + c.cur
<1>1. /\ c2.cur = c.cur + Len(u) /\ c.cur <= c2.cur /\ c2.cur \in Nat
  BY StepParts
<1>2. Typed /\ CallOK(c) /\ IsSeq(u)
  BY DEF Stepping
<1>3. /\ c.theap \in Nat /\ c.cur \in Nat /\ cards.rows \in Nat /\ cards.tiles \in Nat /\ cards.pcount \in Nat
      /\ cards.tiles = Tiles(cards.rows) /\ c.theap = Tiles(RowsAfter(c)) /\ RowsAfter(c) \in Nat
      /\ Len(c.data) \in Nat
  BY <1>2, CallParts
<1>4. IsSeq(sect) /\ cards.tiles <= Len(sect)
  BY <1>2 DEF Typed, SectOK
<1>5. cards.tiles <= c.theap
  <2>1. cards.rows <= RowsAfter(c)
    <3>1. c.op = "append" => c.cards.rows = cards.rows
      BY <1>2, CallParts
    <3>2. c.cards = cards
      BY <1>2, CallParts
    <3> QED
      BY <1>3, <3>2 DEF RowsAfter
  <2> QED
    BY <1>3, <2>1, TilesGrow
<1>6. Len(sect) \in Nat /\ Len(u) \in Nat
  BY <1>2, <1>4, SeqIsFun
<1>7. p \in Nat
  BY <1>3
<1>8. S2 = WriteAt(sect, p + 1, u)
  BY DEF Grown
<1>9. /\ IsSeq(S2) /\ Len(S2) = (IF Len(sect) < p + Len(u) THEN p + Len(u) ELSE Len(sect))
      /\ \A q \in 1..Len(sect) : q <= p \/ q > p + Len(u) => S2[q] = sect[q]
  <2> HIDE DEF p, S2
  <2> QED
    BY <1>2, <1>4, <1>7, <1>8, Written
<1>10. Lies(S2, p, u)
  <2> HIDE DEF p, S2
  <2> QED
    BY <1>2, <1>4, <1>7, <1>8, WrittenLies
<1>11. cards.tiles <= Len(S2) /\ \A k \in 1..cards.tiles : S2[k] = sect[k]
  <2>1. cards.tiles <= p
    BY <1>3, <1>5
  <2> HIDE DEF p, S2
  <2> QED
    BY <1>3, <1>4, <1>6, <1>7, <1>9, <2>1
<1>12. ASSUME NEW n \in Nat, n <= c.cur
       PROVE  Carries(sect, c.theap, S2, c.theap, n)
  <2>1. c.theap + n <= p
    BY <1>3, <1>12
  <2> HIDE DEF p, S2
  <2>2. c.theap + n <= p \/ p + Len(u) <= c.theap
    BY <2>1
  <2> QED
    BY <1>2, <1>3, <1>4, <1>7, <1>8, <1>12, <2>2, WrittenCarries
<1>13. c.op # "write" => cards.pcount <= c.cur
  BY <1>2 DEF CallOK
<1> HIDE DEF S2
<1>14. Moves(sect, c.theap, c.cur, S2, c.theap, c2.cur)
  BY <1>1, <1>3, <1>12 DEF Moves
<1>15. c.op # "write" => Moves(sect, c.theap, cards.pcount, S2, c.theap, cards.pcount)
  BY <1>3, <1>12, <1>13 DEF Moves
<1> QED
  BY <1>9, <1>10, <1>11, <1>14, <1>15 DEF S2

\* The old content is still there.
LEMMA StepOld ==
  ASSUME NEW c, NEW i, NEW col, NEW u, NEW d, NEW z, NEW c2, NEW D0, NEW D,
         Stepping(c, i, col, u, d, z, c2, D0, D)
  PROVE  OldThere(cols, Grown(c, u), cards, table, c2, D0)
<1> DEFINE S2 == Grown(c, u)
<1>1. Typed /\ CallOK(c) /\ D0 \in [1..cards.rows -> CellDescs] /\ OldThere(cols, sect, cards, table, c, D0)
  BY DEF Stepping, Work
<1>2. SameCall(c, c2)
  BY StepParts
<1>3. c2.op = c.op /\ c2.old = c.old /\ c2.theap = c.theap
  BY <1>2 DEF SameCall
<1>4. /\ table \in Seq(TableRows) /\ Len(table) = cards.rows /\ cards.tiles = Tiles(cards.rows)
      /\ cards.tiles \in Nat /\ cards.rows \in Nat
  BY <1>1, CallParts
<1>5. /\ \A k \in 1..cards.tiles : S2[k] = sect[k]
      /\ c.op # "write" => Moves(sect, c.theap, cards.pcount, S2, c.theap, cards.pcount)
  BY StepSection
<1>6. \A k \in 1..cards.tiles : sect[k] \in TileDescs
  BY <1>1 DEF Typed, SectOK
<1> HIDE DEF S2
<1>7. ASSUME c.op # "write"
      PROVE  Content(cols, S2, c.theap, cards.pcount, S2, table, D0)
  <2>1. Content(cols, sect, c.theap, cards.pcount, sect, table, D0)
    BY <1>1, <1>7 DEF OldThere
  <2>2. \A k \in 1..Tiles(Len(table)) : sect[k] \in TileDescs /\ S2[k] = sect[k]
    BY <1>4, <1>5, <1>6
  <2>3. Moves(sect, c.theap, cards.pcount, S2, c.theap, cards.pcount)
    BY <1>5, <1>7
  <2>4. D0 \in [1..Len(table) -> CellDescs]
    BY <1>1, <1>4
  <2> QED
    BY <1>4, <2>1, <2>2, <2>3, <2>4, ContentMoved
<1>8. ASSUME c.op # "write"
      PROVE  MergeOK(cols, S2, cards, table, c2, D0)
  <2>1. MergeOK(cols, sect, cards, table, c, D0)
    BY <1>1, <1>8 DEF OldThere
  <2>2. cards.rows < cards.tiles * TileRows => cards.tiles \in 1..cards.tiles
    <3>1. cards.tiles = 0 => cards.tiles * TileRows = 0
      BY Products
    <3> QED
      BY <1>4, <3>1
  <2>3. cards.rows < cards.tiles * TileRows => S2[cards.tiles] = sect[cards.tiles]
    BY <1>5, <2>2
  <2> QED
    BY <1>3, <2>1, <2>3 DEF MergeOK
<1> QED
  BY <1>3, <1>7, <1>8 DEF OldThere, S2

\* What is left to do.
LEMMA StepLeft ==
  ASSUME NEW c, NEW i, NEW col, NEW u, NEW d, NEW z, NEW c2, NEW D0, NEW D,
         Stepping(c, i, col, u, d, z, c2, D0, D), NEW k, NEW e
  PROVE  Left(c2, k, e) <=> Left(c, k, e) /\ ~(k = i /\ e = col)
<1>1. c2.todo = c.todo \ {[tile |-> i, col |-> col]}
  BY StepParts
<1> QED
  BY <1>1 DEF Left

\* The result that the call works at.
LEMMA ResultTyped ==
  ASSUME Typed, NEW c, CallOK(c)
  PROVE  Result(c) \in Seq(TableRows) /\ Len(Result(c)) = RowsAfter(c)
<1>1. CASE c.op = "setitem"
  BY <1>1, ResultSet
<1>2. CASE c.op # "setitem"
  BY <1>2, ResultNew
<1> QED
  BY <1>1, <1>2

\* The slabs after the step.
LEMMA StepSlabs ==
  ASSUME NEW c, NEW i, NEW col, NEW u, NEW d, NEW z, NEW c2, NEW D0, NEW D,
         Stepping(c, i, col, u, d, z, c2, D0, D),
         col = "f" => SlabSpells(Grown(c, u), c.theap, c2.cur, d, i, Result(c))
  PROVE  SlabsDone(Grown(c, u), Result(c), c2)
<1> DEFINE S2 == Grown(c, u)
           R == Result(c)
<1>1. Typed /\ CallOK(c) /\ SlabsDone(sect, R, c)
  BY DEF Stepping, Work
<1>2. SameCall(c, c2) /\ \A k \in 1..c.theap : c2.main[k].f = IF k = i /\ col = "f" THEN d ELSE c.main[k].f
  BY StepParts
<1>3. c2.theap = c.theap
  BY <1>2 DEF SameCall
<1>4. Moves(sect, c.theap, c.cur, S2, c.theap, c2.cur)
  BY StepSection
<1>5. R \in Seq(TableRows) /\ Tiles(Len(R)) = c.theap
  BY <1>1, ResultTyped, CallParts
<1>6. \A k \in 1..c.theap : c.main[k].f \in HeapDescs
  <2>1. c.main \in Seq(TileDescs) /\ Len(c.main) = c.theap
    BY <1>1, CallParts
  <2>2. \A k \in 1..c.theap : c.main[k] \in TileDescs
    BY <2>1, ElementOfSeq
  <2> QED
    BY <2>2 DEF TileDescs
<1> HIDE DEF S2, R
<1>7. ASSUME NEW k \in 1..c2.theap, ~Left(c2, k, "f")
      PROVE  SlabSpells(S2, c2.theap, c2.cur, c2.main[k].f, k, R)
  <2>1. Left(c2, k, "f") <=> Left(c, k, "f") /\ ~(k = i /\ "f" = col)
    BY StepLeft
  <2>2. CASE k = i /\ col = "f"
    BY <1>2, <1>3, <2>2 DEF S2, R
  <2>3. CASE ~(k = i /\ col = "f")
    <3>1. ~Left(c, k, "f") /\ k \in 1..c.theap /\ c2.main[k].f = c.main[k].f
      BY <1>2, <1>3, <1>7, <2>1, <2>3
    <3>2. SlabSpells(sect, c.theap, c.cur, c.main[k].f, k, R)
      BY <1>1, <3>1 DEF SlabsDone
    <3>3. SlabSpells(S2, c.theap, c2.cur, c.main[k].f, k, R)
      BY <1>4, <1>5, <1>6, <3>1, <3>2, SlabMoved
    <3> QED
      BY <1>3, <3>1, <3>3
  <2> QED
    BY <2>2, <2>3
<1> QED
  BY <1>7 DEF SlabsDone, S2, R

\* Descriptors that differ at most in the rows of tile i.
SameElsewhere(n, i, D, D2) == \A r \in 1..n : TileOfRow(r) # i => D2[r] = D[r]

\* The blob of a tile does not depend on the descriptors of other tiles.
LEMMA BlobElsewhere ==
  ASSUME NEW cs, NEW S, NEW th, NEW lim, NEW d, NEW tab, Len(tab) \in Nat, NEW k \in 1..Tiles(Len(tab)), NEW i, k # i,
         NEW D, NEW D2, SameElsewhere(Len(tab), i, D, D2), BlobSpells(cs, S, th, lim, d, k, tab, D)
  PROVE  BlobSpells(cs, S, th, lim, d, k, tab, D2)
<1> DEFINE len == TileLen(k, Len(tab))
<1>1. \A j \in 1..len : D2[RowOf(k, j)] = D[RowOf(k, j)]
  BY PlaceRow DEF SameElsewhere
<1>2. DescsOf(D2, k, Len(tab)) = DescsOf(D, k, Len(tab))
  BY <1>1 DEF DescsOf
<1> QED
  BY <1>1, <1>2 DEF BlobSpells

\* The blobs after the step.
LEMMA StepBlobs ==
  ASSUME NEW c, NEW i, NEW col, NEW u, NEW d, NEW z, NEW c2, NEW D0, NEW D,
         Stepping(c, i, col, u, d, z, c2, D0, D), NEW D2, col = "f" => D2 = D,
         SameElsewhere(RowsAfter(c), i, D, D2),
         col = "v" => BlobSpells(cols, Grown(c, u), c.theap, c2.cur, d, i, Result(c), D2)
  PROVE  BlobsDone(cols, Grown(c, u), Result(c), c2, D2)
<1> DEFINE S2 == Grown(c, u)
           R == Result(c)
<1>1. Typed /\ CallOK(c) /\ BlobsDone(cols, sect, R, c, D) /\ D \in [1..RowsAfter(c) -> CellDescs]
  BY DEF Stepping, Work
<1>2. SameCall(c, c2) /\ \A k \in 1..c.theap : c2.main[k].v = IF k = i /\ col = "v" THEN d ELSE c.main[k].v
  BY StepParts
<1>3. c2.theap = c.theap
  BY <1>2 DEF SameCall
<1>4. Moves(sect, c.theap, c.cur, S2, c.theap, c2.cur)
  BY StepSection
<1>5. R \in Seq(TableRows) /\ Tiles(Len(R)) = c.theap /\ Len(R) = RowsAfter(c) /\ Len(R) \in Nat
  BY <1>1, ResultTyped, CallParts
<1>6. \A k \in 1..c.theap : c.main[k].v \in HeapDescs
  <2>1. c.main \in Seq(TileDescs) /\ Len(c.main) = c.theap
    BY <1>1, CallParts
  <2>2. \A k \in 1..c.theap : c.main[k] \in TileDescs
    BY <2>1, ElementOfSeq
  <2> QED
    BY <2>2 DEF TileDescs
<1>0. col \in {"f", "v"}
  BY DEF Stepping
<1> HIDE DEF S2, R
<1>7. ASSUME NEW k \in 1..c2.theap, ~Left(c2, k, "v")
      PROVE  BlobSpells(cols, S2, c2.theap, c2.cur, c2.main[k].v, k, R, D2)
  <2>1. Left(c2, k, "v") <=> Left(c, k, "v") /\ ~(k = i /\ "v" = col)
    BY StepLeft
  <2>2. CASE k = i /\ col = "v"
    BY <1>2, <1>3, <2>2 DEF S2, R
  <2>3. CASE ~(k = i /\ col = "v")
    <3>1. ~Left(c, k, "v") /\ k \in 1..c.theap /\ c2.main[k].v = c.main[k].v
      BY <1>2, <1>3, <1>7, <2>1, <2>3
    <3>2. BlobSpells(cols, sect, c.theap, c.cur, c.main[k].v, k, R, D)
      BY <1>1, <3>1 DEF BlobsDone
    <3>3. D \in [1..Len(R) -> CellDescs]
      BY <1>1, <1>5
    <3>4. BlobSpells(cols, S2, c.theap, c2.cur, c.main[k].v, k, R, D)
      BY <1>4, <1>5, <1>6, <3>1, <3>2, <3>3, BlobMoved
    <3>5. BlobSpells(cols, S2, c.theap, c2.cur, c.main[k].v, k, R, D2)
      <4>1. CASE col = "f"
        BY <3>4, <4>1
      <4>2. CASE k # i
        <5>1. SameElsewhere(Len(R), i, D, D2) /\ k \in 1..Tiles(Len(R))
          BY <1>5, <3>1
        <5> QED
          BY <1>5, <3>4, <4>2, <5>1, BlobElsewhere
      <4> QED
        BY <1>0, <2>3, <4>1, <4>2
    <3> QED
      BY <1>3, <3>1, <3>5
  <2> QED
    BY <2>2, <2>3
<1> QED
  BY <1>7 DEF BlobsDone, S2, R

\* What is left of a setitem, and the plan of the others.
LEMMA StepRest ==
  ASSUME NEW c, NEW i, NEW col, NEW u, NEW d, NEW z, NEW c2, NEW D0, NEW D,
         Stepping(c, i, col, u, d, z, c2, D0, D), NEW D2, col = "f" => D2 = D,
         SameElsewhere(RowsAfter(c), i, D, D2),
         PlanKept(cols, c, D0, D2)
  PROVE  EditsLeft(Grown(c, u), c2, D0, D2) /\ PlanKept(cols, c2, D0, D2)
<1> DEFINE S2 == Grown(c, u)
<1>1. Typed /\ CallOK(c) /\ EditsLeft(sect, c, D0, D) /\ (c.op # "setitem" => z = c.zp) /\ col \in {"f", "v"}
  BY DEF Stepping, Work
<1>2. /\ SameCall(c, c2) /\ \A k \in 1..c.theap : c2.main[k].v = IF k = i /\ col = "v" THEN d ELSE c.main[k].v
      /\ c2.zp = z
  BY StepParts
<1>3. c2.op = c.op /\ c2.theap = c.theap /\ c2.cards = c.cards /\ c2.data = c.data
  BY <1>2 DEF SameCall
<1>4. \A k \in 1..cards.tiles : S2[k] = sect[k]
  BY StepSection
<1>5. /\ RowsAfter(c) \in Nat /\ c.theap = Tiles(RowsAfter(c)) /\ c.cards = cards /\ cards.rows \in Nat
      /\ cards.tiles = Tiles(cards.rows)
  BY <1>1, CallParts
<1>6. RowsAfter(c2) = RowsAfter(c) /\ Kept(c2) = Kept(c)
  BY <1>2, SameCallParts
<1> HIDE DEF S2
<1>7. ASSUME c.op = "setitem", NEW k \in 1..c2.theap, Left(c2, k, "v")
      PROVE  /\ c2.main[k].v = S2[k].v
             /\ \A j \in 1..TileLen(k, c2.cards.rows) : D2[RowOf(k, j)] = D0[RowOf(k, j)]
  <2>1. Left(c, k, "v") /\ ~(k = i /\ col = "v")
    BY <1>7, StepLeft
  <2>2. RowsAfter(c) = cards.rows /\ c.theap = cards.tiles
    BY <1>1, <1>7, ResultSet
  <2>3. /\ c.main[k].v = sect[k].v
        /\ \A j \in 1..TileLen(k, c.cards.rows) : D[RowOf(k, j)] = D0[RowOf(k, j)]
    BY <1>1, <1>3, <1>7, <2>1 DEF EditsLeft
  <2>4. c2.main[k].v = c.main[k].v /\ S2[k] = sect[k]
    BY <1>2, <1>3, <1>4, <2>1, <2>2
  <2>5. ASSUME NEW j \in 1..TileLen(k, cards.rows)
        PROVE  D2[RowOf(k, j)] = D[RowOf(k, j)]
    <3>1. CASE col = "f"
      BY <3>1
    <3>2. CASE k # i
      <4>1. RowOf(k, j) \in 1..cards.rows /\ TileOfRow(RowOf(k, j)) = k
        BY <1>3, <1>5, <2>2, PlaceRow
      <4> QED
        BY <2>2, <3>2, <4>1 DEF SameElsewhere
    <3> QED
      BY <1>1, <2>1, <3>1, <3>2
  <2> QED
    BY <1>3, <1>5, <2>3, <2>4, <2>5
<1>8. EditsLeft(S2, c2, D0, D2)
  BY <1>3, <1>7 DEF EditsLeft
<1>9. PlanKept(cols, c2, D0, D2)
  <2>1. ASSUME c.op # "setitem"
        PROVE  \A r : Planned(c2, D0, r) = Planned(c, D0, r)
    BY <1>1, <1>2, <1>3, <1>6, <2>1 DEF Planned
  <2> QED
    BY <1>3, <1>6, <2>1 DEF PlanKept
<1> QED
  BY <1>8, <1>9 DEF S2

\* The two parts of units that lie together.
LEMMA LiesParts ==
  ASSUME NEW S, NEW w, NEW b, IsSeq(w), IsSeq(b), NEW p \in Nat, Lies(S, p, w \o b)
  PROVE  Lies(S, p, w) /\ Lies(S, p + Len(w), b)
<1> DEFINE u == w \o b
           z == 0
           l == Len(w)
<1>1. IsSeq(u) /\ l \in Nat /\ z \in Nat
  BY ConcatIs, SeqIsFun
<1>2. Lies(w, z, w) /\ Lies(b, z, b)
  BY LiesInItself
<1>3. Lies(u, z, w) /\ Lies(u, l + z, b)
  <2> HIDE DEF z
  <2> QED
    BY <1>1, <1>2, LiesInConcat
<1>4. l + z = l /\ p + z = p
  BY <1>1
<1> HIDE DEF u, z, l
<1>5. Lies(S, p + z, w) /\ Lies(S, p + l, b)
  BY <1>1, <1>3, <1>4, LiesWithin DEF u
<1> QED
  BY <1>4, <1>5 DEF l

\* The step writes the slab of the result.
LEMMA StepSlab ==
  ASSUME NEW c, NEW i, NEW u, NEW d, NEW z, NEW c2, NEW D0, NEW D,
         Stepping(c, i, "f", u, d, z, c2, D0, D), ~Undecodable(c, i, "f"),
         u = Encoded(c, i, "f").units, d = Encoded(c, i, "f").desc
  PROVE  SlabSpells(Grown(c, u), c.theap, c2.cur, d, i, Result(c))
<1> DEFINE S2 == Grown(c, u)
           R == Result(c)
           x == SlabOf(R, i)
<1>1. /\ Typed /\ CallOK(c) /\ Left(c, i, "f") /\ D0 \in [1..cards.rows -> CellDescs]
      /\ OldThere(cols, sect, cards, table, c, D0)
  BY DEF Stepping, Work
<1>2. /\ (IF c.op = "setitem" THEN PatchedSlab(c, i) ELSE NewSlab(c, i)) = x
      /\ \A j \in 1..TileLen(i, RowsAfter(c)) : R[RowOf(i, j)].f # 0
  <2>1. CASE c.op = "setitem"
    BY <1>1, <2>1, PatchedSlabIs
  <2>2. CASE c.op # "setitem"
    BY <1>1, <2>2, NewSlabIs
  <2> QED
    BY <2>1, <2>2
<1>3. u = Slab(x) /\ d = [n |-> Len(u), off |-> c.cur]
  BY <1>2 DEF Encoded, Desc
<1>4. R \in Seq(TableRows) /\ Len(R) = RowsAfter(c) /\ c.theap = Tiles(RowsAfter(c)) /\ c.cur \in Nat
      /\ c.theap \in Nat
  BY <1>1, ResultTyped, CallParts
<1>5. i \in 1..Tiles(Len(R)) /\ c2.cur = c.cur + Len(u)
  BY <1>4, StepParts
<1>6. x \in Seq(Nat) /\ x # <<>> /\ x[1] # 0
  BY <1>2, <1>4, <1>5, SlabOfIs
<1> HIDE DEF x, R
<1>7. PICK n \in Nat \ {0} : u = Units("slab", x, n)
  BY <1>3, <1>6, SlabIs
<1>8. Len(u) = n
  BY <1>7, UnitsAre
<1>9. Lies(S2, c.theap + c.cur, u)
  BY StepSection
<1> HIDE DEF S2
<1>10. d.n # 0 /\ PartLies(S2, c.theap, c2.cur, d, Slab(x))
  <2>1. d.n = n /\ d.off = c.cur
    BY <1>3, <1>8
  <2> QED
    BY <1>3, <1>4, <1>5, <1>8, <1>9, <2>1 DEF PartLies
<1> QED
  BY <1>2, <1>4, <1>10 DEF SlabSpells, x, R, S2

\* Cells that lie, and the blob behind them.
BlobLaid(cs, S, th, cur, lim, w, b, d, i, tab, D) ==
    /\ tab \in Seq(TableRows) /\ i \in 1..Tiles(Len(tab)) /\ D \in [1..Len(tab) -> CellDescs]
    /\ th \in Nat /\ cur \in Nat /\ IsSeq(w) /\ b = Blob(DescsOf(D, i, Len(tab)))
    /\ Lies(S, th + cur, w \o b) /\ lim = cur + Len(w \o b) /\ "v" \in cs
    /\ d = [n |-> Len(b), off |-> cur + Len(w)]
    /\ \A j \in 1..TileLen(i, Len(tab)) :
         /\ tab[RowOf(i, j)].v # NoCell
         /\ CellLies(S, th, lim, D[RowOf(i, j)], tab[RowOf(i, j)].v)

\* Cells, and behind them the blob with their descriptors, spell the tile.
LEMMA BlobIsLaid ==
  ASSUME NEW cs, NEW S, NEW th, NEW cur, NEW lim, NEW w, NEW b, NEW d, NEW i, NEW tab, NEW D,
         BlobLaid(cs, S, th, cur, lim, w, b, d, i, tab, D)
  PROVE  BlobSpells(cs, S, th, lim, d, i, tab, D)
<1> DEFINE y == DescsOf(D, i, Len(tab))
<1>0. /\ tab \in Seq(TableRows) /\ i \in 1..Tiles(Len(tab)) /\ D \in [1..Len(tab) -> CellDescs]
      /\ th \in Nat /\ cur \in Nat /\ IsSeq(w) /\ b = Blob(y)
      /\ Lies(S, th + cur, w \o b) /\ lim = cur + Len(w \o b) /\ "v" \in cs
      /\ d = [n |-> Len(b), off |-> cur + Len(w)]
      /\ \A j \in 1..TileLen(i, Len(tab)) :
           /\ tab[RowOf(i, j)].v # NoCell
           /\ CellLies(S, th, lim, D[RowOf(i, j)], tab[RowOf(i, j)].v)
  BY DEF BlobLaid
<1>1. y \in Seq(CellDescs)
  BY <1>0, TilePartsAre
<1> HIDE DEF y
<1>2. PICK n \in Nat \ {0} : b = Units("blob", y, n)
  BY <1>0, <1>1, BlobIs
<1>3. Len(b) = n /\ IsSeq(b)
  BY <1>2, UnitsAre
<1>4. Len(w) \in Nat /\ Len(w \o b) = Len(w) + Len(b)
  BY <1>0, <1>3, ConcatIs, SeqIsFun
<1>5. Lies(S, (th + cur) + Len(w), b)
  <2> DEFINE p == th + cur
  <2>1. p \in Nat /\ Lies(S, p, w \o b)
    BY <1>0
  <2> HIDE DEF p
  <2>2. Lies(S, p + Len(w), b)
    BY <1>0, <1>3, <2>1, LiesParts
  <2> QED
    BY <2>2 DEF p
<1>6. d.n = n /\ d.off = cur + Len(w)
  BY <1>0, <1>3
<1>7. th + d.off = (th + cur) + Len(w) /\ d.off + d.n <= lim
  BY <1>0, <1>3, <1>4, <1>6
<1>8. d.n # 0 /\ PartLies(S, th, lim, d, Blob(y))
  BY <1>0, <1>3, <1>5, <1>6, <1>7 DEF PartLies
<1> QED
  BY <1>0, <1>8 DEF BlobSpells, y

\* The step of write or append writes the cells and the blob of the result.
LEMMA StepNewBlob ==
  ASSUME NEW c, NEW i, NEW u, NEW d, NEW z, NEW c2, NEW D0, NEW D,
         Stepping(c, i, "v", u, d, z, c2, D0, D), c.op # "setitem",
         u = Encoded(c, i, "v").units, d = Encoded(c, i, "v").desc
  PROVE  \E D2 \in [1..RowsAfter(c) -> CellDescs] :
           /\ SameElsewhere(RowsAfter(c), i, D, D2) /\ PlanKept(cols, c, D0, D2)
           /\ Origs(D2, RowsAfter(c), HeapEnd(c))
           /\ BlobSpells(cols, Grown(c, u), c.theap, c2.cur, d, i, Result(c), D2)
<1> DEFINE S2 == Grown(c, u)
           R == Result(c)
           n == RowsAfter(c)
           len == TileLen(i, n)
           a == NewCells(c, i)
           b == Blob(a.descs)
           D2 == [r \in 1..n |-> IF TileOfRow(r) = i THEN a.descs[PlaceOfRow(r)] ELSE D[r]]
<1>1. /\ Typed /\ CallOK(c) /\ Left(c, i, "v") /\ D0 \in [1..cards.rows -> CellDescs]
      /\ OldThere(cols, sect, cards, table, c, D0) /\ D \in [1..n -> CellDescs]
      /\ Origs(D, n, HeapEnd(c)) /\ PlanKept(cols, c, D0, D)
  BY DEF Stepping, Work
<1>2. u = a.units \o b /\ d = [n |-> Len(b), off |-> c.cur + Len(a.units)]
  BY DEF Encoded, Desc
<1>3. PICK us, of :
           /\ a = Laid(us, of, c.cur)
           /\ CellsToLay(len, CellsOf(R, i), us, of)
           /\ \A j \in 1..len :
                /\ R[RowOf(i, j)].v # NoCell
                /\ of[j].n = Planned(c, D0, RowOf(i, j)).n /\ of[j].orig = Planned(c, D0, RowOf(i, j)).orig
  BY <1>1, NewCellsAre
<1>4. R \in Seq(TableRows) /\ Len(R) = n /\ c.theap = Tiles(n) /\ c.cur \in Nat
      /\ c.theap \in Nat /\ n \in Nat /\ "v" \in cols
  <2>1. [tile |-> i, col |-> "v"] \in c.todo
    BY <1>1 DEF Left
  <2>2. "v" \in c.cs
    BY <1>1, <2>1 DEF CallOK
  <2> QED
    BY <1>1, <2>2, ResultTyped, CallParts
<1>5. i \in 1..Tiles(n) /\ c2.cur = c.cur + Len(u) /\ c2.cur \in Nat
  BY <1>4, StepParts
<1>6. CellsOf(R, i) = [j \in 1..len |-> R[RowOf(i, j)].v]
  BY <1>4 DEF CellsOf
<1> HIDE DEF a
<1>7. /\ IsSeq(a.units) /\ a.descs \in [1..len -> CellDescs]
      /\ \A j \in 1..len : a.descs[j].n = Len(CellsOf(R, i)[j]) /\ a.descs[j].orig = of[j].orig
  BY <1>3, <1>4, LaidTyped
<1>8. \A r \in 1..n : TileOfRow(r) = i => PlaceOfRow(r) \in 1..len /\ RowOf(i, PlaceOfRow(r)) = r
  BY <1>4, RowPlace
<1>9. D2 \in [1..n -> CellDescs]
  <2> HIDE DEF len
  <2> QED
    BY <1>1, <1>7, <1>8
<1>10. \A j \in 1..len : RowOf(i, j) \in 1..n /\ D2[RowOf(i, j)] = a.descs[j]
  <2>1. \A j \in 1..len : RowOf(i, j) \in 1..n /\ TileOfRow(RowOf(i, j)) = i /\ PlaceOfRow(RowOf(i, j)) = j
    BY <1>4, <1>5, PlaceRow
  <2> HIDE DEF len
  <2> QED
    BY <2>1
<1>11. SameElsewhere(n, i, D, D2)
  BY DEF SameElsewhere
<1>12. a.descs = DescsOf(D2, i, n)
  <2> HIDE DEF D2, len
  <2>1. DescsOf(D2, i, n) = [j \in 1..len |-> D2[RowOf(i, j)]]
    BY DEF DescsOf, len
  <2>2. a.descs = [j \in 1..len |-> a.descs[j]]
    BY <1>7
  <2> QED
    BY <1>10, <2>1, <2>2
<1>13. /\ \A r \in 1..n : D2[r].n = Planned(c, D0, r).n /\ D2[r].orig = Planned(c, D0, r).orig
       /\ \A r \in 1..n : D2[r].n = D[r].n /\ D2[r].orig = D[r].orig
  <2> SUFFICES ASSUME NEW r \in 1..n
               PROVE  /\ D2[r].n = Planned(c, D0, r).n /\ D2[r].orig = Planned(c, D0, r).orig
                      /\ D2[r].n = D[r].n /\ D2[r].orig = D[r].orig
    OBVIOUS
  <2>1. D[r].n = Planned(c, D0, r).n /\ D[r].orig = Planned(c, D0, r).orig
    BY <1>1, <1>4 DEF PlanKept
  <2>2. CASE TileOfRow(r) # i
    BY <2>1, <2>2
  <2>3. CASE TileOfRow(r) = i
    <3> DEFINE j == PlaceOfRow(r)
    <3>1. j \in 1..len /\ RowOf(i, j) = r /\ D2[r] = a.descs[j]
      BY <1>8, <2>3
    <3> HIDE DEF j, D2, len
    <3>2. a.descs[j].orig = Planned(c, D0, r).orig /\ a.descs[j].n = Len(CellsOf(R, i)[j])
      BY <1>3, <1>7, <3>1
    <3>3. Len(CellsOf(R, i)[j]) = of[j].n
      BY <1>3, <3>1 DEF CellsToLay
    <3>4. of[j].n = Planned(c, D0, r).n
      BY <1>3, <3>1
    <3> QED
      BY <2>1, <3>1, <3>2, <3>3, <3>4
  <2> QED
    BY <2>2, <2>3
<1>14. PlanKept(cols, c, D0, D2)
  <2> HIDE DEF D2
  <2> QED
    BY <1>13 DEF PlanKept
<1>15. Origs(D2, n, HeapEnd(c))
  <2> HIDE DEF D2, n
  <2> QED
    BY <1>1, <1>13 DEF Origs
<1>16. Lies(S2, c.theap + c.cur, u)
  BY StepSection
<1>17. b = Blob(DescsOf(D2, i, n))
  BY <1>12
<1>18. IsSeq(b)
  <2>1. DescsOf(D2, i, n) \in Seq(CellDescs)
    <3> HIDE DEF D2
    <3> QED
      BY <1>4, <1>5, <1>9, TilePartsAre
  <2> HIDE DEF b, D2
  <2>2. PICK m \in Nat \ {0} : b = Units("blob", DescsOf(D2, i, n), m)
    BY <1>17, <2>1, BlobIs
  <2> QED
    BY <2>2, UnitsAre
<1> HIDE DEF S2, R, n, b, D2
<1>19. ASSUME NEW j \in 1..len
       PROVE  /\ R[RowOf(i, j)].v # NoCell
              /\ CellLies(S2, c.theap, c2.cur, D2[RowOf(i, j)], R[RowOf(i, j)].v)
  <2> DEFINE p == c.theap + c.cur
  <2>1. p \in Nat
    BY <1>4
  <2>2. Lies(S2, p, a.units)
    <3>1. Lies(S2, p, a.units \o b)
      BY <1>2, <1>16
    <3> HIDE DEF p
    <3> QED
      BY <1>7, <1>18, <2>1, <3>1, LiesParts
  <2>3. c.cur + Len(a.units) <= c2.cur
    <3>0. Len(a.units \o b) = Len(a.units) + Len(b)
      <4> DEFINE w == a.units
      <4>1. IsSeq(w)
        BY <1>7
      <4> HIDE DEF w
      <4>2. Len(w \o b) = Len(w) + Len(b)
        BY <1>18, <4>1, ConcatIs
      <4> QED
        BY <4>2 DEF w
    <3>1. Len(u) = Len(a.units) + Len(b)
      BY <1>2, <3>0
    <3>2. Len(a.units) \in Nat /\ Len(b) \in Nat
      BY <1>7, <1>18, SeqIsFun
    <3> QED
      BY <1>4, <1>5, <3>1, <3>2
  <2>4. Lies(S2, c.theap + c.cur, a.units)
    BY <2>2
  <2> HIDE DEF p, len
  <2>5. CellLies(S2, c.theap, c2.cur, a.descs[j], CellsOf(R, i)[j])
    BY <1>3, <1>4, <1>5, <2>3, <2>4, LaidLies
  <2>6. CellsOf(R, i)[j] = R[RowOf(i, j)].v /\ a.descs[j] = D2[RowOf(i, j)]
    BY <1>6, <1>10
  <2> QED
    BY <1>3, <2>5, <2>6
<1>20. BlobLaid(cols, S2, c.theap, c.cur, c2.cur, a.units, b, d, i, R, D2)
  BY <1>2, <1>4, <1>5, <1>7, <1>9, <1>16, <1>17, <1>19 DEF BlobLaid
<1>21. BlobSpells(cols, S2, c.theap, c2.cur, d, i, R, D2)
  BY <1>20, BlobIsLaid
<1> QED
  BY <1>9, <1>11, <1>14, <1>15, <1>21 DEF S2, R, n

\* The descriptors after setitem has encoded tile i, and the edit that each row gets.
EditsOf(c, i) == [r \in 1..cards.rows |-> IF TileOfRow(r) = i THEN LastEdit(c, r) ELSE 0]
EditedDescs(c, i, D) ==
    [r \in 1..cards.rows |-> IF EditsOf(c, i)[r] = 0 THEN D[r]
                             ELSE EditedCells(c, i).descs[EditsOf(c, i)[r]]]

\* The edits of a tile, row by row.
LEMMA EditsOfTile ==
  ASSUME Typed, NEW c, CallOK(c), c.op = "setitem", NEW i
  PROVE  /\ EditsOf(c, i) \in [1..cards.rows -> 0..Len(c.at)]
         /\ \A r \in 1..cards.rows :
              /\ TileOfRow(r) = i => EditsOf(c, i)[r] = LastEdit(c, r)
              /\ TileOfRow(r) # i => EditsOf(c, i)[r] = 0
              /\ EditsOf(c, i)[r] # 0 => /\ EditsOf(c, i)[r] \in 1..Len(c.at)
                                         /\ c.at[EditsOf(c, i)[r]] = r /\ EditsOf(c, i)[r] \in TileEdits(c, i)
<1> DEFINE K == EditsOf(c, i)
<1>1. c.at \in Seq(1..cards.rows) /\ Len(c.at) \in Nat /\ DOMAIN c.at = 1..Len(c.at)
  BY CallParts
<1>2. \A r \in 1..cards.rows : LastEdit(c, r) \in 0..Len(c.at) /\ (LastEdit(c, r) # 0 => c.at[LastEdit(c, r)] = r)
  BY <1>1, LastEditIs
<1>3. K = [r \in 1..cards.rows |-> IF TileOfRow(r) = i THEN LastEdit(c, r) ELSE 0]
  BY DEF EditsOf
<1> HIDE DEF K
<1>4. K \in [1..cards.rows -> 0..Len(c.at)]
  BY <1>1, <1>2, <1>3
<1>5. ASSUME NEW r \in 1..cards.rows
      PROVE  /\ TileOfRow(r) = i => K[r] = LastEdit(c, r)
             /\ TileOfRow(r) # i => K[r] = 0
             /\ K[r] # 0 => K[r] \in 1..Len(c.at) /\ c.at[K[r]] = r /\ K[r] \in TileEdits(c, i)
  <2>1. K[r] = IF TileOfRow(r) = i THEN LastEdit(c, r) ELSE 0
    BY <1>3
  <2>2. ASSUME K[r] # 0 PROVE K[r] \in 1..Len(c.at) /\ c.at[K[r]] = r /\ TileOfRow(r) = i
    BY <1>1, <1>2, <2>1, <2>2
  <2>3. ASSUME K[r] # 0 PROVE K[r] \in TileEdits(c, i)
    BY <1>1, <2>2, <2>3 DEF TileEdits
  <2> QED
    BY <2>1, <2>2, <2>3
<1> QED
  BY <1>4, <1>5 DEF K

\* They are descriptors, and the edited cells have places of their own.
LEMMA EditedDescsAre ==
  ASSUME Typed, NEW c, CallOK(c), c.op = "setitem", NEW i,
         NEW D \in [1..cards.rows -> CellDescs], Origs(D, cards.rows, c.zp)
  PROVE  /\ EditedDescs(c, i, D) \in [1..cards.rows -> CellDescs]
         /\ SameElsewhere(cards.rows, i, D, EditedDescs(c, i, D))
         /\ Origs(EditedDescs(c, i, D), cards.rows, c.zp + SumTo(EditLengths(c, i), Len(c.at)))
         /\ SumTo(EditLengths(c, i), Len(c.at)) \in Nat
<1> DEFINE n == cards.rows
           m == Len(c.at)
           K == EditsOf(c, i)
           D2 == EditedDescs(c, i, D)
           lens == EditLengths(c, i)
           e == EditedCells(c, i).descs
<1>1. n \in Nat /\ m \in Nat /\ c.zp \in Nat
  BY CallParts
<1>2. /\ K \in [1..n -> 0..m]
      /\ \A r \in 1..n : /\ TileOfRow(r) # i => K[r] = 0
                         /\ K[r] # 0 => K[r] \in 1..m /\ c.at[K[r]] = r
  BY EditsOfTile
<1>3. /\ lens \in [1..m -> Nat] /\ \A k \in 1..m : lens[k] = Len(EditedVals(c, i)[k])
  BY EditedCellsAre
<1>4. PICK us, of :
              /\ EditedCells(c, i) = Laid(us, of, c.cur)
              /\ CellsToLay(m, EditedVals(c, i), us, of)
              /\ \A k \in 1..m : of[k].orig = c.zp + SumTo(lens, k - 1)
  BY EditedCellsAre
<1>5. /\ e \in [1..m -> CellDescs]
      /\ \A k \in 1..m : e[k].n = lens[k] /\ e[k].orig = c.zp + SumTo(lens, k - 1)
  <2>0. c.cur \in Nat
    BY CallParts
  <2>1. /\ Laid(us, of, c.cur).descs \in [1..m -> CellDescs]
        /\ \A k \in 1..m : /\ Laid(us, of, c.cur).descs[k].n = Len(EditedVals(c, i)[k])
                           /\ Laid(us, of, c.cur).descs[k].orig = of[k].orig
    BY <1>4, <2>0, LaidTyped
  <2> QED
    BY <1>3, <1>4, <2>1
<1>6. D2 = [r \in 1..n |-> IF K[r] = 0 THEN D[r] ELSE e[K[r]]]
  BY DEF EditedDescs
<1> HIDE DEF K, D2, lens, e, m, n
<1>7. D2 \in [1..n -> CellDescs]
  BY <1>2, <1>5, <1>6 DEF n
<1>8. SameElsewhere(n, i, D, D2)
  BY <1>2, <1>6 DEF SameElsewhere
<1>9. Added(n, D, c.zp, m, lens, K, D2)
  <2>1. \A r \in 1..n : D[r].n \in Nat /\ D[r].orig \in Nat
    BY DEF CellDescs, n
  <2>2. \A r, s \in 1..n : r # s /\ K[r] # 0 => K[r] # K[s]
    BY <1>2
  <2>3. ASSUME NEW r \in 1..n
        PROVE  IF K[r] = 0 THEN D2[r].n = D[r].n /\ D2[r].orig = D[r].orig
               ELSE D2[r].n = lens[K[r]] /\ D2[r].orig = c.zp + SumTo(lens, K[r] - 1)
    BY <1>2, <1>5, <1>6
  <2> QED
    BY <1>1, <1>2, <1>3, <2>1, <2>2, <2>3 DEF Added
<1>10. Origs(D2, n, c.zp + SumTo(lens, m)) /\ SumTo(lens, m) \in Nat
  <2>1. Origs(D, n, c.zp)
    BY DEF n
  <2> QED
    BY <1>9, <2>1, OrigsAdded
<1> QED
  BY <1>7, <1>8, <1>10 DEF K, D2, lens, e, m, n

\* Moving with more room.
LEMMA MovesInto ==
  ASSUME NEW S, NEW th, NEW lim, NEW S2, NEW th2, NEW lim2, Moves(S, th, lim, S2, th2, lim2),
         NEW l \in Nat, NEW l2 \in Nat, l <= lim, l <= l2
  PROVE  Moves(S, th, l, S2, th2, l2)
<1>1. lim \in Nat /\ Carries(S, th, S2, th2, lim)
  BY DEF Moves
<1>2. Carries(S, th, S2, th2, l)
  BY <1>1 DEF Carries
<1> QED
  BY <1>2 DEF Moves

\* A cell of a tile that setitem encodes.
LEMMA PatchedCell ==
  ASSUME NEW c, NEW i, NEW u, NEW d, NEW z, NEW c2, NEW D0, NEW D,
         Stepping(c, i, "v", u, d, z, c2, D0, D), c.op = "setitem",
         Lies(Grown(c, u), c.theap + c.cur, EditedCells(c, i).units),
         c.cur + Len(EditedCells(c, i).units) <= c2.cur,
         NEW j \in 1..TileLen(i, cards.rows)
  PROVE  LET r == RowOf(i, j) IN
         /\ r \in 1..cards.rows /\ Result(c)[r].v # NoCell
         /\ CellLies(Grown(c, u), c.theap, c2.cur, EditedDescs(c, i, D)[r], Result(c)[r].v)
<1> DEFINE S2 == Grown(c, u)
           n == cards.rows
           R == Result(c)
           r == RowOf(i, j)
           K == EditsOf(c, i)
           k == K[r]
           e == EditedDescs(c, i, D)[r]
<1>1. /\ Typed /\ CallOK(c) /\ Left(c, i, "v") /\ D0 \in [1..n -> CellDescs]
      /\ OldThere(cols, sect, cards, table, c, D0) /\ EditsLeft(sect, c, D0, D)
  BY DEF Stepping, Work
<1>2. /\ R \in Seq(TableRows) /\ Len(R) = n /\ RowsAfter(c) = n /\ c.theap = cards.tiles
      /\ \A q \in 1..n :
            /\ LastEdit(c, q) # 0 => LastEdit(c, q) \in 1..Len(c.data)
            /\ R[q].v = IF LastEdit(c, q) # 0 /\ "v" \in c.cs THEN c.data[LastEdit(c, q)].v
                        ELSE IF table[q].v = NoCell /\ "v" \in c.cs /\ TileEdits(c, TileOfRow(q)) # {}
                             THEN <<>> ELSE table[q].v
  BY <1>1, ResultSet
<1>3. [tile |-> i, col |-> "v"] \in c.todo
  BY <1>1 DEF Left
<1>4. i \in 1..cards.tiles /\ "v" \in c.cs /\ TileEdits(c, i) # {} /\ i \in 1..c.theap
  BY <1>1, <1>2, <1>3 DEF CallOK
<1>5. /\ "v" \in cols /\ c.theap \in Nat /\ c.cur \in Nat /\ cards.tiles = Tiles(n) /\ n \in Nat /\ Len(c.at) \in Nat
      /\ c.cards = cards /\ Len(table) = n /\ cards.pcount \in Nat
      /\ \A q \in 1..Len(c.data) : c.data[q] \in RowVals
      /\ \A q \in 1..n : table[q] \in TableRows
  BY <1>1, <1>4, CallParts
<1>6. r \in 1..n /\ TileOfRow(r) = i
  BY <1>4, <1>5, PlaceRow
<1>7. /\ k = LastEdit(c, r)
      /\ k # 0 => k \in 1..Len(c.at) /\ k \in TileEdits(c, i)
  BY <1>1, <1>6, EditsOfTile
<1>8. e = IF k = 0 THEN D[r] ELSE EditedCells(c, i).descs[k]
  <2> HIDE DEF r, K, n
  <2> QED
    BY <1>6 DEF EditedDescs, K, n
<1>9. D[r] = D0[r] /\ c.main[i].v = sect[i].v
  BY <1>1, <1>4, <1>5 DEF EditsLeft
<1>10. R[r].v = IF k # 0 THEN c.data[k].v
                ELSE IF table[r].v = NoCell THEN <<>> ELSE table[r].v
  <2> HIDE DEF r, K, n, R
  <2> QED
    BY <1>2, <1>4, <1>6, <1>7
<1>11. c2.cur \in Nat /\ c.cur <= c2.cur
  BY StepParts
<1> HIDE DEF k, e, R, S2
<1>12. CASE k # 0
  <2>1. PICK us, of : /\ EditedCells(c, i) = Laid(us, of, c.cur)
                      /\ CellsToLay(Len(c.at), EditedVals(c, i), us, of)
    BY <1>1, EditedCellsAre
  <2>2. /\ Lies(S2, c.theap + c.cur, Laid(us, of, c.cur).units)
        /\ c.cur + Len(Laid(us, of, c.cur).units) <= c2.cur
    BY <2>1 DEF S2
  <2>3. CellLies(S2, c.theap, c2.cur, Laid(us, of, c.cur).descs[k], EditedVals(c, i)[k])
    BY <1>5, <1>7, <1>11, <1>12, <2>1, <2>2, LaidLies
  <2>4. EditedVals(c, i)[k] = c.data[k].v
    BY <1>7, <1>12 DEF EditedVals
  <2>5. k \in 1..Len(c.data)
    BY <1>2, <1>6, <1>7, <1>12
  <2>6. c.data[k].v # NoCell
    BY <1>5, <2>5, RowValsAre
  <2> QED
    BY <1>6, <1>8, <1>10, <1>12, <2>1, <2>3, <2>4, <2>6 DEF S2, R, e
<1>13. CASE k = 0
  <2>0. e = D0[r]
    BY <1>8, <1>9, <1>13
  <2>1. Content(cols, sect, c.theap, cards.pcount, sect, table, D0)
    BY <1>1 DEF OldThere
  <2>2. BlobSpells(cols, sect, c.theap, cards.pcount, sect[i].v, i, table, D0)
    BY <1>1, <1>4, <1>5, <2>1, OldTiles
  <2>3. CASE sect[i].v.n = 0
    <3>1. table[r].v = NoCell /\ D0[r] = Zero
      BY <1>5, <2>2, <2>3 DEF BlobSpells, Blank
    <3>2. R[r].v = <<>>
      BY <1>10, <1>13, <3>1
    <3>3. <<>> # NoCell /\ <<>> \in Seq(Nat)
      BY DEF NoCell
    <3>4. Cell(<<>>) = <<>>
      BY <3>3, CellIs
    <3>5. CellLies(S2, c.theap, c2.cur, Zero, <<>>)
      BY <1>11, <3>4 DEF CellLies, Zero, Lies
    <3> QED
      BY <1>6, <2>0, <3>1, <3>2, <3>3, <3>5 DEF S2, R, e
  <2>4. CASE sect[i].v.n # 0
    <3>1. table[r].v # NoCell /\ CellLies(sect, c.theap, cards.pcount, D0[r], table[r].v)
      BY <1>5, <2>2, <2>4 DEF BlobSpells
    <3>2. R[r].v = table[r].v
      BY <1>10, <1>13, <3>1
    <3>3. Moves(sect, c.theap, cards.pcount, S2, c.theap, c2.cur)
      <4>1. Moves(sect, c.theap, c.cur, S2, c.theap, c2.cur)
        BY StepSection DEF S2
      <4>2. cards.pcount <= c.cur
        BY <1>1 DEF CallOK
      <4>3. cards.pcount <= c2.cur
        BY <1>5, <1>11, <4>2
      <4> QED
        BY <1>5, <1>11, <4>1, <4>2, <4>3, MovesInto
    <3>4. D0[r] \in CellDescs /\ table[r].v \in Seq(Nat)
      BY <1>1, <1>5, <1>6 DEF TableRows
    <3>5. CellLies(S2, c.theap, c2.cur, D0[r], table[r].v)
      <4> HIDE DEF r
      <4> QED
        BY <3>1, <3>3, <3>4, CellMoved
    <3> QED
      BY <1>6, <2>0, <3>1, <3>2, <3>5 DEF S2, R, e
  <2> QED
    BY <2>3, <2>4
<1> QED
  BY <1>12, <1>13

\* The descriptors that setitem writes for tile i.
LEMMA PatchedDescsAre ==
  ASSUME Typed, NEW c, CallOK(c), c.op = "setitem", NEW i, Left(c, i, "v"),
         NEW D0 \in [1..cards.rows -> CellDescs], OldThere(cols, sect, cards, table, c, D0),
         NEW D, EditsLeft(sect, c, D0, D)
  PROVE  PatchedCells(c, i).descs = DescsOf(EditedDescs(c, i, D), i, cards.rows)
<1> DEFINE n == cards.rows
           len == TileLen(i, n)
           E == EditedCells(c, i)
           D2 == EditedDescs(c, i, D)
<1>1. RowsAfter(c) = n /\ c.theap = cards.tiles
  BY ResultSet
<1>2. [tile |-> i, col |-> "v"] \in c.todo
  BY DEF Left
<1>3. i \in 1..cards.tiles /\ i \in 1..c.theap
  BY <1>1, <1>2 DEF CallOK
<1>4. cards.tiles = Tiles(n) /\ n \in Nat /\ c.cards = cards
  BY CallParts
<1>5. PatchedCells(c, i).descs = DescsOf(D2, i, n)
  <2>1. c.main[i].v = sect[i].v /\ \A j \in 1..len : D[RowOf(i, j)] = D0[RowOf(i, j)]
    BY <1>3, <1>4 DEF EditsLeft
  <2>2. OldDescs(c, i) = DescsOf(D0, i, n)
    BY <2>1, OldDescsAre
  <2>3. ASSUME NEW j \in 1..len
        PROVE  D2[RowOf(i, j)] = IF LastEdit(c, RowOf(i, j)) = 0 THEN D0[RowOf(i, j)]
                                 ELSE E.descs[LastEdit(c, RowOf(i, j))]
    <3> DEFINE r == RowOf(i, j)
    <3>1. r \in 1..n /\ TileOfRow(r) = i
      BY <1>3, <1>4, PlaceRow
    <3>2. EditsOf(c, i)[r] = LastEdit(c, r)
      BY <3>1, EditsOfTile
    <3>3. D[r] = D0[r]
      BY <2>1
    <3> HIDE DEF r, n
    <3>4. D2[r] = IF LastEdit(c, r) = 0 THEN D[r] ELSE E.descs[LastEdit(c, r)]
      BY <3>1, <3>2 DEF EditedDescs, n
    <3> QED
      BY <3>3, <3>4 DEF r
  <2>4. DescsOf(D0, i, n) = [j \in 1..len |-> D0[RowOf(i, j)]] /\ DescsOf(D2, i, n) = [j \in 1..len |-> D2[RowOf(i, j)]]
    BY DEF DescsOf
  <2> DEFINE o == DescsOf(D0, i, n)
  <2>5. PatchedCells(c, i).descs = [j \in DOMAIN o |-> IF LastEdit(c, RowOf(i, j)) = 0 THEN o[j]
                                                       ELSE E.descs[LastEdit(c, RowOf(i, j))]]
    <3> HIDE DEF o, E
    <3>1. OldDescs(c, i) = o
      BY <2>2 DEF o
    <3> QED
      BY <3>1 DEF PatchedCells, E
  <2>6. DOMAIN o = 1..len /\ \A j \in 1..len : o[j] = D0[RowOf(i, j)]
    BY <2>4
  <2> HIDE DEF o, len, E, D2
  <2> QED
    BY <2>3, <2>4, <2>5, <2>6
<1> QED
  BY <1>5

\* The step of setitem writes the cells and the blob of the result.
LEMMA StepPatchedBlob ==
  ASSUME NEW c, NEW i, NEW u, NEW d, NEW z, NEW c2, NEW D0, NEW D,
         Stepping(c, i, "v", u, d, z, c2, D0, D), c.op = "setitem",
         u = Encoded(c, i, "v").units, d = Encoded(c, i, "v").desc, z = Encoded(c, i, "v").zp
  PROVE  \E D2 \in [1..RowsAfter(c) -> CellDescs] :
           /\ SameElsewhere(RowsAfter(c), i, D, D2) /\ PlanKept(cols, c, D0, D2)
           /\ Origs(D2, RowsAfter(c), HeapEnd(c2))
           /\ BlobSpells(cols, Grown(c, u), c.theap, c2.cur, d, i, Result(c), D2)
<1> DEFINE S2 == Grown(c, u)
           R == Result(c)
           n == cards.rows
           len == TileLen(i, n)
           E == EditedCells(c, i)
           D2 == EditedDescs(c, i, D)
           b == Blob(PatchedCells(c, i).descs)
<1>1. /\ Typed /\ CallOK(c) /\ Left(c, i, "v") /\ D0 \in [1..n -> CellDescs]
      /\ OldThere(cols, sect, cards, table, c, D0) /\ D \in [1..RowsAfter(c) -> CellDescs]
      /\ Origs(D, RowsAfter(c), HeapEnd(c)) /\ EditsLeft(sect, c, D0, D)
  BY DEF Stepping, Work
<1>2. /\ R \in Seq(TableRows) /\ Len(R) = n /\ RowsAfter(c) = n /\ c.theap = cards.tiles
  BY <1>1, ResultSet
<1>3. [tile |-> i, col |-> "v"] \in c.todo
  BY <1>1 DEF Left
<1>4. i \in 1..cards.tiles /\ "v" \in c.cs /\ i \in 1..c.theap
  BY <1>1, <1>2, <1>3 DEF CallOK
<1>5. /\ "v" \in cols /\ c.theap \in Nat /\ c.cur \in Nat /\ cards.tiles = Tiles(n) /\ n \in Nat /\ Len(c.at) \in Nat
      /\ c.cards = cards
  BY <1>1, <1>4, CallParts
<1>6. u = E.units \o b /\ d = [n |-> Len(b), off |-> c.cur + Len(E.units)]
      /\ z = Plan(EditLengths(c, i), c.zp)[Len(c.at) + 1]
  BY DEF Encoded, Desc, PatchedCells
<1>7. HeapEnd(c) = c.zp /\ HeapEnd(c2) = z
  <2>1. SameCall(c, c2) /\ c2.zp = z
    BY StepParts
  <2> QED
    BY <2>1 DEF HeapEnd, SameCall
<1>8. /\ D2 \in [1..n -> CellDescs] /\ SameElsewhere(n, i, D, D2)
      /\ Origs(D2, n, HeapEnd(c2))
  <2>1. D \in [1..n -> CellDescs] /\ Origs(D, n, c.zp)
    BY <1>1, <1>2, <1>7
  <2>2. /\ D2 \in [1..n -> CellDescs] /\ SameElsewhere(n, i, D, D2)
        /\ Origs(D2, n, c.zp + SumTo(EditLengths(c, i), Len(c.at)))
    BY <1>1, <2>1, EditedDescsAre
  <2>3. z = c.zp + SumTo(EditLengths(c, i), Len(c.at))
    BY <1>1, <1>6, EditedCellsAre
  <2> QED
    BY <1>7, <2>2, <2>3
<1>9. PatchedCells(c, i).descs = DescsOf(D2, i, n)
  BY <1>1, PatchedDescsAre
<1>10. b = Blob(DescsOf(D2, i, n))
  BY <1>9
<1>11. IsSeq(b)
  <2>1. DescsOf(D2, i, n) \in Seq(CellDescs)
    <3> HIDE DEF D2
    <3> QED
      BY <1>2, <1>4, <1>5, <1>8, TilePartsAre
  <2> HIDE DEF b, D2
  <2>2. PICK m \in Nat \ {0} : b = Units("blob", DescsOf(D2, i, n), m)
    BY <1>10, <2>1, BlobIs
  <2> QED
    BY <2>2, UnitsAre
<1>12. IsSeq(E.units)
  <2>1. PICK us, of : E = Laid(us, of, c.cur) /\ CellsToLay(Len(c.at), EditedVals(c, i), us, of)
    BY <1>1, EditedCellsAre
  <2> HIDE DEF E
  <2> QED
    BY <1>5, <2>1, LaidTyped
<1>13. Lies(S2, c.theap + c.cur, u) /\ c2.cur = c.cur + Len(u) /\ c2.cur \in Nat
  BY StepSection, StepParts
<1> DEFINE w == E.units
<1> HIDE DEF b, D2, S2, R, E, w
<1>14. IsSeq(w) /\ u = w \o b
  BY <1>6, <1>12 DEF w
<1>15. Lies(S2, c.theap + c.cur, w)
  <2> DEFINE p == c.theap + c.cur
  <2>0. p \in Nat /\ Lies(S2, p, u)
    BY <1>5, <1>13
  <2>1. Lies(S2, p, w \o b)
    BY <1>14, <2>0
  <2> HIDE DEF p
  <2>2. Lies(S2, p, w)
    BY <1>11, <1>14, <2>0, <2>1, LiesParts
  <2> QED
    BY <2>2 DEF p
<1>16. c.cur + Len(w) <= c2.cur
  <2>1. Len(w \o b) = Len(w) + Len(b)
    BY <1>11, <1>14, ConcatIs
  <2>2. Len(w) \in Nat /\ Len(b) \in Nat
    BY <1>11, <1>14, SeqIsFun
  <2>3. Len(u) = Len(w) + Len(b)
    BY <1>14, <2>1
  <2> QED
    BY <1>5, <1>13, <2>2, <2>3
<1>17. ASSUME NEW j \in 1..len
       PROVE  /\ R[RowOf(i, j)].v # NoCell
              /\ CellLies(S2, c.theap, c2.cur, D2[RowOf(i, j)], R[RowOf(i, j)].v)
  BY <1>15, <1>16, PatchedCell DEF w, E, S2, R, D2
<1>18. BlobLaid(cols, S2, c.theap, c.cur, c2.cur, w, b, d, i, R, D2)
  BY <1>2, <1>4, <1>5, <1>6, <1>8, <1>10, <1>13, <1>14, <1>17 DEF BlobLaid, w
<1>19. BlobSpells(cols, S2, c.theap, c2.cur, d, i, R, D2)
  BY <1>18, BlobIsLaid
<1>20. PlanKept(cols, c, D0, D2)
  BY DEF PlanKept
<1> QED
  BY <1>2, <1>8, <1>19, <1>20 DEF S2, R

\* The call goes on working at its result.
LEMMA StepWorks ==
  ASSUME NEW c, NEW i, NEW col, NEW u, NEW d, NEW z, NEW c2, NEW D0, NEW D,
         Stepping(c, i, col, u, d, z, c2, D0, D), ~Undecodable(c, i, col),
         u = Encoded(c, i, col).units, d = Encoded(c, i, col).desc, z = Encoded(c, i, col).zp
  PROVE  \E D2 : Work(cols, Grown(c, u), cards, table, Result(c2), c2, D0, D2)
<1> DEFINE S2 == Grown(c, u)
           R == Result(c)
           n == RowsAfter(c)
<1>1. /\ D \in [1..n -> CellDescs] /\ Origs(D, n, HeapEnd(c)) /\ col \in {"f", "v"} /\ PlanKept(cols, c, D0, D)
      /\ (c.op # "setitem" => z = c.zp)
  BY DEF Stepping, Work
<1>2. SameCall(c, c2) /\ c2.zp = z
  BY StepParts
<1>3. RowsAfter(c2) = n /\ Result(c2) = R
  BY <1>2, SameCallParts
<1>4. c2.op = c.op /\ c2.data = c.data /\ c2.theap = c.theap
  BY <1>2 DEF SameCall
<1>5. z = c.zp => HeapEnd(c2) = HeapEnd(c)
  BY <1>2, <1>4 DEF HeapEnd
<1>6. OldThere(cols, S2, cards, table, c2, D0)
  BY StepOld
<1>7. PICK D2 \in [1..n -> CellDescs] :
           /\ SameElsewhere(n, i, D, D2) /\ PlanKept(cols, c, D0, D2) /\ (col = "f" => D2 = D)
           /\ Origs(D2, n, HeapEnd(c2))
           /\ col = "v" => BlobSpells(cols, S2, c.theap, c2.cur, d, i, R, D2)
  <2>1. CASE col = "f"
    <3>1. z = c.zp
      BY <2>1 DEF Encoded
    <3>2. SameElsewhere(n, i, D, D)
      BY DEF SameElsewhere
    <3> QED
      BY <1>1, <1>5, <2>1, <3>1, <3>2
  <2>2. CASE col = "v" /\ c.op = "setitem"
    <3>1. \E D2 \in [1..n -> CellDescs] :
           /\ SameElsewhere(n, i, D, D2) /\ PlanKept(cols, c, D0, D2)
           /\ Origs(D2, n, HeapEnd(c2))
           /\ BlobSpells(cols, S2, c.theap, c2.cur, d, i, R, D2)
      BY <2>2, StepPatchedBlob
    <3> QED
      BY <2>2, <3>1
  <2>3. CASE col = "v" /\ c.op # "setitem"
    <3>1. \E D2 \in [1..n -> CellDescs] :
           /\ SameElsewhere(n, i, D, D2) /\ PlanKept(cols, c, D0, D2)
           /\ Origs(D2, n, HeapEnd(c))
           /\ BlobSpells(cols, S2, c.theap, c2.cur, d, i, R, D2)
      BY <2>3, StepNewBlob
    <3> QED
      BY <1>1, <1>5, <2>3, <3>1
  <2> QED
    BY <1>1, <2>1, <2>2, <2>3
<1>8. SlabsDone(S2, R, c2)
  <2>1. col = "f" => SlabSpells(S2, c.theap, c2.cur, d, i, R)
    BY StepSlab
  <2> QED
    BY <2>1, StepSlabs
<1>9. BlobsDone(cols, S2, R, c2, D2)
  BY <1>7, StepBlobs
<1>10. EditsLeft(S2, c2, D0, D2) /\ PlanKept(cols, c2, D0, D2)
  BY <1>7, StepRest
<1>11. Work(cols, S2, cards, table, Result(c2), c2, D0, D2)
  <2> HIDE DEF S2, R, n
  <2> QED
    BY <1>3, <1>6, <1>7, <1>8, <1>9, <1>10 DEF Work
<1> QED
  BY <1>11 DEF S2

-----------------------------------------------------------------------------
(* The invariant.                                                          *)

\* An entry of the cache is the tile of the file, the empty blob included.
GoodEntry(main, tab, D, e) ==
    \E i \in 1..Tiles(Len(tab)) :
      \/ /\ e.key = <<i, "f">> /\ main[i].f.n # 0 /\ e.val = SlabOf(tab, i)
      \/ /\ e.key = <<i, "v">>
         /\ e.val = IF main[i].v.n = 0 THEN <<>> ELSE DescsOf(D, i, Len(tab))

\* The cache is within its budget, and it has only good entries unless it is stale.
CacheFits(ca) == \E E : Budget(E, ca) /\ ca.cur <= ca.cap
CacheOK(ca, main, tab, D, st) ==
    \E E : Budget(E, ca) /\ ca.cur <= ca.cap /\ (~st => \A e \in E : GoodEntry(main, tab, D, e))

\* The call in progress is at work at its result.
Working(cs, S, cds, tab, R, c, D0) == \E D : Work(cs, S, cds, tab, R, c, D0, D)

\* The descriptors D0 of the cells of the file, with all that the file and the call hold.
Holding(D0) ==
    /\ D0 \in [1..cards.rows -> CellDescs] /\ Origs(D0, cards.rows, cards.zpcount)
    /\ Intact => Content(cols, sect, cards.tiles, cards.pcount, sect, table, D0)
    /\ call # Idle => Working(cols, sect, cards, table, Result(call), call, D0)
    /\ CacheOK(cache, sect, table, D0, stale)

\* The inductive invariant: nothing is said of the data once a call has harmed them, and only
\* the form of the state when the handle is tainted.
Flags == {tainted, stale, lost} \subseteq BOOLEAN

TableInv ==
    /\ Flags
    /\ harmed = "no" =>
         /\ Typed /\ Room /\ CacheFits(cache)
         /\ IF tainted THEN call = Idle ELSE \E D0 : Holding(D0)

\* A call is none of Idle.
LEMMA CallIsNotIdle ==
  ASSUME NEW c, CallOK(c)
  PROVE  c # Idle
<1>1. c.op \in {"write", "append", "setitem"}
  BY DEF CallOK, Calls
<1> QED
  BY <1>1 DEF Idle

\* The cache does not depend on the heap.
LEMMA CacheSame ==
  ASSUME NEW ca, NEW main, NEW main2, NEW tab, NEW D, NEW st, CacheOK(ca, main, tab, D, st),
         \A k \in 1..Tiles(Len(tab)) : main2[k] = main[k]
  PROVE  CacheOK(ca, main2, tab, D, st)
<1>1. PICK E : Budget(E, ca) /\ ca.cur <= ca.cap /\ (~st => \A e \in E : GoodEntry(main, tab, D, e))
  BY DEF CacheOK
<1>2. ASSUME NEW e, GoodEntry(main, tab, D, e) PROVE GoodEntry(main2, tab, D, e)
  BY <1>2 DEF GoodEntry
<1> QED
  BY <1>1, <1>2 DEF CacheOK

\* What a step of the call without a change of the cards keeps of its form.
LEMMA SameFrame ==
  ASSUME cols' = cols, cards' = cards, table' = table, NEW c
  PROVE  /\ CallOK(c)' <=> CallOK(c)
         /\ Result(c)' = Result(c)
<1>1. CallOK(c)' <=> CallOK(c)
  BY DEF CallOK, Calls
<1>2. Result(c)' = Result(c)
  BY DEF Result, Row
<1> QED
  BY <1>1, <1>2

\* The next tile to encode.
LEMMA FirstIsLeft ==
  ASSUME Typed, NEW c, CallOK(c), c.todo # {}
  PROVE  First(c.todo) \in c.todo /\ First(c.todo).col \in {"f", "v"}
         /\ First(c.todo) = [tile |-> First(c.todo).tile, col |-> First(c.todo).col]
<1> DEFINE T == {x.tile : x \in c.todo}
<1>1. c.todo \subseteq [tile : Nat, col : {"f", "v"}]
  <2>1. c.todo \subseteq [tile : Nat, col : cols] /\ cols \in {{"f"}, {"f", "v"}}
    BY DEF CallOK, Calls, Typed
  <2> QED
    BY <2>1
<1>2. T \subseteq Nat /\ T # {}
  BY <1>1
<1>3. PICK m \in T : \A n \in T : m <= n
  <2> HIDE DEF T
  <2> QED
    BY <1>2, LeastElement
<1>4. PICK x \in c.todo : x.tile = m
  BY <1>3
<1>5. \E x0 \in c.todo : \A y \in c.todo : x0.tile < y.tile \/ (x0.tile = y.tile /\ (x0.col = "f" \/ x0 = y))
  <2>1. \A y \in c.todo : m <= y.tile /\ y.tile \in Nat /\ m \in Nat
    BY <1>1, <1>2, <1>3
  <2>2. \A y \in c.todo : y = [tile |-> y.tile, col |-> y.col] /\ y.col \in {"f", "v"}
    BY <1>1
  <2>3. CASE [tile |-> m, col |-> "f"] \in c.todo
    <3> DEFINE x0 == [tile |-> m, col |-> "f"]
    <3>1. \A y \in c.todo : x0.tile < y.tile \/ (x0.tile = y.tile /\ (x0.col = "f" \/ x0 = y))
      BY <2>1
    <3> QED
      BY <2>3, <3>1
  <2>4. CASE [tile |-> m, col |-> "f"] \notin c.todo
    <3>1. \A y \in c.todo : y.tile = m => y.col = "v"
      BY <2>2, <2>4
    <3>2. \A y \in c.todo : y.tile = m => y = x
      BY <1>4, <2>2, <3>1
    <3>3. \A y \in c.todo : x.tile < y.tile \/ (x.tile = y.tile /\ (x.col = "f" \/ x = y))
      BY <1>4, <2>1, <3>2
    <3> QED
      BY <3>3
  <2> QED
    BY <2>3, <2>4
<1>6. First(c.todo) \in c.todo
  BY <1>5 DEF First
<1> QED
  BY <1>1, <1>6

\* What is written behind the table does not touch the content that is in use.
LEMMA ContentUnderWrite ==
  ASSUME Typed, NEW D0 \in [1..cards.rows -> CellDescs],
         Content(cols, sect, cards.tiles, cards.pcount, sect, table, D0),
         NEW S2, \A k \in 1..cards.tiles : S2[k] = sect[k],
         cards.pcount = 0 \/ Carries(sect, cards.tiles, S2, cards.tiles, cards.pcount)
  PROVE  Content(cols, S2, cards.tiles, cards.pcount, S2, table, D0)
<1>1. /\ table \in Seq(TableRows) /\ Len(table) = cards.rows /\ cards.tiles = Tiles(cards.rows)
      /\ cards.tiles \in Nat /\ cards.rows \in Nat /\ cards.pcount \in Nat
      /\ \A k \in 1..cards.tiles : sect[k] \in TileDescs
  BY DEF Typed, SectOK
<1>2. \A k \in 1..Tiles(Len(table)) : sect[k] \in TileDescs /\ S2[k] = sect[k]
  BY <1>1
<1>3. D0 \in [1..Len(table) -> CellDescs]
  BY <1>1
<1>4. CASE cards.pcount = 0
  <2>1. Content(cols, sect, cards.tiles, 0, sect, table, D0)
    BY <1>4
  <2>2. Content(cols, S2, cards.tiles, 0, S2, table, D0)
    BY <1>1, <1>2, <1>3, <2>1, ContentOfNothing
  <2> QED
    BY <1>4, <2>2
<1>5. CASE Carries(sect, cards.tiles, S2, cards.tiles, cards.pcount)
  <2>1. Moves(sect, cards.tiles, cards.pcount, S2, cards.tiles, cards.pcount)
    BY <1>1, <1>5 DEF Moves
  <2> QED
    BY <1>1, <1>2, <1>3, <2>1, ContentMoved
<1> QED
  BY <1>4, <1>5

\* The call that encodes a tile.
LEMMA EncodeSteps ==
  ASSUME NEW c, NEW i, NEW col, NEW u, NEW d, NEW z, NEW c2, NEW D0, NEW D,
         Stepping(c, i, col, u, d, z, c2, D0, D), call = c, call' = c2, sect' = Grown(c, u),
         cols' = cols, cards' = cards, table' = table, cache' = cache, stale' = stale,
         ~Undecodable(c, i, col), Holding(D0),
         u = Encoded(c, i, col).units, d = Encoded(c, i, col).desc, z = Encoded(c, i, col).zp
  PROVE  Holding(D0)' /\ SectOK' /\ CallOK(call)'
<1>1. Typed /\ CallOK(c) /\ D0 \in [1..cards.rows -> CellDescs] /\ IsSeq(u)
  BY DEF Stepping
<1>2. CallOK(c2)
  BY StepCallOK
<1>3. CallOK(call)'
  <2>1. CallOK(c2)' <=> CallOK(c2)
    BY SameFrame
  <2> QED
    BY <1>2, <2>1
<1>4. /\ IsSeq(sect') /\ cards.tiles <= Len(sect') /\ \A k \in 1..cards.tiles : sect'[k] = sect[k]
      /\ c.op # "write" => Moves(sect, c.theap, cards.pcount, sect', c.theap, cards.pcount)
  BY StepSection
<1>5. SectOK'
  BY <1>1, <1>4 DEF SectOK, Typed
<1>6. \E D2 : Work(cols, sect', cards, table, Result(c2), c2, D0, D2)
  BY StepWorks
<1>7. Result(call)' = Result(c2)
  <2>1. Result(c2)' = Result(c2)
    BY SameFrame
  <2> QED
    BY <2>1
<1>8. Working(cols, sect', cards, table, Result(call)', c2, D0)
  BY <1>6, <1>7 DEF Working
<1>9. ASSUME Intact' PROVE Content(cols, sect', cards.tiles, cards.pcount, sect', table, D0)
  <2>0. /\ SameCall(c, c2) /\ c.cur <= c2.cur /\ c2.cur \in Nat /\ c2.cur = c.cur + Len(u)
    BY StepParts
  <2>1. c2.op = c.op /\ c2.theap = c.theap
    BY <2>0 DEF SameCall
  <2>2. c2 # Idle /\ c # Idle
    BY <1>1, <1>2, CallIsNotIdle
  <2>3. cards.pcount = 0 \/ (c.theap = cards.tiles /\ (c.op = "write" => c2.cur = 0))
    BY <1>9, <2>1, <2>2 DEF Intact
  <2>4. c.cur \in Nat /\ cards.tiles \in Nat /\ cards.pcount \in Nat /\ c.theap \in Nat
    BY <1>1, CallParts
  <2>5. Len(u) \in Nat
    BY <1>1, SeqIsFun
  <2>6. Intact
    BY <2>0, <2>3, <2>4, <2>5 DEF Intact
  <2>7. Content(cols, sect, cards.tiles, cards.pcount, sect, table, D0)
    BY <2>6 DEF Holding
  <2>8. cards.pcount = 0 \/ Carries(sect, cards.tiles, sect', cards.tiles, cards.pcount)
    <3>1. CASE cards.pcount = 0
      BY <3>1
    <3>2. CASE c.theap = cards.tiles /\ c.op # "write"
      BY <1>4, <3>2 DEF Moves
    <3>3. CASE c.theap = cards.tiles /\ c2.cur = 0
      <4>1. c.cur = 0 /\ Len(u) = 0
        BY <2>0, <2>4, <2>5, <3>3
      <4>2. c.theap + c.cur = cards.tiles /\ cards.tiles + Len(u) <= cards.tiles
        BY <2>4, <3>3, <4>1
      <4>3. sect' = WriteAt(sect, cards.tiles + 1, u)
        BY <4>2 DEF Grown
      <4>4. IsSeq(sect)
        BY <1>1 DEF Typed, SectOK
      <4>5. Carries(sect, cards.tiles, WriteAt(sect, cards.tiles + 1, u), cards.tiles, cards.pcount)
        BY <1>1, <2>4, <4>2, <4>4, WrittenCarries
      <4> QED
        BY <4>3, <4>5
    <3> QED
      BY <2>3, <3>1, <3>2, <3>3
  <2> QED
    BY <1>1, <1>4, <2>7, <2>8, ContentUnderWrite
<1>10. CacheOK(cache, sect', table, D0, stale)
  <2>1. CacheOK(cache, sect, table, D0, stale)
    BY DEF Holding
  <2>2. Tiles(Len(table)) = cards.tiles
    BY <1>1 DEF Typed
  <2> QED
    BY <1>4, <2>1, <2>2, CacheSame
<1>11. Origs(D0, cards.rows, cards.zpcount)
  BY DEF Holding
<1>12. Holding(D0)'
  BY <1>1, <1>8, <1>9, <1>10, <1>11 DEF Holding
<1> QED
  BY <1>3, <1>5, <1>12

\* What the step writes is units, and what it notes a descriptor.
LEMMA EncodedTyped ==
  ASSUME Typed, NEW c, CallOK(c), NEW i, NEW col \in {"f", "v"}, Left(c, i, col),
         NEW D0 \in [1..cards.rows -> CellDescs], NEW D, Work(cols, sect, cards, table, Result(c), c, D0, D),
         ~Undecodable(c, i, col)
  PROVE  LET e == Encoded(c, i, col)
         IN  IsSeq(e.units) /\ e.desc \in HeapDescs /\ e.zp \in Nat /\ (c.op # "setitem" => e.zp = c.zp)
<1> DEFINE R == Result(c)
           e == Encoded(c, i, col)
<1>1. /\ OldThere(cols, sect, cards, table, c, D0) /\ EditsLeft(sect, c, D0, D)
      /\ D \in [1..RowsAfter(c) -> CellDescs] /\ Origs(D, RowsAfter(c), HeapEnd(c))
  BY DEF Work
<1>2. /\ c.cur \in Nat /\ c.zp \in Nat /\ c.theap = Tiles(RowsAfter(c)) /\ RowsAfter(c) \in Nat /\ Len(c.at) \in Nat
      /\ cards.rows \in Nat /\ cards.tiles = Tiles(cards.rows)
  BY CallParts
<1>3. i \in 1..Tiles(RowsAfter(c))
  <2>1. [tile |-> i, col |-> col] \in c.todo
    BY DEF Left
  <2> QED
    BY <1>2, <2>1 DEF CallOK
<1>4. R \in Seq(TableRows) /\ Len(R) = RowsAfter(c)
  BY ResultTyped
<1>5. CASE col = "f"
  <2> DEFINE x == SlabOf(R, i)
  <2>1. /\ (IF c.op = "setitem" THEN PatchedSlab(c, i) ELSE NewSlab(c, i)) = x
        /\ \A j \in 1..TileLen(i, RowsAfter(c)) : R[RowOf(i, j)].f # 0
    <3>1. CASE c.op = "setitem"
      BY <1>1, <1>5, <3>1, PatchedSlabIs
    <3>2. CASE c.op # "setitem"
      BY <1>1, <1>5, <3>2, NewSlabIs
    <3> QED
      BY <3>1, <3>2
  <2>2. e = [units |-> Slab(x), desc |-> [n |-> Len(Slab(x)), off |-> c.cur], zp |-> c.zp]
    BY <1>5, <2>1 DEF Encoded, Desc
  <2>3. x \in Seq(Nat) /\ x # <<>> /\ x[1] # 0
    BY <1>3, <1>4, <2>1, SlabOfIs
  <2> HIDE DEF x
  <2>4. PICK n \in Nat \ {0} : Slab(x) = Units("slab", x, n)
    BY <2>3, SlabIs
  <2>5. IsSeq(Slab(x)) /\ Len(Slab(x)) \in Nat
    BY <2>4, UnitsAre
  <2>6. [n |-> Len(Slab(x)), off |-> c.cur] \in HeapDescs
    BY <1>2, <2>5 DEF HeapDescs
  <2> QED
    BY <1>2, <2>2, <2>5, <2>6
<1>6. ASSUME NEW w, IsSeq(w), NEW y \in Seq(CellDescs), NEW z \in Nat, c.op # "setitem" => z = c.zp,
             e = [units |-> w \o Blob(y), desc |-> [n |-> Len(Blob(y)), off |-> c.cur + Len(w)], zp |-> z]
      PROVE  IsSeq(e.units) /\ e.desc \in HeapDescs /\ e.zp \in Nat /\ (c.op # "setitem" => e.zp = c.zp)
  <2>1. PICK n \in Nat \ {0} : Blob(y) = Units("blob", y, n)
    BY BlobIs
  <2>2. IsSeq(Blob(y)) /\ Len(Blob(y)) = n
    BY <2>1, UnitsAre
  <2>3. IsSeq(w \o Blob(y))
    BY <1>6, <2>2, ConcatIs
  <2>4. Len(w) \in Nat
    BY <1>6, SeqIsFun
  <2>5. [n |-> Len(Blob(y)), off |-> c.cur + Len(w)] \in HeapDescs
    BY <1>2, <2>2, <2>4 DEF HeapDescs
  <2> QED
    BY <1>6, <2>3, <2>5
<1>7. CASE col = "v" /\ c.op # "setitem"
  <2> DEFINE a == NewCells(c, i)
             len == TileLen(i, RowsAfter(c))
  <2>1. PICK us, of : a = Laid(us, of, c.cur) /\ CellsToLay(len, CellsOf(R, i), us, of)
    BY <1>1, <1>7, NewCellsAre
  <2>2. e = [units |-> a.units \o Blob(a.descs),
             desc |-> [n |-> Len(Blob(a.descs)), off |-> c.cur + Len(a.units)], zp |-> c.zp]
    BY <1>7 DEF Encoded, Desc
  <2> HIDE DEF a, e
  <2>3. IsSeq(a.units) /\ a.descs \in [1..len -> CellDescs] /\ len \in Nat
    <3>1. len \in Nat
      BY <2>1 DEF CellsToLay
    <3> QED
      BY <1>2, <2>1, <3>1, LaidTyped
  <2>4. a.descs \in Seq(CellDescs)
    <3> HIDE DEF len
    <3> QED
      BY <2>3
  <2> DEFINE w == a.units
             y == a.descs
  <2>5. IsSeq(w) /\ y \in Seq(CellDescs)
    BY <2>3, <2>4
  <2>6. e = [units |-> w \o Blob(y), desc |-> [n |-> Len(Blob(y)), off |-> c.cur + Len(w)], zp |-> c.zp]
    BY <2>2
  <2> HIDE DEF w, y
  <2>7. IsSeq(e.units) /\ e.desc \in HeapDescs /\ e.zp \in Nat /\ (c.op # "setitem" => e.zp = c.zp)
    BY <1>2, <1>6, <2>5, <2>6
  <2> QED
    BY <2>7 DEF e
<1>8. CASE col = "v" /\ c.op = "setitem"
  <2> DEFINE E == EditedCells(c, i)
             D2 == EditedDescs(c, i, D)
             y == DescsOf(D2, i, cards.rows)
             z == Plan(EditLengths(c, i), c.zp)[Len(c.at) + 1]
  <2>1. PICK us, of : E = Laid(us, of, c.cur) /\ CellsToLay(Len(c.at), EditedVals(c, i), us, of)
    BY <1>8, EditedCellsAre
  <2>2. PatchedCells(c, i).descs = y
    BY <1>1, <1>8, PatchedDescsAre
  <2>3. e = [units |-> E.units \o Blob(y),
             desc |-> [n |-> Len(Blob(y)), off |-> c.cur + Len(E.units)], zp |-> z]
    <3>1. PatchedCells(c, i).units = E.units /\ PatchedCells(c, i).zp = z
      BY DEF PatchedCells
    <3> HIDE DEF y, z, E
    <3> QED
      BY <1>8, <2>2, <3>1 DEF Encoded, Desc
  <2>4. RowsAfter(c) = cards.rows /\ HeapEnd(c) = c.zp
    BY <1>8, ResultSet DEF HeapEnd
  <2>5. D2 \in [1..cards.rows -> CellDescs] /\ SumTo(EditLengths(c, i), Len(c.at)) \in Nat
    <3>1. D \in [1..cards.rows -> CellDescs] /\ Origs(D, cards.rows, c.zp)
      BY <1>1, <2>4
    <3> QED
      BY <1>8, <3>1, EditedDescsAre
  <2>6. z \in Nat
    <3>1. z = c.zp + SumTo(EditLengths(c, i), Len(c.at))
      BY <1>8, EditedCellsAre
    <3> HIDE DEF z
    <3> QED
      BY <1>2, <2>5, <3>1
  <2>7. y \in Seq(CellDescs)
    <3> HIDE DEF D2
    <3> QED
      BY <1>3, <1>4, <2>4, <2>5, TilePartsAre
  <2> DEFINE w == E.units
  <2> HIDE DEF E, y, z, e
  <2>8. IsSeq(w)
    BY <1>2, <2>1, LaidTyped
  <2> HIDE DEF w
  <2>9. e = [units |-> w \o Blob(y), desc |-> [n |-> Len(Blob(y)), off |-> c.cur + Len(w)], zp |-> z]
    BY <2>3 DEF w
  <2>10. IsSeq(e.units) /\ e.desc \in HeapDescs /\ e.zp \in Nat /\ (c.op # "setitem" => e.zp = c.zp)
    BY <1>6, <1>8, <2>6, <2>7, <2>8, <2>9
  <2> QED
    BY <2>10 DEF e
<1> QED
  BY <1>5, <1>7, <1>8

\* The parts of the invariant while nothing is tainted or harmed.
LEMMA InvParts ==
  ASSUME TableInv, harmed = "no", ~tainted
  PROVE  Typed /\ Room /\ CacheFits(cache) /\ \E D0 : Holding(D0)
BY DEF TableInv

\* The invariant while a call is running.
LEMMA CallRuns ==
  ASSUME TableInv, harmed = "no", call # Idle
  PROVE  ~tainted /\ Typed /\ Room /\ CacheFits(cache) /\ CallOK(call)
         /\ \E D0 : Holding(D0) /\ D0 \in [1..cards.rows -> CellDescs]
                    /\ \E D : Work(cols, sect, cards, table, Result(call), call, D0, D)
<1>1. ~tainted /\ Typed /\ Room /\ CacheFits(cache) /\ \E D0 : Holding(D0)
  BY DEF TableInv, Flags
<1>2. CallOK(call)
  BY <1>1 DEF Typed
<1>3. PICK D0 : Holding(D0)
  BY <1>1
<1>4. D0 \in [1..cards.rows -> CellDescs] /\ Working(cols, sect, cards, table, Result(call), call, D0)
  BY <1>3 DEF Holding
<1>5. \E D : Work(cols, sect, cards, table, Result(call), call, D0, D)
  BY <1>4 DEF Working
<1> QED
  BY <1>1, <1>2, <1>3, <1>4, <1>5

\* A call raises without a taint: if it has harmed nothing, the file is what it was.
LEMMA AbandonKeeps ==
  ASSUME TableInv, call # Idle, NEW kind \in {"io", "value"}, Abandons(call, kind),
         UNCHANGED <<cols, cards, cache, pending, tainted, table, stale>>
  PROVE  TableInv'
<1> DEFINE c == call
<1>0. /\ call # Idle /\ cols' = cols /\ cards' = cards /\ cache' = cache /\ pending' = pending
      /\ tainted' = tainted /\ table' = table /\ stale' = stale
  OBVIOUS
<1>1. Flags'
  <2>1. lost' = (lost \/ c.buffered)
    BY DEF Abandons
  <2>2. {tainted, stale, lost} \subseteq BOOLEAN
    BY DEF TableInv, Flags
  <2>3. lost' \in BOOLEAN
    BY <2>1, <2>2
  <2> QED
    BY <1>0, <2>2, <2>3 DEF Flags
<1> SUFFICES ASSUME harmed' = "no"
             PROVE  Typed' /\ Room' /\ CacheFits(cache)' /\ ~tainted' /\ \E D0 : Holding(D0)'
  BY <1>1 DEF TableInv
<1> DEFINE H == /\ cards.pcount > 0
                /\ (c.op = "write" /\ c.cur > 0) \/ c.theap > cards.tiles
<1>8. /\ call' = Idle
      /\ harmed' = IF H THEN kind ELSE harmed
      /\ sect' = InUse(sect, [cards EXCEPT !.tiles = c.theap])
  BY DEF Abandons
<1>2. harmed = "no" /\ ~H
  <2> HIDE DEF H
  <2> QED
    BY <1>8
<1>3. ~tainted /\ Typed /\ Room /\ CacheFits(cache) /\ CallOK(c)
  BY <1>0, <1>2, CallRuns
<1>4. PICK D0 : /\ Holding(D0) /\ D0 \in [1..cards.rows -> CellDescs]
                /\ \E D : Work(cols, sect, cards, table, Result(call), call, D0, D)
  BY <1>0, <1>2, CallRuns
<1>6. CacheFits(cache)' /\ ~tainted'
  BY <1>0, <1>3
<1>7. ASSUME SectOK', call' = Idle \/ CallOK(call)' PROVE Typed'
  BY <1>0, <1>3, <1>7 DEF Typed
<1>11. /\ call' = Idle /\ sect' = CutTo(sect, c.theap + cards.pcount)
       /\ ~(cards.pcount > 0 /\ ((c.op = "write" /\ c.cur > 0) \/ c.theap > cards.tiles))
  <2> DEFINE cds == [cards EXCEPT !.tiles = c.theap]
  <2>2. cds.tiles = c.theap /\ cds.pcount = cards.pcount
    BY <1>3 DEF Typed
  <2>3. sect' = InUse(sect, cds)
    BY <1>8
  <2> HIDE DEF cds
  <2>4. sect' = CutTo(sect, c.theap + cards.pcount)
    BY <2>2, <2>3 DEF InUse, CutTo
  <2> QED
    BY <1>2, <1>8, <2>4
<1> HIDE DEF H
<1>12. /\ c.cur \in Nat /\ cards.tiles \in Nat /\ cards.pcount \in Nat /\ c.theap \in Nat
      /\ cards.tiles = Tiles(cards.rows) /\ c.theap = Tiles(RowsAfter(c)) /\ cards.rows \in Nat /\ RowsAfter(c) \in Nat
      /\ Len(c.data) \in Nat /\ c.cards = cards /\ Len(table) = cards.rows
  BY <1>3, CallParts
<1>13. cards.tiles <= c.theap
  <2>1. cards.rows <= RowsAfter(c)
    BY <1>12 DEF RowsAfter
  <2> QED
    BY <1>12, <2>1, TilesGrow
<1>14. IsSeq(sect) /\ cards.tiles <= Len(sect) /\ \A k \in 1..cards.tiles : sect[k] \in TileDescs
  BY <1>3 DEF Typed, SectOK
<1> DEFINE m == c.theap + cards.pcount
<1>15. m \in Nat /\ cards.tiles <= m /\ Len(sect) \in Nat
  BY <1>12, <1>13, <1>14, SeqIsFun
<1>16. sect' = CutTo(sect, m)
  BY <1>11
<1> HIDE DEF m
<1>17. /\ IsSeq(sect') /\ Len(sect') = (IF Len(sect) < m THEN Len(sect) ELSE m)
      /\ \A q \in 1..Len(sect') : sect'[q] = sect[q]
  BY <1>14, <1>15, <1>16, FrontIs
<1>18. cards.tiles <= Len(sect') /\ \A k \in 1..cards.tiles : sect'[k] = sect[k]
  <2>1. cards.tiles <= Len(sect') /\ Len(sect') \in Nat
    BY <1>14, <1>15, <1>17
  <2> QED
    BY <1>12, <1>17, <2>1
<1>19. SectOK'
  BY <1>0, <1>14, <1>17, <1>18 DEF SectOK
<1>20. Typed'
  BY <1>7, <1>11, <1>19
<1>21. Room'
  <2>1. cards.rows + Len(pending.rows) <= MaxRows
    <3>1. Len(pending.rows) \in Nat /\ MaxRows \in Nat
      BY <1>3, TableAssumption DEF Typed
    <3> QED
      BY <1>3, <1>12, <3>1 DEF Room
  <2> QED
    BY <1>0, <1>3, <1>11, <1>12, <2>1 DEF Room, Typed
<1>22. cards.pcount = 0 \/ (c.theap = cards.tiles /\ (c.op = "write" => c.cur = 0))
  BY <1>11, <1>12, <1>13
<1>23. Content(cols, sect, cards.tiles, cards.pcount, sect, table, D0)
  BY <1>4, <1>22 DEF Holding, Intact
<1>24. cards.pcount = 0 \/ Carries(sect, cards.tiles, sect', cards.tiles, cards.pcount)
  <2>1. CASE c.theap = cards.tiles
    <3>1. cards.tiles + cards.pcount <= m
      BY <1>12, <2>1 DEF m
    <3>2. Carries(sect, cards.tiles, CutTo(sect, m), cards.tiles, cards.pcount)
      BY <1>12, <1>14, <1>15, <3>1, FrontCarries
    <3> QED
      BY <1>16, <3>2
  <2> QED
    BY <1>22, <2>1
<1>25. Content(cols, sect', cards.tiles, cards.pcount, sect', table, D0)
  BY <1>3, <1>4, <1>18, <1>23, <1>24, ContentUnderWrite
<1>26. CacheOK(cache, sect', table, D0, stale)
  <2>1. CacheOK(cache, sect, table, D0, stale)
    BY <1>4 DEF Holding
  <2> QED
    BY <1>12, <1>18, <2>1, CacheSame
<1>27. Holding(D0)'
  BY <1>0, <1>4, <1>11, <1>25, <1>26 DEF Holding
<1> QED
  BY <1>6, <1>20, <1>21, <1>27

\* EncodeTile.
LEMMA EncodeKeeps ==
  ASSUME TableInv, EncodeTile
  PROVE  TableInv'
<1> DEFINE c == call
           x == First(c.todo)
           i == x.tile
           col == x.col
           e == Encoded(c, i, col)
<1>0. /\ call # Idle /\ c.todo # {} /\ cols' = cols /\ cards' = cards /\ cache' = cache /\ pending' = pending
      /\ tainted' = tainted /\ table' = table /\ stale' = stale
  BY DEF EncodeTile
<1>10. CASE Rejected(c, i, col) \/ Undecodable(c, i, col)
  <2>1. Abandons(call, "value")
    <3> DEFINE B == Rejected(c, i, col) \/ Undecodable(c, i, col)
    <3>0. IF B THEN Abandons(c, "value")
          ELSE /\ sect' = WriteAt(sect, c.theap + c.cur + 1, e.units)
               /\ call' = [c EXCEPT !.todo = @ \ {x}, !.cur = @ + Len(e.units), !.zp = e.zp,
                                    !.main[i] = IF col = "f" THEN [@ EXCEPT !.f = e.desc]
                                                ELSE [@ EXCEPT !.v = e.desc]]
               /\ UNCHANGED <<harmed, lost>>
      BY DEF EncodeTile
    <3> HIDE DEF B, e
    <3> QED
      BY <1>10, <3>0 DEF B
  <2> HIDE DEF x, i, col, e
  <2> QED
    BY <1>0, <2>1, AbandonKeeps
<1> SUFFICES ASSUME ~(Rejected(c, i, col) \/ Undecodable(c, i, col)) PROVE TableInv'
  BY <1>10
<1>12. UNCHANGED <<harmed, lost>>
  <2> HIDE DEF e
  <2> QED
    BY DEF EncodeTile, e
<1>1. Flags'
  BY <1>0, <1>12 DEF TableInv, Flags
<1> SUFFICES ASSUME harmed' = "no"
             PROVE  Typed' /\ Room' /\ CacheFits(cache)' /\ ~tainted' /\ \E D0 : Holding(D0)'
  BY <1>1 DEF TableInv
<1>2. harmed = "no"
  BY <1>12
<1>3. ~tainted /\ Typed /\ Room /\ CacheFits(cache) /\ CallOK(c)
  BY <1>0, <1>2, CallRuns
<1>4. PICK D0 : /\ Holding(D0) /\ D0 \in [1..cards.rows -> CellDescs]
                /\ \E D : Work(cols, sect, cards, table, Result(call), call, D0, D)
  BY <1>0, <1>2, CallRuns
<1>5. PICK D : Work(cols, sect, cards, table, Result(call), call, D0, D)
  BY <1>4
<1>6. CacheFits(cache)' /\ ~tainted'
  BY <1>0, <1>3
<1>7. ASSUME SectOK', call' = Idle \/ CallOK(call)' PROVE Typed'
  BY <1>0, <1>3, <1>7 DEF Typed
<1>8. x \in c.todo /\ col \in {"f", "v"} /\ x = [tile |-> i, col |-> col]
  BY <1>0, <1>3, FirstIsLeft
<1>9. Left(c, i, col)
  BY <1>8 DEF Left
<1> HIDE DEF x, i, col
<1>11. ~(Rejected(c, i, col) \/ Undecodable(c, i, col))
  OBVIOUS
<1>13. Typed' /\ Room' /\ CacheFits(cache)' /\ ~tainted' /\ \E D1 : Holding(D1)'
  <2> DEFINE u == e.units
             d == e.desc
             z == e.zp
  <2>1. /\ sect' = Grown(c, u) /\ Steps(c, i, col, u, d, z, call')
    <3>1. /\ sect' = WriteAt(sect, c.theap + c.cur + 1, e.units)
          /\ call' = [c EXCEPT !.todo = @ \ {x}, !.cur = @ + Len(e.units), !.zp = e.zp,
                                 !.main[i] = IF col = "f" THEN [@ EXCEPT !.f = e.desc]
                                             ELSE [@ EXCEPT !.v = e.desc]]
      BY <1>11 DEF EncodeTile, x, i, col
    <3>2. sect' = Grown(c, u)
      BY <3>1 DEF Grown
    <3> HIDE DEF e
    <3>3. Steps(c, i, col, u, d, z, call')
      BY <1>8, <3>1 DEF Steps
    <3> QED
      BY <3>2, <3>3
  <2>2. IsSeq(u) /\ d \in HeapDescs /\ z \in Nat /\ (c.op # "setitem" => z = c.zp)
    BY <1>3, <1>4, <1>5, <1>8, <1>9, <1>11, EncodedTyped
  <2>3. Stepping(c, i, col, u, d, z, call', D0, D)
    <3> HIDE DEF e
    <3> QED
      BY <1>3, <1>4, <1>5, <1>8, <1>9, <2>1, <2>2 DEF Stepping
  <2>4. Holding(D0)' /\ SectOK' /\ CallOK(call)'
    BY <1>0, <1>4, <1>11, <2>1, <2>3, EncodeSteps
  <2>5. Typed'
    BY <1>7, <2>4
  <2>6. Room'
    <3>1. SameCall(c, call')
      BY <2>3, StepParts
    <3>2. call' # Idle
      <4>1. call'.op \in {"write", "append", "setitem"}
        BY <2>4 DEF CallOK, Calls
      <4> QED
        BY <4>1 DEF Idle
    <3> QED
      BY <1>0, <1>3, <3>1, <3>2 DEF Room, SameCall
  <2> QED
    BY <1>6, <2>4, <2>5, <2>6
<1> QED
  BY <1>13

\* CallFails and RepackFails: the handle is tainted, or the call raises before it writes.
LEMMA FailureKeeps ==
  ASSUME TableInv, CallFails \/ RepackFails
  PROVE  TableInv'
<1>0. \/ /\ tainted' = TRUE /\ call' = Idle
         /\ UNCHANGED <<cols, cards, sect, cache, pending, ghosts>>
      \/ /\ call # Idle /\ Abandons(call, "io")
         /\ UNCHANGED <<cols, cards, cache, pending, tainted, table, stale>>
  BY DEF CallFails, RepackFails, Repacks, ghosts
<1> SUFFICES ASSUME tainted' = TRUE, call' = Idle, UNCHANGED <<cols, cards, sect, cache, pending, ghosts>>
             PROVE  TableInv'
  BY <1>0, AbandonKeeps
<1>1. /\ tainted' = TRUE /\ call' = Idle
      /\ UNCHANGED <<cols, cards, sect, cache, pending, ghosts>>
  OBVIOUS
<1>2. /\ cols' = cols /\ cards' = cards /\ sect' = sect /\ cache' = cache /\ pending' = pending /\ table' = table
      /\ harmed' = harmed /\ stale' = stale /\ lost' = lost
  BY <1>1 DEF ghosts
<1>3. Flags'
  BY <1>1, <1>2 DEF TableInv, Flags
<1> SUFFICES ASSUME harmed = "no" PROVE Typed' /\ Room' /\ CacheFits(cache)' /\ call' = Idle
  BY <1>1, <1>2, <1>3 DEF TableInv
<1>4. Typed /\ Room /\ CacheFits(cache)
  BY DEF TableInv
<1>5. Typed'
  BY <1>1, <1>2, <1>4 DEF Typed, SectOK
<1>6. Room'
  <2>1. Len(pending.rows) \in Nat /\ MaxRows \in Nat /\ cards.rows \in Nat
    BY <1>4, TableAssumption DEF Typed
  <2>2. cards.rows + Len(pending.rows) <= MaxRows
    <3>1. CASE call # Idle /\ call.op = "append"
      <4>1. Len(call.data) \in Nat
        BY <1>4, <3>1, CallParts DEF Typed
      <4> QED
        BY <1>4, <2>1, <3>1, <4>1 DEF Room
    <3>2. CASE ~(call # Idle /\ call.op = "append")
      BY <1>4, <2>1, <3>2 DEF Room
    <3> QED
      BY <3>1, <3>2
  <2> QED
    BY <1>1, <1>2, <1>4, <2>1, <2>2 DEF Room
<1> QED
  BY <1>1, <1>2, <1>4, <1>5, <1>6

\* The cards that Commit writes.
LEMMA NewCardsAre ==
  ASSUME Typed, NEW c, CallOK(c)
  PROVE  /\ NewCards(c) \in [rows : Nat, tiles : Nat, pcount : Nat, zpcount : Nat]
         /\ NewCards(c).rows = RowsAfter(c) /\ NewCards(c).tiles = c.theap /\ NewCards(c).pcount = c.cur
         /\ "v" \in cols => NewCards(c).zpcount = HeapEnd(c)
<1> DEFINE m == Len(c.data)
           L == Lengths(c.data)
           end == Plan(L, c.zp)[m + 1]
<1>1. /\ RowsAfter(c) \in Nat /\ c.cur \in Nat /\ c.zp \in Nat /\ c.theap = Tiles(RowsAfter(c)) /\ c.theap \in Nat
      /\ c.data \in Seq(RowVals) /\ m \in Nat /\ c.cards = cards /\ cards.zpcount \in Nat
  BY CallParts
<1>2. end = c.zp + SumTo(L, m) /\ end \in Nat
  <2>1. L \in [1..m -> Nat]
    BY <1>1, LengthsAre
  <2> HIDE DEF L, m
  <2>2. \A k \in 1..(m + 1) : /\ Plan(L, c.zp)[k] = c.zp + SumTo(L, k - 1) /\ Plan(L, c.zp)[k] \in Nat
    BY <1>1, <2>1, PlanIs
  <2>3. m + 1 \in 1..(m + 1) /\ (m + 1) - 1 = m
    BY <1>1
  <2> QED
    BY <2>2, <2>3
<1>3. NewCards(c) = [rows |-> RowsAfter(c), tiles |-> Tiles(RowsAfter(c)), pcount |-> c.cur,
         zpcount |-> IF "v" \notin cols THEN c.cards.zpcount
                     ELSE IF c.op = "setitem" THEN c.zp ELSE end]
  BY DEF NewCards
<1> HIDE DEF end, L, m
<1>4. NewCards(c) \in [rows : Nat, tiles : Nat, pcount : Nat, zpcount : Nat]
  BY <1>1, <1>2, <1>3
<1>5. "v" \in cols => NewCards(c).zpcount = HeapEnd(c)
  BY <1>2, <1>3 DEF HeapEnd, m, L
<1> QED
  BY <1>1, <1>3, <1>4, <1>5

\* The section that Commit leaves holds the result.
LEMMA CommitHolds ==
  ASSUME Typed, NEW c, CallOK(c), c.todo = {}, NEW D0, NEW D,
         Work(cols, sect, cards, table, Result(c), c, D0, D),
         NEW S2, S2 = CutTo(WriteAt(sect, 1, c.main), c.theap + c.cur)
  PROVE  /\ IsSeq(S2) /\ c.theap <= Len(S2) /\ \A k \in 1..c.theap : S2[k] = c.main[k] /\ S2[k] \in TileDescs
         /\ Content(cols, S2, c.theap, c.cur, S2, Result(c), D)
<1> DEFINE W == WriteAt(sect, 1, c.main)
           m == c.theap + c.cur
           z == 0
           R == Result(c)
<1>1. /\ c.main \in Seq(TileDescs) /\ Len(c.main) = c.theap /\ c.theap = Tiles(RowsAfter(c)) /\ c.theap \in Nat
      /\ c.cur \in Nat /\ RowsAfter(c) \in Nat
  BY CallParts
<1>2. IsSeq(sect) /\ IsSeq(c.main)
  BY <1>1, TypedIsSeq DEF Typed, SectOK
<1>3. W = WriteAt(sect, z + 1, c.main) /\ z \in Nat /\ m \in Nat
  BY <1>1
<1>4. /\ IsSeq(W) /\ Len(W) = (IF Len(sect) < z + Len(c.main) THEN z + Len(c.main) ELSE Len(sect))
      /\ \A q \in 1..Len(c.main) : W[z + q] = c.main[q]
  <2> HIDE DEF W, z
  <2> QED
    BY <1>2, <1>3, Written
<1>5. Len(sect) \in Nat
  BY <1>2, SeqIsFun
<1>6. c.theap <= Len(W) /\ Len(W) \in Nat
  <2> HIDE DEF W
  <2> QED
    BY <1>1, <1>4, <1>5
<1>7. \A q \in 1..c.theap : W[q] = c.main[q]
  <2>1. \A q \in 1..c.theap : z + q = q
    BY <1>1
  <2> HIDE DEF W, z
  <2> QED
    BY <1>1, <1>4, <2>1
<1>8. Carries(sect, c.theap, W, c.theap, c.cur)
  <2>1. z + Len(c.main) <= c.theap
    BY <1>1
  <2>2. c.theap + c.cur <= z \/ z + Len(c.main) <= c.theap
    BY <2>1
  <2> HIDE DEF W, z
  <2> QED
    BY <1>1, <1>2, <1>3, <2>2, WrittenCarries
<1>9. S2 = CutTo(W, m) /\ c.theap + c.cur <= m /\ c.theap <= m
  BY <1>1
<1> HIDE DEF W, m, z
<1>10. Carries(W, c.theap, S2, c.theap, c.cur)
  <2>1. Carries(W, c.theap, CutTo(W, m), c.theap, c.cur)
    BY <1>1, <1>3, <1>4, <1>9, FrontCarries
  <2> QED
    BY <1>9, <2>1
<1>11. Carries(sect, c.theap, S2, c.theap, c.cur)
  BY <1>8, <1>10, CarriesThrough
<1>12. /\ IsSeq(S2) /\ Len(S2) = (IF Len(W) < m THEN Len(W) ELSE m) /\ \A q \in 1..Len(S2) : S2[q] = W[q]
  <2>1. LET U == CutTo(W, m)
        IN /\ IsSeq(U) /\ Len(U) = (IF Len(W) < m THEN Len(W) ELSE m)
           /\ \A q \in 1..Len(U) : U[q] = W[q]
    BY <1>3, <1>4, FrontIs
  <2> QED
    BY <1>9, <2>1
<1>13. c.theap <= Len(S2) /\ Len(S2) \in Nat
  BY <1>1, <1>3, <1>6, <1>9, <1>12
<1>14. \A k \in 1..c.theap : S2[k] = c.main[k] /\ S2[k] \in TileDescs
  <2>1. \A k \in 1..c.theap : c.main[k] \in TileDescs
    BY <1>1, ElementOfSeq
  <2>2. \A k \in 1..c.theap : k \in 1..Len(S2)
    BY <1>1, <1>13
  <2> QED
    BY <1>7, <1>12, <2>1, <2>2
<1>15. Moves(sect, c.theap, c.cur, S2, c.theap, c.cur)
  BY <1>1, <1>11 DEF Moves
<1>16. R \in Seq(TableRows) /\ Len(R) = RowsAfter(c)
  BY ResultTyped
<1>17. Content(cols, sect, c.theap, c.cur, c.main, R, D)
  <2>1. \A k, e : ~Left(c, k, e)
    BY DEF Left
  <2>2. SlabsDone(sect, R, c) /\ BlobsDone(cols, sect, R, c, D)
    BY DEF Work
  <2>3. Tiles(Len(R)) = c.theap
    BY <1>1, <1>16
  <2> QED
    BY <2>1, <2>2, <2>3 DEF SlabsDone, BlobsDone, Content
<1>18. \A k \in 1..Tiles(Len(R)) : c.main[k] \in TileDescs /\ S2[k] = c.main[k]
  BY <1>1, <1>14, <1>16
<1>19. D \in [1..Len(R) -> CellDescs]
  BY <1>16 DEF Work
<1>20. Content(cols, S2, c.theap, c.cur, S2, R, D)
  <2> HIDE DEF R
  <2> QED
    BY <1>15, <1>16, <1>17, <1>18, <1>19, ContentMoved
<1> QED
  BY <1>12, <1>13, <1>14, <1>20

\* A cache without entries is good for any content.
LEMMA CacheCleared ==
  ASSUME NEW ca, CacheFits(ca), NEW main, NEW tab, NEW D, NEW st
  PROVE  CacheOK(Clear(ca), main, tab, D, st) /\ CacheFits(Clear(ca))
<1>1. PICK E : Budget(E, ca)
  BY DEF CacheFits
<1>2. ca.cap \in Nat
  BY <1>1 DEF Budget, Caches
<1>3. Sized({})
  BY DEF Sized
<1>4. Budget({}, EmptyCache(ca.cap)) /\ EmptyCache(ca.cap).cur <= EmptyCache(ca.cap).cap
  BY <1>2, <1>3, EmptyBudget
<1> QED
  BY <1>4 DEF CacheOK, CacheFits, Clear

\* A cache under which the data were replaced: it is stale, or was empty.
LEMMA CacheReplaced ==
  ASSUME NEW ca, CacheFits(ca), NEW main, NEW tab, NEW D, NEW st, st \/ ca.lru = <<>>
  PROVE  CacheOK(ca, main, tab, D, st)
<1>1. PICK E : Budget(E, ca) /\ ca.cur <= ca.cap
  BY DEF CacheFits
<1>2. CASE st
  BY <1>1, <1>2 DEF CacheOK
<1>3. CASE ca.lru = <<>>
  <2>1. Sized({})
    BY DEF Sized
  <2>2. ca \in Caches({})
    BY <1>1, <1>3 DEF Budget, Caches
  <2>3. Budget({}, ca)
    BY <1>1, <2>1, <2>2 DEF Budget
  <2> QED
    BY <1>1, <2>3 DEF CacheOK
<1> QED
  BY <1>2, <1>3

\* Commit.
LEMMA CommitKeeps ==
  ASSUME TableInv, Commit
  PROVE  TableInv'
<1> DEFINE c == call
           R == Result(c)
<1>0. /\ call # Idle /\ c.todo = {} /\ sect' = InUse(WriteAt(sect, 1, c.main), NewCards(c)) /\ cards' = NewCards(c)
      /\ cache' = (IF c.op = "write" THEN cache ELSE Clear(cache))
      /\ stale' = (c.op = "write" /\ (stale \/ cache.lru # <<>>))
      /\ table' = R /\ call' = Idle
      /\ cols' = cols /\ pending' = pending /\ tainted' = tainted /\ harmed' = harmed /\ lost' = lost
  BY DEF Commit
<1>1. Flags'
  <2>1. {tainted, stale, lost} \subseteq BOOLEAN
    BY DEF TableInv, Flags
  <2>2. stale' \in BOOLEAN
    BY <1>0
  <2> QED
    BY <1>0, <2>1, <2>2 DEF Flags
<1> SUFFICES ASSUME harmed = "no"
             PROVE  Typed' /\ Room' /\ CacheFits(cache)' /\ ~tainted' /\ \E D0 : Holding(D0)'
  BY <1>0, <1>1 DEF TableInv
<1>2. ~tainted /\ Typed /\ Room /\ CacheFits(cache) /\ CallOK(c)
  BY <1>0, CallRuns
<1>3. PICK D0 : \E D : Work(cols, sect, cards, table, Result(call), call, D0, D)
  BY <1>0, CallRuns
<1>4. PICK D : Work(cols, sect, cards, table, Result(call), call, D0, D)
  BY <1>3
<1>5. /\ RowsAfter(c) \in Nat /\ c.cur \in Nat /\ c.theap = Tiles(RowsAfter(c)) /\ c.theap \in Nat
      /\ c.data \in Seq(RowVals) /\ Len(c.data) \in Nat /\ c.cards = cards /\ cards.rows \in Nat
  BY <1>2, CallParts
<1>6. /\ cards' \in [rows : Nat, tiles : Nat, pcount : Nat, zpcount : Nat]
      /\ cards'.rows = RowsAfter(c) /\ cards'.tiles = c.theap /\ cards'.pcount = c.cur
      /\ "v" \in cols => cards'.zpcount = HeapEnd(c)
  BY <1>0, <1>2, NewCardsAre
<1>7. sect' = CutTo(WriteAt(sect, 1, c.main), c.theap + c.cur)
  BY <1>0, <1>6 DEF InUse, CutTo
<1>8. /\ IsSeq(sect') /\ c.theap <= Len(sect') /\ \A k \in 1..c.theap : sect'[k] = c.main[k] /\ sect'[k] \in TileDescs
      /\ Content(cols, sect', c.theap, c.cur, sect', R, D)
  BY <1>0, <1>2, <1>4, <1>7, CommitHolds
<1>9. R \in Seq(TableRows) /\ Len(R) = RowsAfter(c)
  BY <1>2, ResultTyped
<1> HIDE DEF R
<1>10. SectOK'
  BY <1>6, <1>8 DEF SectOK
<1>11. Typed'
  BY <1>0, <1>2, <1>5, <1>6, <1>9, <1>10 DEF Typed
<1>12. Room'
  <2>1. Len(pending.rows) \in Nat /\ MaxRows \in Nat
    BY <1>2, TableAssumption DEF Typed
  <2>2. RowsAfter(c) + Len(pending.rows) <= MaxRows
    BY <1>0, <1>2, <1>5, <2>1 DEF Room, RowsAfter
  <2> QED
    BY <1>0, <1>2, <1>5, <1>6, <2>1, <2>2 DEF Room
<1>13. CacheFits(cache')
  <2>1. CacheFits(Clear(cache))
    BY <1>2, CacheCleared
  <2> QED
    BY <1>0, <1>2, <2>1
<1>14. CacheOK(cache', sect', R, D, stale')
  <2>1. CASE c.op = "write"
    <3>1. stale' \/ cache.lru = <<>>
      BY <1>0, <2>1
    <3> DEFINE st == stale'
    <3>2. st \/ cache.lru = <<>>
      BY <3>1
    <3> HIDE DEF st
    <3>3. CacheOK(cache, sect', R, D, st)
      BY <1>2, <3>2, CacheReplaced
    <3> QED
      BY <1>0, <2>1, <3>3 DEF st
  <2>2. CASE c.op # "write"
    <3>1. CacheOK(Clear(cache), sect', R, D, stale')
      BY <1>2, CacheCleared
    <3> QED
      BY <1>0, <2>2, <3>1
  <2> QED
    BY <2>1, <2>2
<1>15. D \in [1..RowsAfter(c) -> CellDescs] /\ Origs(D, RowsAfter(c), HeapEnd(c))
  BY <1>4 DEF Work
<1>16. Origs(D, RowsAfter(c), cards'.zpcount)
  <2>1. CASE "v" \in cols
    BY <1>6, <1>15, <2>1
  <2>2. CASE "v" \notin cols
    <3>1. ASSUME NEW r \in 1..RowsAfter(c) PROVE D[r].n = 0
      <4> DEFINE i == TileOfRow(r)
                 j == PlaceOfRow(r)
      <4>1. i \in 1..Tiles(RowsAfter(c)) /\ j \in 1..TileLen(i, RowsAfter(c)) /\ RowOf(i, j) = r
        BY <1>5, RowPlace
      <4> HIDE DEF i, j
      <4>2. BlobSpells(cols, sect', c.theap, c.cur, sect'[i].v, i, R, D)
        BY <1>8, <1>9, <4>1 DEF Content
      <4>3. D[r] = Zero
        BY <1>9, <2>2, <4>1, <4>2 DEF BlobSpells
      <4> QED
        BY <4>3 DEF Zero
    <3> QED
      BY <3>1 DEF Origs
  <2> QED
    BY <2>1, <2>2
<1>17. Holding(D)'
  <2>1. /\ D \in [1..cards'.rows -> CellDescs] /\ Origs(D, cards'.rows, cards'.zpcount)
        /\ Content(cols', sect', cards'.tiles, cards'.pcount, sect', table', D)
        /\ CacheOK(cache', sect', table', D, stale')
    BY <1>0, <1>6, <1>8, <1>14, <1>15, <1>16
  <2> QED
    BY <1>0, <2>1 DEF Holding
<1> QED
  BY <1>0, <1>2, <1>11, <1>12, <1>13, <1>17

-----------------------------------------------------------------------------
(* A call begins.                                                          *)

\* A setitem that has encoded nothing yet.
LEMMA SetItemWorks ==
  ASSUME Typed, NEW c, CallOK(c), c.op = "setitem",
         c.todo = Todo({TileOfRow(c.at[k]) : k \in DOMAIN c.at}, c.cs),
         \A k \in 1..cards.tiles : c.main[k] = sect[k], c.cur = cards.pcount, c.zp = cards.zpcount,
         NEW D0 \in [1..cards.rows -> CellDescs], Origs(D0, cards.rows, cards.zpcount),
         Content(cols, sect, cards.tiles, cards.pcount, sect, table, D0)
  PROVE  Work(cols, sect, cards, table, Result(c), c, D0, D0)
<1> DEFINE R == Result(c)
           n == cards.rows
<1>1. /\ R \in Seq(TableRows) /\ Len(R) = n /\ RowsAfter(c) = n /\ c.theap = cards.tiles
      /\ \A r \in 1..n :
              LET k == LastEdit(c, r) IN
              /\ k # 0 => k \in TileEdits(c, TileOfRow(r))
              /\ R[r].f = IF k # 0 /\ "f" \in c.cs THEN c.data[k].f ELSE table[r].f
              /\ R[r].v = IF k # 0 /\ "v" \in c.cs THEN c.data[k].v
                                  ELSE IF table[r].v = NoCell /\ "v" \in c.cs /\ TileEdits(c, TileOfRow(r)) # {}
                                  THEN <<>> ELSE table[r].v
  BY ResultSet
<1>2. /\ n \in Nat /\ Len(table) = n /\ cards.tiles = Tiles(n) /\ c.cards = cards
  BY CallParts
<1> HIDE DEF R
<1>3. ASSUME NEW i, NEW col \in c.cs, ~Left(c, i, col)
      PROVE  TileEdits(c, i) = {}
  <2>1. i \notin {TileOfRow(c.at[k]) : k \in DOMAIN c.at}
    BY <1>3 DEF Left, Todo
  <2> QED
    BY <2>1 DEF TileEdits
<1>4. ASSUME NEW i \in 1..c.theap, ~Left(c, i, "f")
      PROVE  SlabSpells(sect, c.theap, c.cur, c.main[i].f, i, R)
  <2>1. \A j \in 1..TileLen(i, n) : RowOf(i, j) \in 1..n /\ TileOfRow(RowOf(i, j)) = i
    BY <1>1, <1>2, PlaceRow
  <2>2. \A j \in 1..TileLen(i, n) : R[RowOf(i, j)].f = table[RowOf(i, j)].f
    <3>1. "f" \in c.cs => TileEdits(c, i) = {}
      BY <1>3, <1>4
    <3> QED
      BY <1>1, <2>1, <3>1
  <2>3. SlabOf(R, i) = SlabOf(table, i)
    BY <1>1, <1>2, <2>2 DEF SlabOf
  <2>4. SlabSpells(sect, c.theap, c.cur, c.main[i].f, i, table)
    BY <1>1, <1>2 DEF Content
  <2> QED
    BY <1>1, <1>2, <2>2, <2>3, <2>4 DEF SlabSpells
<1>5. ASSUME NEW i \in 1..c.theap, ~Left(c, i, "v")
      PROVE  BlobSpells(cols, sect, c.theap, c.cur, c.main[i].v, i, R, D0)
  <2>1. \A j \in 1..TileLen(i, n) : RowOf(i, j) \in 1..n /\ TileOfRow(RowOf(i, j)) = i
    BY <1>1, <1>2, PlaceRow
  <2>2. \A j \in 1..TileLen(i, n) : R[RowOf(i, j)].v = table[RowOf(i, j)].v
    <3>1. "v" \in c.cs => TileEdits(c, i) = {}
      BY <1>3, <1>5
    <3> QED
      BY <1>1, <2>1, <3>1
  <2>3. BlobSpells(cols, sect, c.theap, c.cur, c.main[i].v, i, table, D0)
    BY <1>1, <1>2 DEF Content
  <2> QED
    BY <1>1, <1>2, <2>2, <2>3 DEF BlobSpells
<1>6. SlabsDone(sect, R, c) /\ BlobsDone(cols, sect, R, c, D0)
  BY <1>4, <1>5 DEF SlabsDone, BlobsDone
<1>7. OldThere(cols, sect, cards, table, c, D0)
  BY <1>1 DEF OldThere, MergeOK
<1>8. EditsLeft(sect, c, D0, D0)
  BY <1>1 DEF EditsLeft
<1>9. PlanKept(cols, c, D0, D0)
  BY DEF PlanKept
<1>10. Origs(D0, RowsAfter(c), HeapEnd(c))
  BY <1>1 DEF HeapEnd
<1> QED
  BY <1>1, <1>6, <1>7, <1>8, <1>9, <1>10 DEF Work, R

\* A call begins where none was, on the same cards, cache and table.
LEMMA BeginKeeps ==
  ASSUME TableInv, harmed = "no", call = Idle, ~tainted, NEW c2, CallOK(c2), call' = c2, tainted' = tainted,
         cols' = cols, cards' = cards, table' = table, cache' = cache, stale' = stale, harmed' = harmed,
         pending' \in [on : BOOLEAN, rows : Seq(RowVals)], Room', lost' \in BOOLEAN,
         IsSeq(sect'), cards.tiles <= Len(sect'), \A k \in 1..cards.tiles : sect'[k] = sect[k],
         NEW D0, Holding(D0), Working(cols, sect', cards, table, Result(c2), c2, D0),
         cards.pcount = 0 \/ c2.theap # cards.tiles \/ Carries(sect, cards.tiles, sect', cards.tiles, cards.pcount)
  PROVE  TableInv'
<1>1. Typed /\ CacheFits(cache) /\ Flags
  BY InvParts DEF TableInv
<1>2. c2 # Idle
  BY CallIsNotIdle
<1>3. CallOK(call)' /\ Result(call)' = Result(c2)
  <2>1. (CallOK(c2)' <=> CallOK(c2)) /\ Result(c2)' = Result(c2)
    BY SameFrame
  <2> QED
    BY <2>1
<1>4. SectOK'
  BY <1>1 DEF SectOK, Typed
<1>5. Typed'
  BY <1>1, <1>3, <1>4 DEF Typed
<1>6. D0 \in [1..cards.rows -> CellDescs] /\ Content(cols, sect, cards.tiles, cards.pcount, sect, table, D0)
      /\ Origs(D0, cards.rows, cards.zpcount) /\ CacheOK(cache, sect, table, D0, stale)
  BY DEF Holding, Intact
<1>7. ASSUME Intact' PROVE Content(cols, sect', cards.tiles, cards.pcount, sect', table, D0)
  <2>1. cards.pcount = 0 \/ c2.theap = cards.tiles
    BY <1>2, <1>7 DEF Intact
  <2>2. cards.pcount = 0 \/ Carries(sect, cards.tiles, sect', cards.tiles, cards.pcount)
    BY <2>1
  <2> QED
    BY <1>1, <1>6, <2>2, ContentUnderWrite
<1>8. CacheOK(cache, sect', table, D0, stale)
  <2>1. Tiles(Len(table)) = cards.tiles
    BY <1>1 DEF Typed
  <2> QED
    BY <1>6, <2>1, CacheSame
<1>9. Working(cols, sect', cards, table, Result(call)', c2, D0)
  BY <1>3
<1>10. Holding(D0)'
  BY <1>2, <1>6, <1>7, <1>8, <1>9 DEF Holding
<1>11. Flags'
  <2>1. {tainted, stale, lost'} \subseteq BOOLEAN
    BY <1>1 DEF Flags
  <2> QED
    BY <2>1 DEF Flags
<1>12. \E D : Holding(D)'
  BY <1>10
<1>13. CacheFits(cache)'
  BY <1>1
<1>14. tainted' = FALSE
  BY <1>1 DEF Flags
<1> QED
  BY <1>5, <1>11, <1>12, <1>13, <1>14 DEF TableInv

\* The fields of a new call.
LEMMA CallIs ==
  ASSUME NEW op, NEW todo, NEW data, NEW at, NEW cs, NEW main, NEW theap
  PROVE  LET c == Call(op, todo, data, at, cs, main, theap)
         IN  /\ c.op = op /\ c.cs = cs /\ c.cards = cards /\ c.todo = todo /\ c.data = data /\ c.at = at
             /\ c.main = main /\ c.theap = theap /\ c.cur = (IF op = "write" THEN 0 ELSE cards.pcount)
             /\ c.zp = (IF op = "write" THEN 0 ELSE cards.zpcount)
             /\ c.old = [f |-> <<>>, v |-> <<>>]
<1> DEFINE cur == IF op = "write" THEN 0 ELSE cards.pcount
           zp == IF op = "write" THEN 0 ELSE cards.zpcount
           old == [f |-> <<>>, v |-> <<>>]
<1>1. Call(op, todo, data, at, cs, main, theap) =
        [op |-> op, cs |-> cs, cards |-> cards, todo |-> todo, data |-> data, at |-> at, main |-> main,
         theap |-> theap, cur |-> cur, zp |-> zp, old |-> old, buffered |-> FALSE]
  BY DEF Call
<1> HIDE DEF cur, zp, old
<1>2. LET c == Call(op, todo, data, at, cs, main, theap)
      IN  /\ c.op = op /\ c.cs = cs /\ c.cards = cards /\ c.todo = todo /\ c.data = data /\ c.at = at
          /\ c.main = main /\ c.theap = theap /\ c.cur = cur /\ c.zp = zp /\ c.old = old
  BY <1>1
<1> QED
  BY <1>2 DEF cur, zp, old

\* The form of a new call.
LEMMA CallTyped ==
  ASSUME Typed, NEW op \in {"write", "append", "setitem"}, NEW cs \in SUBSET cols,
         NEW todo \in SUBSET [tile : Nat, col : cols], NEW data \in Seq(RowVals), NEW at \in Seq(1..cards.rows),
         NEW main \in Seq(TileDescs), NEW theap \in Nat
  PROVE  Call(op, todo, data, at, cs, main, theap) \in Calls
<1>1. cards.pcount \in Nat /\ cards.zpcount \in Nat
  BY DEF Typed
<1>2. [f |-> <<>>, v |-> <<>>] \in [f : Seq(Nat), v : Seq(CellDescs)]
  OBVIOUS
<1> DEFINE cur == IF op = "write" THEN 0 ELSE cards.pcount
           zp == IF op = "write" THEN 0 ELSE cards.zpcount
           old == [f |-> <<>>, v |-> <<>>]
<1>3. cur \in Nat /\ zp \in Nat
  BY <1>1
<1>4. Call(op, todo, data, at, cs, main, theap) =
        [op |-> op, cs |-> cs, cards |-> cards, todo |-> todo, data |-> data, at |-> at, main |-> main,
         theap |-> theap, cur |-> cur, zp |-> zp, old |-> old, buffered |-> FALSE]
  BY DEF Call
<1>5. old \in [f : Seq(Nat), v : Seq(CellDescs)]
  BY <1>2
<1> HIDE DEF cur, zp, old
<1> QED
  BY <1>3, <1>4, <1>5 DEF Calls

\* Where something was harmed, only the flags are left to show.
LEMMA HarmedKeeps ==
  ASSUME Flags', harmed' # "no"
  PROVE  TableInv'
BY DEF TableInv

\* BeginSetItem.
LEMMA BeginSetItemKeeps ==
  ASSUME TableInv, NEW at \in RowKeys, NEW cs, cs \subseteq cols, ToSet(at) \subseteq 1..cards.rows,
         NEW data \in [DOMAIN at -> RowVals], BeginSetItem(at, cs, data)
  PROVE  TableInv'
<1> DEFINE T == {TileOfRow(at[k]) : k \in DOMAIN at}
           main == SubSeq(sect, 1, cards.tiles)
           c == Call("setitem", Todo(T, cs), data, at, cs, main, cards.tiles)
<1>0. /\ call = Idle /\ ~tainted /\ call' = c /\ cols' = cols /\ cards' = cards /\ sect' = sect /\ cache' = cache
      /\ pending' = pending /\ tainted' = tainted /\ table' = table /\ harmed' = harmed /\ stale' = stale /\ lost' = lost
  BY DEF BeginSetItem, ghosts
<1>1. Flags /\ Flags'
  BY <1>0 DEF TableInv, Flags
<1>2. CASE harmed # "no"
  BY <1>0, <1>1, <1>2, HarmedKeeps
<1>3. CASE harmed = "no"
  <2>1. Typed /\ Room /\ \E D0 : Holding(D0)
    BY <1>0, <1>3, InvParts
  <2>2. PICK D0 : Holding(D0)
    BY <2>1
  <2>3. /\ cards.rows \in Nat /\ cards.tiles \in Nat /\ cards.tiles = Tiles(cards.rows)
        /\ IsSeq(sect) /\ cards.tiles <= Len(sect) /\ \A k \in 1..cards.tiles : sect[k] \in TileDescs
        /\ cards.pcount \in Nat
    BY <2>1 DEF Typed, SectOK
  <2>4. at \in Seq(1..cards.rows) /\ Len(at) \in Nat /\ DOMAIN at = 1..Len(at)
    <3>1. at \in Seq(Nat \ {0})
      BY RowsAssumption
    <3>2. Len(at) \in Nat /\ DOMAIN at = 1..Len(at) /\ at \in [1..Len(at) -> Nat \ {0}]
      BY <3>1
    <3>3. \A k \in 1..Len(at) : at[k] \in 1..cards.rows
      BY <3>2 DEF ToSet
    <3>4. at \in [1..Len(at) -> 1..cards.rows]
      BY <3>2, <3>3
    <3> DEFINE m == Len(at)
               B == 1..cards.rows
    <3>5. at \in [1..m -> B] /\ m \in Nat
      BY <3>2, <3>4
    <3> HIDE DEF m, B
    <3>6. at \in Seq(B)
      BY <3>5
    <3> QED
      BY <3>2, <3>6 DEF B
  <2>5. data \in Seq(RowVals) /\ Len(data) = Len(at)
    BY <2>4
  <2>6. main \in Seq(TileDescs) /\ Len(main) = cards.tiles /\ \A k \in 1..cards.tiles : main[k] = sect[k]
    <3> DEFINE z == 0
    <3>1. z \in Nat /\ z + cards.tiles <= Len(sect) /\ z + cards.tiles = cards.tiles /\ z + 1 = 1
      BY <2>3
    <3>2. main = SubSeq(sect, z + 1, z + cards.tiles)
      BY <3>1
    <3>3. \A k \in 1..cards.tiles : z + k = k
      BY <2>3
    <3> HIDE DEF z, main
    <3>4. IsSeq(main) /\ Len(main) = cards.tiles /\ \A k \in 1..cards.tiles : main[k] = sect[z + k]
      BY <2>3, <3>1, <3>2, PartIs, ZenonT(40)
    <3>5. \A k \in 1..cards.tiles : main[k] = sect[k] /\ main[k] \in TileDescs
      BY <2>3, <3>3, <3>4
    <3>6. main = [k \in 1..cards.tiles |-> main[k]]
      BY <3>4, SeqIsFun
    <3>7. main \in [1..cards.tiles -> TileDescs]
      BY <3>5, <3>6
    <3>8. main \in Seq(TileDescs)
      BY <2>3, <3>7
    <3> QED
      BY <3>4, <3>5, <3>8
  <2>7. T \subseteq 1..cards.tiles
    <3>1. \A k \in DOMAIN at : at[k] \in 1..cards.rows
      BY <2>4, ElementOfSeq
    <3>2. \A r \in 1..cards.rows : TileOfRow(r) \in 1..cards.tiles
      BY <2>3, RowPlace
    <3> QED
      BY <3>1, <3>2
  <2>8. Todo(T, cs) \subseteq [tile : 1..cards.tiles, col : cs]
    <3> HIDE DEF T
    <3> QED
      BY <2>7 DEF Todo
  <2>9. Todo(T, cs) \in SUBSET [tile : Nat, col : cols]
    <3> HIDE DEF T
    <3> QED
      BY <2>3, <2>8
  <2>10. /\ c.op = "setitem" /\ c.cs = cs /\ c.cards = cards /\ c.todo = Todo(T, cs) /\ c.data = data /\ c.at = at
         /\ c.main = main /\ c.theap = cards.tiles /\ c.cur = cards.pcount /\ c.zp = cards.zpcount
    <3> HIDE DEF T, main
    <3>1. "setitem" # "write"
      OBVIOUS
    <3> QED
      BY <3>1, CallIs
  <2>11. c \in Calls
    <3> HIDE DEF T, main
    <3> QED
      BY <2>1, <2>3, <2>4, <2>5, <2>6, <2>9, CallTyped
  <2> HIDE DEF c, main
  <2>12. CallOK(c)
    <3>1. RowsAfter(c) = cards.rows
      BY <2>10 DEF RowsAfter
    <3>2. \A x \in c.todo : TileEdits(c, x.tile) # {}
      BY <2>10 DEF TileEdits, Todo
    <3>3. "setitem" # "write" /\ "setitem" # "append"
      OBVIOUS
    <3> HIDE DEF T
    <3> QED
      BY <2>3, <2>5, <2>6, <2>8, <2>10, <2>11, <3>1, <3>2, <3>3 DEF CallOK
  <2>13. /\ D0 \in [1..cards.rows -> CellDescs] /\ Origs(D0, cards.rows, cards.zpcount)
         /\ Content(cols, sect, cards.tiles, cards.pcount, sect, table, D0)
    BY <1>0, <2>2 DEF Holding, Intact
  <2>14. Work(cols, sect, cards, table, Result(c), c, D0, D0)
    <3>1. c.todo = Todo({TileOfRow(c.at[k]) : k \in DOMAIN c.at}, c.cs)
      BY <2>10
    <3>2. \A k \in 1..cards.tiles : c.main[k] = sect[k]
      BY <2>6, <2>10
    <3> QED
      BY <2>1, <2>10, <2>12, <2>13, <3>1, <3>2, SetItemWorks
  <2>15. Working(cols, sect', cards, table, Result(c), c, D0)
    BY <1>0, <2>14 DEF Working
  <2>16. Room'
    <3>1. ~(call' # Idle /\ call'.op = "append") /\ ~(call # Idle /\ call.op = "append")
      BY <1>0, <2>10
    <3> QED
      BY <1>0, <2>1, <3>1 DEF Room
  <2>17. Carries(sect, cards.tiles, sect', cards.tiles, cards.pcount)
    BY <1>0 DEF Carries
  <2>18. pending' \in [on : BOOLEAN, rows : Seq(RowVals)] /\ lost' \in BOOLEAN /\ ~tainted'
    BY <1>0, <1>1, <2>1 DEF Typed, Flags
  <2>19. IsSeq(sect') /\ cards.tiles <= Len(sect') /\ \A k \in 1..cards.tiles : sect'[k] = sect[k]
    BY <1>0, <2>3
  <2> QED
    BY <1>0, <1>3, <2>2, <2>12, <2>15, <2>16, <2>17, <2>18, <2>19, BeginKeeps
<1> QED
  BY <1>2, <1>3

\* The descriptors of a write or append before anything is encoded: the old ones, and the plan.
OldDescsOf(c, D0) == [r \in 1..RowsAfter(c) |-> IF r <= Kept(c) THEN D0[r] ELSE Zero]
PlannedDescs(c, D0) ==
    [r \in 1..RowsAfter(c) |->
       IF r <= Kept(c) \/ "v" \notin cols THEN OldDescsOf(c, D0)[r]
       ELSE [n |-> Len(c.data[r - Kept(c)].v), orig |-> c.zp + SumTo(Lengths(c.data), r - Kept(c) - 1),
             cn |-> 0, cs |-> 0]]

\* The descriptors that write and append plan: the old rows keep theirs, the new ones get
\* places behind the original heap.
LEMMA PlannedDescsAre ==
  ASSUME Typed, NEW c, CallOK(c), c.op # "setitem", NEW D0 \in [1..cards.rows -> CellDescs],
         Origs(D0, cards.rows, cards.zpcount)
  PROVE  /\ PlannedDescs(c, D0) \in [1..RowsAfter(c) -> CellDescs]
         /\ PlanKept(cols, c, D0, PlannedDescs(c, D0))
         /\ Origs(PlannedDescs(c, D0), RowsAfter(c), HeapEnd(c))
         /\ \A r \in 1..RowsAfter(c) : /\ r <= Kept(c) => PlannedDescs(c, D0)[r] = D0[r]
                                       /\ r > Kept(c) /\ "v" \notin cols => PlannedDescs(c, D0)[r] = Zero
<1> DEFINE N == RowsAfter(c)
           k == Kept(c)
           m == Len(c.data)
           L == Lengths(c.data)
           D1 == OldDescsOf(c, D0)
           D == PlannedDescs(c, D0)
           K == [r \in 1..N |-> IF r <= k THEN 0 ELSE r - k]
<1>1. /\ N \in Nat /\ k \in Nat /\ m \in Nat /\ c.zp \in Nat /\ c.data \in Seq(RowVals)
      /\ cards.rows \in Nat /\ cards.zpcount \in Nat
  BY CallParts
<1>2. /\ N = k + m
      /\ \A r \in 1..N : /\ r <= k => c.op = "append" /\ r \in 1..cards.rows
                         /\ r > k => r - k \in 1..m
  BY ResultNew
<1>3. L \in [1..m -> Nat] /\ \A q \in 1..m : L[q] = Len(c.data[q].v)
  BY <1>1, LengthsAre
<1>4. /\ \A q \in 0..m : SumTo(L, q) \in Nat
  <2> HIDE DEF L, m
  <2> QED
    BY <1>1, <1>3, SumToNat
<1>5. Zero \in CellDescs /\ Zero.n = 0
  BY DEF Zero, CellDescs
<1>6. D1 = [r \in 1..N |-> IF r <= k THEN D0[r] ELSE Zero]
  BY DEF OldDescsOf
<1> HIDE DEF D1
<1>7. D1 \in [1..N -> CellDescs] /\ \A r \in 1..N : (r <= k => D1[r] = D0[r]) /\ (r > k => D1[r] = Zero)
  <2>1. \A r \in 1..N : r <= k => D0[r] \in CellDescs
    BY <1>2
  <2> HIDE DEF N, k
  <2> QED
    BY <1>1, <1>5, <1>6, <2>1
<1>8. Origs(D1, N, c.zp)
  <2>1. ASSUME NEW r \in 1..N, D1[r].n > 0
        PROVE  r <= k /\ c.op = "append" /\ r \in 1..cards.rows /\ D1[r] = D0[r]
    <3>1. r <= k
      BY <1>1, <1>5, <1>7, <2>1
    <3> QED
      BY <1>2, <1>7, <3>1
  <2>2. c.op = "append" => c.zp = cards.zpcount
    BY DEF CallOK
  <2> HIDE DEF N, k
  <2> QED
    BY <2>1, <2>2 DEF Origs
<1>9. D = [r \in 1..N |-> IF r <= k \/ "v" \notin cols THEN D1[r]
                          ELSE [n |-> Len(c.data[r - k].v), orig |-> c.zp + SumTo(L, r - k - 1), cn |-> 0, cs |-> 0]]
  BY DEF PlannedDescs, D1
<1> HIDE DEF D, L, m
<1>10. ASSUME NEW r \in 1..N, r > k
       PROVE  /\ r - k \in 1..m /\ r - k - 1 \in 0..m /\ SumTo(L, r - k - 1) \in Nat
              /\ Len(c.data[r - k].v) = L[r - k] /\ L[r - k] \in Nat
  <2>1. r - k \in 1..m
    BY <1>2, <1>10
  <2>2. r - k - 1 \in 0..m
    <3>1. r \in Nat
      BY <1>1
    <3> HIDE DEF k
    <3> QED
      BY <1>1, <2>1, <3>1
  <2> QED
    BY <1>3, <1>4, <2>1, <2>2
<1>11. D \in [1..N -> CellDescs]
  <2>1. ASSUME NEW r \in 1..N PROVE D[r] \in CellDescs
    <3>1. CASE r <= k \/ "v" \notin cols
      BY <1>7, <1>9, <3>1
    <3>2. CASE ~(r <= k \/ "v" \notin cols)
      <4>1. r > k
        BY <1>1, <3>2
      <4>2. D[r] = [n |-> Len(c.data[r - k].v), orig |-> c.zp + SumTo(L, r - k - 1), cn |-> 0, cs |-> 0]
        BY <1>9, <3>2
      <4>3. Len(c.data[r - k].v) \in Nat /\ c.zp + SumTo(L, r - k - 1) \in Nat
        <5> DEFINE q == SumTo(L, r - k - 1)
                   l == Len(c.data[r - k].v)
        <5>1. q \in Nat /\ l = L[r - k] /\ L[r - k] \in Nat
          BY <1>10, <4>1
        <5> HIDE DEF q, l
        <5>2. l \in Nat
          BY <5>1
        <5>3. c.zp + q \in Nat
          BY <1>1, <5>1
        <5> QED
          BY <5>2, <5>3 DEF q, l
      <4> DEFINE a == Len(c.data[r - k].v)
                 b == c.zp + SumTo(L, r - k - 1)
      <4>4. D[r] = [n |-> a, orig |-> b, cn |-> 0, cs |-> 0] /\ a \in Nat /\ b \in Nat
        BY <4>2, <4>3
      <4> HIDE DEF a, b
      <4> QED
        BY <4>4 DEF CellDescs
    <3> QED
      BY <3>1, <3>2
  <2> QED
    BY <1>9, <2>1
<1>12. \A r \in 1..N : /\ r <= k => D[r] = D0[r]
                       /\ r > k /\ "v" \notin cols => D[r] = Zero
  BY <1>7, <1>9
<1>13. ASSUME "v" \in cols, NEW r \in 1..N, r > k
       PROVE  D[r].n = Len(c.data[r - k].v) /\ D[r].orig = c.zp + SumTo(L, r - k - 1)
  BY <1>1, <1>9, <1>13
<1>14. PlanKept(cols, c, D0, D)
  <2>1. ASSUME "v" \in cols, NEW r \in 1..N
        PROVE  D[r].n = Planned(c, D0, r).n /\ D[r].orig = Planned(c, D0, r).orig
    <3>1. CASE r <= k
      BY <1>12, <3>1 DEF Planned
    <3>2. CASE ~(r <= k)
      <4>1. r > k
        BY <1>1, <3>2
      <4> QED
        BY <1>13, <2>1, <3>2, <4>1 DEF Planned, L
    <3> QED
      BY <3>1, <3>2
  <2> QED
    BY <2>1 DEF PlanKept
<1>15. HeapEnd(c) = c.zp + SumTo(L, m) /\ SumTo(L, m) \in Nat
  <2>1. m \in 0..m
    BY <1>1
  <2> QED
    BY <1>4, <2>1 DEF HeapEnd, L, m
<1>16. Origs(D, N, HeapEnd(c))
  <2>1. CASE "v" \notin cols
    <3>1. D = D1
      BY <1>7, <1>9, <2>1
    <3>2. \A r \in 1..N : D1[r].n \in Nat /\ D1[r].orig \in Nat
      BY <1>7 DEF CellDescs
    <3> HIDE DEF N
    <3> QED
      BY <1>1, <1>8, <1>15, <3>1, <3>2 DEF Origs
  <2>2. CASE "v" \in cols
    <3>1. K \in [1..N -> 0..m]
      <4>1. \A r \in 1..N : ~(r <= k) => r - k \in 0..m
        BY <1>1, <1>10
      <4> HIDE DEF N, k
      <4> QED
        BY <1>1, <4>1
    <3>2. \A r \in 1..N : K[r] = IF r <= k THEN 0 ELSE r - k
      OBVIOUS
    <3> HIDE DEF K
    <3>3. \A r, s \in 1..N : r # s /\ K[r] # 0 => K[r] # K[s]
      <4> HIDE DEF N, k
      <4>1. \A r \in 1..N : r \in Int
        OBVIOUS
      <4> QED
        BY <1>1, <3>2, <4>1
    <3>4. ASSUME NEW r \in 1..N
          PROVE  IF K[r] = 0 THEN D[r].n = D1[r].n /\ D[r].orig = D1[r].orig
                 ELSE D[r].n = L[K[r]] /\ D[r].orig = c.zp + SumTo(L, K[r] - 1)
      <4>1. CASE r <= k
        BY <1>7, <1>12, <3>2, <4>1
      <4>2. CASE r > k
        <5>1. K[r] = r - k /\ K[r] # 0
          BY <1>1, <3>2, <4>2
        <5> QED
          BY <1>10, <1>13, <2>2, <4>2, <5>1
      <4> QED
        BY <1>1, <4>1, <4>2
    <3>5. \A r \in 1..N : D1[r].n \in Nat /\ D1[r].orig \in Nat
      BY <1>7 DEF CellDescs
    <3>6. Added(N, D1, c.zp, m, L, K, D)
      <4> HIDE DEF N
      <4> QED
        BY <1>1, <1>3, <3>1, <3>3, <3>4, <3>5 DEF Added
    <3>7. Origs(D, N, c.zp + SumTo(L, m))
      BY <1>8, <3>6, OrigsAdded
    <3> QED
      BY <1>15, <3>7
  <2> QED
    BY <2>1, <2>2
<1> QED
  BY <1>11, <1>12, <1>14, <1>16 DEF D

\* A write that has encoded nothing yet.
LEMMA WriteWorks ==
  ASSUME Typed, NEW c, CallOK(c), c.op = "write", c.todo = Todo(1..cards.tiles, cols),
         \A k \in 1..cards.tiles : c.main[k] = NoDescs,
         NEW D0 \in [1..cards.rows -> CellDescs], Origs(D0, cards.rows, cards.zpcount)
  PROVE  Work(cols, sect, cards, table, Result(c), c, D0, PlannedDescs(c, D0))
<1> DEFINE R == Result(c)
           D == PlannedDescs(c, D0)
           n == cards.rows
<1>1. /\ D \in [1..RowsAfter(c) -> CellDescs] /\ PlanKept(cols, c, D0, D) /\ Origs(D, RowsAfter(c), HeapEnd(c))
      /\ \A r \in 1..RowsAfter(c) : r > Kept(c) /\ "v" \notin cols => D[r] = Zero
  BY PlannedDescsAre
<1>2. RowsAfter(c) = n /\ Kept(c) = 0 /\ n \in Nat /\ cards.tiles = Tiles(n) /\ c.theap = cards.tiles
  <2>1. c.cards = cards /\ cards.rows \in Nat /\ cards.tiles = Tiles(cards.rows) /\ c.theap = Tiles(RowsAfter(c))
    BY CallParts
  <2> QED
    BY <2>1 DEF RowsAfter, Kept
<1>3. /\ Len(R) = n
      /\ \A r \in 1..n : r > 0 => r - 0 \in 1..Len(c.data) /\ R[r] = Row(c.data[r - 0])
  BY <1>2, ResultNew
<1>4. \A k \in 1..Len(c.data) : c.data[k] \in RowVals
  BY CallParts
<1>5. "f" \in cols
  BY DEF Typed
<1> HIDE DEF R, D
<1>6. SlabsDone(sect, R, c)
  BY <1>2, <1>5 DEF SlabsDone, Left, Todo
<1>7. BlobsDone(cols, sect, R, c, D)
  <2>1. CASE "v" \in cols
    BY <1>2, <2>1 DEF BlobsDone, Left, Todo
  <2>2. CASE "v" \notin cols
    <3>1. ASSUME NEW i \in 1..c.theap PROVE BlobSpells(cols, sect, c.theap, c.cur, c.main[i].v, i, R, D)
      <4>1. c.main[i].v.n = 0
        BY <1>2 DEF NoDescs, Desc
      <4>2. ASSUME NEW j \in 1..TileLen(i, n)
            PROVE  R[RowOf(i, j)].v = Blank(cols) /\ D[RowOf(i, j)] = Zero
        <5> DEFINE r == RowOf(i, j)
        <5>1. r \in 1..n
          BY <1>2, PlaceRow
        <5> HIDE DEF r
        <5>2. r > 0 /\ r - 0 = r
          BY <1>2, <5>1
        <5>3. r \in 1..Len(c.data) /\ R[r] = Row(c.data[r])
          BY <1>3, <5>1, <5>2
        <5>4. R[r].v = <<>>
          <6>1. Row(c.data[r]) = [f |-> c.data[r].f, v |-> IF "v" \in cols THEN c.data[r].v ELSE <<>>]
            BY <1>4, <5>3, RowValsAre
          <6> QED
            BY <2>2, <5>3, <6>1
        <5>5. D[r] = Zero
          BY <1>1, <1>2, <2>2, <5>1, <5>2
        <5> QED
          BY <2>2, <5>4, <5>5 DEF Blank, r
      <4> QED
        BY <1>3, <4>1, <4>2 DEF BlobSpells
    <3> QED
      BY <3>1 DEF BlobsDone
  <2> QED
    BY <2>1, <2>2
<1>8. OldThere(cols, sect, cards, table, c, D0) /\ EditsLeft(sect, c, D0, D)
  BY DEF OldThere, EditsLeft
<1> QED
  BY <1>1, <1>6, <1>7, <1>8 DEF Work, R, D

\* BeginWrite.
LEMMA BeginWriteKeeps ==
  ASSUME TableInv, NEW data \in [1..cards.rows -> RowVals], BeginWrite(data)
  PROVE  TableInv'
<1> DEFINE main == [i \in 1..cards.tiles |-> NoDescs]
           todo == Todo(1..cards.tiles, cols)
           c == Call("write", todo, data, <<>>, cols, main, cards.tiles)
<1>0. /\ call = Idle /\ ~tainted /\ call' = c /\ cols' = cols /\ cards' = cards /\ sect' = sect /\ cache' = cache
      /\ pending' = pending /\ tainted' = tainted /\ table' = table /\ harmed' = harmed /\ stale' = stale /\ lost' = lost
  BY DEF BeginWrite, ghosts
<1>1. Flags /\ Flags'
  BY <1>0 DEF TableInv, Flags
<1>2. CASE harmed # "no"
  BY <1>0, <1>1, <1>2, HarmedKeeps
<1>3. CASE harmed = "no"
  <2>1. Typed /\ Room /\ \E D0 : Holding(D0)
    BY <1>0, <1>3, InvParts
  <2>2. PICK D0 : Holding(D0)
    BY <2>1
  <2>3. /\ cards.rows \in Nat /\ cards.tiles \in Nat /\ cards.tiles = Tiles(cards.rows)
        /\ IsSeq(sect) /\ cards.tiles <= Len(sect)
    BY <2>1 DEF Typed, SectOK
  <2>4. <<>> \in Seq(1..cards.rows) /\ data \in Seq(RowVals) /\ Len(data) = cards.rows
    BY <2>3
  <2>5. main \in Seq(TileDescs) /\ Len(main) = cards.tiles /\ \A k \in 1..cards.tiles : main[k] = NoDescs
    <3>1. NoDescs \in TileDescs
      BY DEF NoDescs, Desc, TileDescs, HeapDescs
    <3> QED
      BY <2>3, <3>1
  <2>6. todo \subseteq [tile : 1..cards.tiles, col : cols] /\ todo \in SUBSET [tile : Nat, col : cols]
    BY <2>3 DEF Todo
  <2> HIDE DEF main, todo
  <2>7. /\ c.op = "write" /\ c.cs = cols /\ c.cards = cards /\ c.todo = todo /\ c.data = data /\ c.at = <<>>
        /\ c.main = main /\ c.theap = cards.tiles
    BY CallIs
  <2>8. c \in Calls
    <3>1. cols \in SUBSET cols
      OBVIOUS
    <3> QED
      BY <2>1, <2>3, <2>4, <2>5, <2>6, <3>1, CallTyped
  <2> HIDE DEF c
  <2>9. CallOK(c)
    <3>1. RowsAfter(c) = cards.rows
      BY <2>7 DEF RowsAfter
    <3>2. "write" # "setitem" /\ "write" # "append"
      OBVIOUS
    <3> QED
      BY <2>3, <2>4, <2>5, <2>6, <2>7, <2>8, <3>1, <3>2 DEF CallOK
  <2>10. D0 \in [1..cards.rows -> CellDescs] /\ Origs(D0, cards.rows, cards.zpcount)
    BY <2>2 DEF Holding
  <2>11. Work(cols, sect, cards, table, Result(c), c, D0, PlannedDescs(c, D0))
    <3>1. \A k \in 1..cards.tiles : c.main[k] = NoDescs
      BY <2>5, <2>7
    <3>2. c.todo = Todo(1..cards.tiles, cols)
      BY <2>7 DEF todo
    <3> QED
      BY <2>1, <2>7, <2>9, <2>10, <3>1, <3>2, WriteWorks
  <2>12. Working(cols, sect', cards, table, Result(c), c, D0)
    BY <1>0, <2>11 DEF Working
  <2>13. Room'
    <3>1. ~(call' # Idle /\ call'.op = "append") /\ ~(call # Idle /\ call.op = "append")
      BY <1>0, <2>7
    <3> QED
      BY <1>0, <2>1, <3>1 DEF Room
  <2>14. Carries(sect, cards.tiles, sect', cards.tiles, cards.pcount)
    BY <1>0, <2>3, SeqIsFun DEF Carries
  <2>15. pending' \in [on : BOOLEAN, rows : Seq(RowVals)] /\ lost' \in BOOLEAN /\ ~tainted'
    BY <1>0, <1>1, <2>1 DEF Typed, Flags
  <2>16. IsSeq(sect') /\ cards.tiles <= Len(sect') /\ \A k \in 1..cards.tiles : sect'[k] = sect[k]
    BY <1>0, <2>3
  <2> QED
    BY <1>0, <1>3, <2>2, <2>9, <2>12, <2>13, <2>14, <2>15, <2>16, BeginKeeps
<1> QED
  BY <1>2, <1>3

\* Any range of a sequence, also one that goes beyond its end.
LEMMA RangeIs ==
  ASSUME NEW s, NEW m \in Nat, NEW n \in Nat
  PROVE  LET u == SubSeq(s, m + 1, m + n)
         IN  IsSeq(u) /\ Len(u) = n /\ \A q \in 1..n : u[q] = s[m + q]
<1> DEFINE u == SubSeq(s, m + 1, m + n)
<1>1. u = [i \in 1..(1 + (m + n) - (m + 1)) |-> s[i + (m + 1) - 1]]
  OBVIOUS
<1> HIDE DEF u
<1>2. 1 + (m + n) - (m + 1) = n /\ \A q \in 1..n : q + (m + 1) - 1 = m + q
  OBVIOUS
<1>3. \A q \in 1..n : u[q] = s[m + q]
  BY <1>1, <1>2
<1>4. u = [q \in 1..n |-> u[q]]
  BY <1>1, <1>2
<1>5. IsSeq(u) /\ Len(u) = n
  BY <1>4, FunIsSeq
<1> QED
  BY <1>3, <1>5 DEF u

\* Relocated: the heap behind the longer table, and the descriptors where they were.
LEMMA RelocatedIs ==
  ASSUME Typed, NEW n \in Nat
  PROVE  LET S2 == Relocated(n)
             t == Tiles(cards.rows + n)
         IN  /\ IsSeq(S2) /\ cards.tiles <= Len(S2) /\ \A k \in 1..cards.tiles : S2[k] = sect[k]
             /\ cards.tiles <= t /\ t \in Nat
             /\ t = cards.tiles => S2 = sect
             /\ cards.pcount = 0 \/ Moves(sect, cards.tiles, cards.pcount, S2, t, cards.pcount)
<1> DEFINE S2 == Relocated(n)
           t == Tiles(cards.rows + n)
           a == cards.tiles
           p == cards.pcount
           heap == SubSeq(sect, a + 1, a + p)
<1>1. /\ a \in Nat /\ p \in Nat /\ cards.rows \in Nat /\ a = Tiles(cards.rows) /\ IsSeq(sect) /\ a <= Len(sect)
      /\ Len(sect) \in Nat
  <2>1. /\ a \in Nat /\ p \in Nat /\ cards.rows \in Nat /\ a = Tiles(cards.rows) /\ IsSeq(sect) /\ a <= Len(sect)
    BY DEF Typed, SectOK
  <2> QED
    BY <2>1, SeqIsFun
<1>2. a <= t /\ t \in Nat
  <2> DEFINE m == cards.rows + n
  <2>1. m \in Nat /\ cards.rows <= m /\ t = Tiles(m)
    BY <1>1
  <2> HIDE DEF m, t
  <2>2. Tiles(m) \in Nat
    BY <2>1, TilesHold
  <2>3. Tiles(cards.rows) <= Tiles(m)
    BY <1>1, <2>1, TilesGrow
  <2> QED
    BY <1>1, <2>1, <2>2, <2>3
<1>3. CASE ~Relocates(n)
  <2>1. S2 = sect
    BY <1>3 DEF Relocated
  <2>2. t = a \/ p = 0
    <3>1. ~(t > a) \/ ~(p > 0)
      BY <1>3 DEF Relocates
    <3> HIDE DEF t, a, p
    <3> QED
      BY <1>1, <1>2, <3>1
  <2>3. t = a => Moves(sect, a, p, S2, t, p)
    BY <1>1, <1>2, <2>1 DEF Moves, Carries
  <2>4. IsSeq(S2) /\ a <= Len(S2) /\ \A k \in 1..a : S2[k] = sect[k]
    BY <1>1, <2>1
  <2> HIDE DEF S2, t, a, p
  <2>5. /\ IsSeq(S2) /\ a <= Len(S2) /\ \A k \in 1..a : S2[k] = sect[k]
        /\ a <= t /\ t \in Nat /\ (t = a => S2 = sect) /\ (p = 0 \/ Moves(sect, a, p, S2, t, p))
    BY <1>2, <2>1, <2>2, <2>3, <2>4
  <2> QED
    BY <2>5 DEF S2, t, a, p
<1>4. CASE Relocates(n)
  <2>1. S2 = WriteAt(sect, t + 1, heap)
    BY <1>4 DEF Relocated
  <2>2. t > a /\ p > 0
    BY <1>4 DEF Relocates
  <2>3. IsSeq(heap) /\ Len(heap) = p /\ \A q \in 1..p : heap[q] = sect[a + q]
    BY <1>1, RangeIs
  <2> HIDE DEF heap, t, S2
  <2>4. /\ IsSeq(S2) /\ Len(S2) = (IF Len(sect) < t + Len(heap) THEN t + Len(heap) ELSE Len(sect))
        /\ \A q \in 1..Len(heap) : S2[t + q] = heap[q]
        /\ \A q \in 1..Len(sect) : q <= t \/ q > t + Len(heap) => S2[q] = sect[q]
    <3>1. LET W == WriteAt(sect, t + 1, heap)
          IN  /\ IsSeq(W) /\ Len(W) = (IF Len(sect) < t + Len(heap) THEN t + Len(heap) ELSE Len(sect))
              /\ \A q \in 1..Len(heap) : W[t + q] = heap[q]
              /\ \A q \in 1..Len(sect) : q <= t \/ q > t + Len(heap) => W[q] = sect[q]
      BY <1>1, <1>2, <2>3, Written, ZenonT(40)
    <3> QED
      BY <2>1, <3>1
  <2> HIDE DEF a, p
  <2>5. Len(S2) >= Len(sect) /\ Len(S2) >= t + p
    BY <1>1, <1>2, <2>3, <2>4
  <2>6. \A k \in 1..a : S2[k] = sect[k]
    BY <1>1, <1>2, <2>4
  <2>7. ASSUME NEW q \in 1..p PROVE t + q <= Len(S2) /\ S2[t + q] = sect[a + q]
    <3>1. t + q <= Len(S2)
      BY <1>1, <1>2, <2>4, <2>5
    <3> QED
      BY <2>3, <2>4, <3>1
  <2>8. Moves(sect, a, p, S2, t, p)
    BY <1>1, <1>2, <2>7 DEF Moves, Carries
  <2>9. a <= Len(S2)
    BY <1>1, <1>2, <2>3, <2>4
  <2>10. /\ IsSeq(S2) /\ a <= Len(S2) /\ \A k \in 1..a : S2[k] = sect[k]
         /\ a <= t /\ t \in Nat /\ t # a /\ Moves(sect, a, p, S2, t, p)
    BY <1>1, <1>2, <2>2, <2>4, <2>6, <2>8, <2>9
  <2> QED
    BY <2>10 DEF S2, t, a, p
<1> QED
  BY <1>3, <1>4

\* The last tile takes rows in when it has room.
LEMMA MergeIs ==
  ASSUME Typed, NEW n \in Nat \ {0}
  PROVE  /\ MergeRows(n) > 0 <=> cards.rows < cards.tiles * TileRows
         /\ cards.rows < cards.tiles * TileRows => cards.tiles \in 1..cards.tiles
<1> DEFINE a == cards.tiles
           m == cards.rows
           x == TileLen(a, m)
           room == IF a = 0 THEN 0 ELSE TileRows - x
<1>1. a \in Nat /\ m \in Nat /\ a = Tiles(m)
  BY DEF Typed
<1>2. TileRows \in Nat \ {0} /\ a * TileRows \in Nat /\ (a - 1) * TileRows = a * TileRows - TileRows
  BY <1>1, Products
<1>3. MergeRows(n) = IF n < room THEN n ELSE room
  BY DEF MergeRows
<1>4. CASE a = 0
  <2>1. a * TileRows = 0
    BY <1>2, <1>4
  <2>2. room = 0
    BY <1>4
  <2> HIDE DEF room, a, m
  <2>3. MergeRows(n) = 0
    BY <1>3, <2>2
  <2>4. ~(m < a * TileRows) /\ ~(MergeRows(n) > 0)
    BY <1>1, <2>1, <2>3
  <2> QED
    BY <2>4 DEF a, m
<1>5. CASE a # 0
  <2>1. a \in 1..a
    BY <1>1, <1>5
  <2>2. /\ x \in 1..TileRows
        /\ a * TileRows <= m => x = TileRows
        /\ m < a * TileRows => x = m - (a - 1) * TileRows
    BY <1>1, <2>1, TileLenIs
  <2>3. room = TileRows - x
    BY <1>5
  <2> HIDE DEF room, x
  <2> DEFINE y == a * TileRows
             z == (a - 1) * TileRows
  <2>4. y \in Nat /\ z = y - TileRows /\ (y <= m => x = TileRows) /\ (m < y => x = m - z)
    BY <1>2, <2>2
  <2> HIDE DEF y, z, a, m
  <2>5. room > 0 <=> m < y
    BY <1>1, <1>2, <2>2, <2>3, <2>4
  <2>6. room \in Nat
    BY <1>2, <2>2, <2>3
  <2>7. MergeRows(n) > 0 <=> room > 0
    BY <1>3, <2>6
  <2> QED
    BY <2>1, <2>5, <2>7 DEF y, a, m
<1> QED
  BY <1>4, <1>5

\* The tiles that append encodes are those that the old rows do not fill.
LEMMA TilesToAppend ==
  ASSUME Typed, NEW t \in Nat, cards.tiles <= t, NEW i
  PROVE  LET from == IF cards.rows < cards.tiles * TileRows THEN cards.tiles ELSE cards.tiles + 1
         IN  i \in from..t <=> i \in 1..t /\ cards.rows < i * TileRows
<1> DEFINE a == cards.tiles
           m == cards.rows
           y == a * TileRows
           from == IF m < y THEN a ELSE a + 1
<1>1. a \in Nat /\ m \in Nat /\ a = Tiles(m)
  BY DEF Typed
<1>2. /\ TileRows \in Nat \ {0} /\ y \in Nat /\ m <= y /\ y < m + TileRows
  BY <1>1, Products, TilesHold
<1>3. y = 0 \/ a # 0
  BY <1>2
<1>4. ASSUME NEW k \in Int PROVE /\ k * TileRows \in Int
                                 /\ k <= a - 1 => k * TileRows <= y - TileRows
                                 /\ k <= a => k * TileRows <= y
                                 /\ k >= a => k * TileRows >= y
                                 /\ k >= a + 1 => k * TileRows >= y + TileRows
  <2>1. a - 1 \in Int /\ a + 1 \in Int /\ a \in Int
    BY <1>1
  <2>2. (a - 1) * TileRows = y - TileRows /\ ((a + 1) - 1) * TileRows = (a + 1) * TileRows - TileRows
    BY <2>1, Products
  <2>3. (a + 1) - 1 = a
    BY <2>1
  <2>4. (a + 1) * TileRows \in Int
    BY <2>1, Products
  <2>5. (a + 1) * TileRows = y + TileRows
    <3> DEFINE w == (a + 1) * TileRows
    <3>1. y = w - TileRows /\ w \in Int
      BY <2>2, <2>3, <2>4
    <3> HIDE DEF w, y
    <3>2. w = y + TileRows
      BY <1>2, <3>1
    <3> QED
      BY <3>2 DEF w
  <2>6. k * TileRows \in Int /\ \A j \in Int : (k <= j => k * TileRows <= j * TileRows)
                                          /\ (j <= k => j * TileRows <= k * TileRows)
    BY Products
  <2>7. (k >= a => a <= k) /\ (k >= a + 1 => a + 1 <= k)
    BY <2>1
  <2>8. (k <= a - 1 => k * TileRows <= (a - 1) * TileRows) /\ (k <= a => k * TileRows <= y)
        /\ (k >= a => y <= k * TileRows) /\ (k >= a + 1 => (a + 1) * TileRows <= k * TileRows)
    BY <2>1, <2>6, <2>7
  <2> DEFINE w == k * TileRows
  <2>9. w \in Int /\ (k <= a - 1 => w <= y - TileRows) /\ (k <= a => w <= y) /\ (k >= a => y <= w)
        /\ (k >= a + 1 => y + TileRows <= w)
    BY <2>2, <2>5, <2>6, <2>8
  <2> HIDE DEF w, y, a
  <2>10. w \in Int /\ (k <= a - 1 => w <= y - TileRows) /\ (k <= a => w <= y) /\ (k >= a => w >= y)
        /\ (k >= a + 1 => w >= y + TileRows)
    BY <1>2, <2>9
  <2> QED
    BY <2>10 DEF w
<1> HIDE DEF y
<1>5. CASE i \notin Int
  BY <1>1, <1>5
<1>6. CASE i \in Int
  <2> DEFINE w == i * TileRows
  <2>1. w \in Int /\ (i <= a - 1 => w <= y - TileRows) /\ (i <= a => w <= y) /\ (i >= a => w >= y)
        /\ (i >= a + 1 => w >= y + TileRows)
    BY <1>4, <1>6
  <2> HIDE DEF w
  <2>2. CASE m < y
    <3>1. from = a
      BY <2>2
    <3>2. a # 0
      BY <1>1, <1>3, <2>2
    <3> HIDE DEF from, a, m
    <3>3. i \in from..t <=> i \in 1..t /\ m < w
      BY <1>1, <1>2, <1>6, <2>1, <2>2, <3>1, <3>2
    <3> QED
      BY <3>3 DEF from, a, m, w, y
  <2>3. CASE ~(m < y)
    <3>1. from = a + 1
      BY <2>3
    <3> HIDE DEF from, a, m
    <3>3. i \in from..t <=> i \in 1..t /\ m < w
      BY <1>1, <1>2, <1>6, <2>1, <2>3, <3>1
    <3> QED
      BY <3>3 DEF from, a, m, w, y
  <2> QED
    BY <2>2, <2>3
<1> QED
  BY <1>5, <1>6

\* What append keeps of the last tile.
LEMMA AppendOld ==
  ASSUME Typed, NEW n \in Nat \ {0}, Decodable(n), NEW D0 \in [1..cards.rows -> CellDescs],
         Content(cols, sect, cards.tiles, cards.pcount, sect, table, D0),
         cards.rows < cards.tiles * TileRows
  PROVE  LET a == cards.tiles
         IN  /\ sect[a].f.n # 0 /\ SlabAt(a, cards.rows, a).of = SlabOf(table, a) /\ SlabOf(table, a) \in Seq(Nat)
             /\ "v" \in cols => /\ sect[a].v.n # 0 /\ BlobAt(a, cards.rows, a).of = DescsOf(D0, a, cards.rows)
                                /\ DescsOf(D0, a, cards.rows) \in Seq(CellDescs)
<1> DEFINE a == cards.tiles
<1>1. a \in 1..a /\ MergeRows(n) > 0
  BY MergeIs
<1>2. /\ a \in Nat /\ a = Tiles(cards.rows) /\ table \in Seq(TableRows) /\ Len(table) = cards.rows /\ "f" \in cols
      /\ D0 \in [1..Len(table) -> CellDescs] /\ a \in 1..Tiles(Len(table))
  BY <1>1 DEF Typed
<1>3. /\ SlabAt(a, cards.rows, a) = Decoded(sect[a].f, SlabOf(table, a))
      /\ BlobAt(a, cards.rows, a) = Decoded(sect[a].v, DescsOf(D0, a, cards.rows))
  BY <1>1, <1>2, OldTiles
<1>4. \A col \in cols : TileAt(col, a, cards.rows, a).ok
  BY <1>1 DEF Decodable
<1>5. /\ SlabAt(a, cards.rows, a).ok
      /\ "v" \in cols => BlobAt(a, cards.rows, a).ok
  BY <1>2, <1>4 DEF TileAt
<1>6. /\ sect[a].f.n # 0 /\ SlabAt(a, cards.rows, a).of = SlabOf(table, a)
      /\ "v" \in cols => sect[a].v.n # 0 /\ BlobAt(a, cards.rows, a).of = DescsOf(D0, a, cards.rows)
  BY <1>3, <1>5 DEF Decoded, Wrong, Right
<1>7. SlabOf(table, a) \in Seq(Nat) /\ DescsOf(D0, a, Len(table)) \in Seq(CellDescs)
  BY <1>2, TilePartsAre
<1> QED
  BY <1>2, <1>6, <1>7

\* The call that append starts.
LEMMA AppendCallIs ==
  ASSUME Typed, NEW data \in Seq(RowVals), Len(data) > 0, Decodable(Len(data)),
         NEW D0 \in [1..cards.rows -> CellDescs],
         Content(cols, sect, cards.tiles, cards.pcount, sect, table, D0),
         NEW b \in BOOLEAN, NEW c, c = [AppendCall(data) EXCEPT !.buffered = b]
  PROVE  /\ CallOK(c) /\ c.op = "append" /\ c.data = data /\ c.theap = Tiles(cards.rows + Len(data))
         /\ c.cur = cards.pcount
         /\ \A i \in 1..c.theap : c.main[i] = IF i <= cards.tiles THEN sect[i] ELSE NoDescs
         /\ \A i, col : Left(c, i, col) <=> i \in 1..c.theap /\ cards.rows < i * TileRows /\ col \in cols
         /\ MergeOK(cols, sect, cards, table, c, D0)
<1> DEFINE m == Len(data)
           a == cards.tiles
           t == Tiles(cards.rows + m)
           merge == cards.rows < a * TileRows
           from == IF merge THEN a ELSE a + 1
           todo == Todo(from..t, cols)
           main == [i \in 1..t |-> IF i <= a THEN sect[i] ELSE NoDescs]
           of == IF merge THEN SlabAt(a, cards.rows, a).of ELSE <<>>
           ov == IF merge /\ "v" \in cols THEN BlobAt(a, cards.rows, a).of ELSE <<>>
           C == Call("append", todo, data, <<>>, cols, main, t)
<1>1. /\ m \in Nat \ {0} /\ a \in Nat /\ cards.rows \in Nat /\ a = Tiles(cards.rows)
      /\ \A i \in 1..a : sect[i] \in TileDescs
  BY DEF Typed, SectOK
<1>2. a <= t /\ t \in Nat
  BY <1>1, RelocatedIs
<1>3. MergeRows(m) > 0 <=> merge
  BY <1>1, MergeIs
<1>4. merge => /\ sect[a].f.n # 0 /\ SlabAt(a, cards.rows, a).of = SlabOf(table, a) /\ SlabOf(table, a) \in Seq(Nat)
               /\ "v" \in cols => /\ sect[a].v.n # 0 /\ BlobAt(a, cards.rows, a).of = DescsOf(D0, a, cards.rows)
                                  /\ DescsOf(D0, a, cards.rows) \in Seq(CellDescs)
  BY <1>1, AppendOld
<1>5. of \in Seq(Nat) /\ ov \in Seq(CellDescs)
  <2>1. <<>> \in Seq(Nat) /\ <<>> \in Seq(CellDescs)
    OBVIOUS
  <2> HIDE DEF merge
  <2> QED
    BY <1>4, <2>1
<1>6. AppendCall(data) = [C EXCEPT !.old = [f |-> of, v |-> ov]]
  BY <1>3 DEF AppendCall
<1>7. main \in Seq(TileDescs) /\ Len(main) = t /\ \A i \in 1..t : main[i] = IF i <= a THEN sect[i] ELSE NoDescs
  <2>1. NoDescs \in TileDescs
    BY DEF NoDescs, Desc, TileDescs, HeapDescs
  <2>2. \A i \in 1..t : (IF i <= a THEN sect[i] ELSE NoDescs) \in TileDescs
    BY <1>1, <1>2, <2>1
  <2> HIDE DEF t, a
  <2>3. main \in [1..t -> TileDescs]
    BY <2>2
  <2> QED
    BY <1>2, <2>3
<1>8. \A i : i \in from..t <=> i \in 1..t /\ cards.rows < i * TileRows
  BY <1>2, TilesToAppend
<1>9. /\ \A i, col : [tile |-> i, col |-> col] \in todo <=> i \in 1..t /\ cards.rows < i * TileRows /\ col \in cols
      /\ todo \subseteq [tile : 1..t, col : cols] /\ todo \in SUBSET [tile : Nat, col : cols]
      /\ \A x \in todo : cards.rows < x.tile * TileRows
  <2> DEFINE I == from..t
  <2>1. (\A i : i \in I <=> i \in 1..t /\ cards.rows < i * TileRows) /\ todo = Todo(I, cols)
    BY <1>8
  <2> HIDE DEF I, todo, t
  <2>2. todo = {[tile |-> i, col |-> col] : i \in I, col \in cols}
    BY <2>1 DEF Todo
  <2>3. ASSUME NEW i, NEW col PROVE [tile |-> i, col |-> col] \in todo <=> i \in I /\ col \in cols
    <3> DEFINE x == [tile |-> i, col |-> col]
    <3>1. x.tile = i /\ x.col = col
      OBVIOUS
    <3> HIDE DEF x
    <3>2. ASSUME x \in todo PROVE x.tile \in I /\ x.col \in cols
      BY <2>2, <3>2
    <3>3. ASSUME i \in I, col \in cols PROVE x \in todo
      BY <2>2, <3>3 DEF x
    <3> QED
      BY <3>1, <3>2, <3>3 DEF x
  <2>4. \A x \in todo : \E i \in I, col \in cols : x = [tile |-> i, col |-> col]
    BY <2>2
  <2>5. \A i \in I : i \in 1..t /\ i \in Nat
    BY <1>2, <2>1
  <2>6. todo \subseteq [tile : 1..t, col : cols] /\ todo \in SUBSET [tile : Nat, col : cols]
    BY <2>4, <2>5
  <2>7. \A x \in todo : cards.rows < x.tile * TileRows
    BY <2>1, <2>4
  <2>8. \A i, col : [tile |-> i, col |-> col] \in todo <=> i \in 1..t /\ cards.rows < i * TileRows /\ col \in cols
    BY <2>1, <2>3
  <2> QED
    BY <2>6, <2>7, <2>8
<1> HIDE DEF todo, main, of, ov, t
<1>10. /\ C.op = "append" /\ C.cs = cols /\ C.cards = cards /\ C.todo = todo /\ C.data = data
       /\ C.main = main /\ C.theap = t /\ C.cur = cards.pcount /\ C.zp = cards.zpcount
  <2>1. "append" # "write"
    OBVIOUS
  <2> QED
    BY <2>1, CallIs
<1>11. C \in Calls
  <2>1. cols \in SUBSET cols /\ <<>> \in Seq(1..cards.rows)
    OBVIOUS
  <2> QED
    BY <1>2, <1>7, <1>9, <2>1, CallTyped
<1> HIDE DEF C
<1>12. /\ c \in Calls /\ c.op = "append" /\ c.cs = cols /\ c.cards = cards /\ c.todo = todo /\ c.data = data
       /\ c.main = main /\ c.theap = t /\ c.cur = cards.pcount /\ c.zp = cards.zpcount
       /\ c.old.f = of /\ c.old.v = ov
  <2> DEFINE o == [f |-> of, v |-> ov]
  <2>1. o \in [f : Seq(Nat), v : Seq(CellDescs)] /\ o.f = of /\ o.v = ov
    BY <1>5
  <2>2. c = [[C EXCEPT !.old = o] EXCEPT !.buffered = b]
    BY <1>6
  <2> HIDE DEF o
  <2>3. c \in Calls /\ c.old = o
    BY <1>11, <2>1, <2>2 DEF Calls
  <2>4. /\ c.op = C.op /\ c.cs = C.cs /\ c.cards = C.cards /\ c.todo = C.todo /\ c.data = C.data
        /\ c.main = C.main /\ c.theap = C.theap /\ c.cur = C.cur /\ c.zp = C.zp
    BY <1>11, <2>2 DEF Calls
  <2> QED
    BY <1>10, <2>1, <2>3, <2>4
<1>13. RowsAfter(c) = cards.rows + m
  BY <1>12 DEF RowsAfter
<1>14. CallOK(c)
  <2>1. "append" # "setitem" /\ "append" # "write"
    OBVIOUS
  <2>2. cards.pcount <= c.cur
    BY <1>12 DEF Typed
  <2>3. c.theap = Tiles(RowsAfter(c))
    BY <1>12, <1>13 DEF t
  <2>4. Len(c.main) = c.theap /\ c.todo \subseteq [tile : 1..c.theap, col : c.cs]
    BY <1>7, <1>9, <1>12
  <2>5. /\ c.cs = cols /\ Len(c.data) > 0 /\ c.zp = cards.zpcount
        /\ \A x \in c.todo : cards.rows < x.tile * TileRows
    BY <1>9, <1>12
  <2> QED
    BY <1>12, <2>1, <2>2, <2>3, <2>4, <2>5 DEF CallOK
<1>15. MergeOK(cols, sect, cards, table, c, D0)
  <2> HIDE DEF a
  <2>1. merge => /\ sect[a].f.n # 0 /\ c.old.f = SlabOf(table, a)
                 /\ "v" \in cols => sect[a].v.n # 0 /\ c.old.v = DescsOf(D0, a, cards.rows)
    <3> HIDE DEF merge
    <3> QED
      BY <1>4, <1>12 DEF of, ov
  <2> QED
    BY <2>1 DEF MergeOK, a
<1>16. \A i, col : Left(c, i, col) <=> i \in 1..c.theap /\ cards.rows < i * TileRows /\ col \in cols
  BY <1>9, <1>12 DEF Left
<1> QED
  BY <1>7, <1>12, <1>14, <1>15, <1>16 DEF t

\* An append that has encoded nothing yet.
LEMMA AppendWorks ==
  ASSUME Typed, NEW c, CallOK(c), c.op = "append", c.cur = cards.pcount,
         \A i \in 1..c.theap : c.main[i] = IF i <= cards.tiles THEN sect[i] ELSE NoDescs,
         \A i, col : Left(c, i, col) <=> i \in 1..c.theap /\ cards.rows < i * TileRows /\ col \in cols,
         NEW D0 \in [1..cards.rows -> CellDescs], Origs(D0, cards.rows, cards.zpcount),
         MergeOK(cols, sect, cards, table, c, D0),
         Content(cols, sect, cards.tiles, cards.pcount, sect, table, D0),
         NEW S2, \A k \in 1..cards.tiles : S2[k] = sect[k],
         cards.pcount = 0 \/ Moves(sect, cards.tiles, cards.pcount, S2, c.theap, cards.pcount)
  PROVE  Work(cols, S2, cards, table, Result(c), c, D0, PlannedDescs(c, D0))
<1> DEFINE R == Result(c)
           D == PlannedDescs(c, D0)
           n == cards.rows
           N == RowsAfter(c)
           a == cards.tiles
           p == cards.pcount
           t == c.theap
<1>1. /\ n \in Nat /\ N \in Nat /\ a \in Nat /\ a = Tiles(n) /\ t = Tiles(N) /\ t \in Nat /\ p \in Nat
      /\ table \in Seq(TableRows) /\ Len(table) = n
      /\ \A k \in 1..Len(c.data) : c.data[k] \in RowVals
  BY CallParts
<1>2. Kept(c) = n /\ N = n + Len(c.data) /\ n <= N /\ "f" \in cols
  <2>1. Kept(c) = n
    BY CallParts DEF Kept
  <2>2. N = n + Len(c.data) /\ Len(c.data) \in Nat
    BY CallParts DEF RowsAfter
  <2>3. "f" \in cols
    BY DEF Typed
  <2> HIDE DEF N, n
  <2> QED
    BY <1>1, <2>1, <2>2, <2>3
<1>3. /\ D \in [1..N -> CellDescs] /\ PlanKept(cols, c, D0, D) /\ Origs(D, N, HeapEnd(c))
      /\ \A r \in 1..N : /\ r <= n => D[r] = D0[r]
                         /\ r > n /\ "v" \notin cols => D[r] = Zero
  <2>1. /\ D \in [1..N -> CellDescs] /\ PlanKept(cols, c, D0, D) /\ Origs(D, N, HeapEnd(c))
        /\ \A r \in 1..N : /\ r <= Kept(c) => D[r] = D0[r]
                           /\ r > Kept(c) /\ "v" \notin cols => D[r] = Zero
    BY PlannedDescsAre, ZenonT(40)
  <2> HIDE DEF D, N, n
  <2> QED
    BY <1>2, <2>1
<1>4. /\ R \in Seq(TableRows) /\ Len(R) = N
      /\ \A r \in 1..N : /\ r <= n => r \in 1..n /\ R[r] = table[r]
                         /\ r > n => r - n \in 1..Len(c.data) /\ R[r] = Row(c.data[r - n])
  <2>1. /\ R \in Seq(TableRows) /\ Len(R) = N
        /\ \A r \in 1..N : /\ r <= Kept(c) => r \in 1..cards.rows /\ R[r] = table[r]
                           /\ r > Kept(c) => r - Kept(c) \in 1..Len(c.data) /\ R[r] = Row(c.data[r - Kept(c)])
    BY ResultNew
  <2> HIDE DEF R, N
  <2> QED
    BY <1>2, <2>1
<1>5. \A i \in 1..a : sect[i] \in TileDescs /\ S2[i] = sect[i]
  BY DEF Typed, SectOK
<1>6. Content(cols, S2, t, p, S2, table, D0)
  <2>1. D0 \in [1..Len(table) -> CellDescs] /\ \A i \in 1..Tiles(Len(table)) : sect[i] \in TileDescs /\ S2[i] = sect[i]
    BY <1>1, <1>5
  <2>2. CASE p = 0
    BY <1>1, <2>1, <2>2, ContentOfNothing
  <2>3. CASE Moves(sect, a, p, S2, t, p)
    BY <1>1, <2>1, <2>3, ContentMoved
  <2> QED
    BY <2>2, <2>3
<1>7. MergeOK(cols, S2, cards, table, c, D0)
  <2>1. n < a * TileRows => a \in 1..a
    <3>1. 1 \in Nat \ {0}
      OBVIOUS
    <3> QED
      BY <3>1, MergeIs
  <2> QED
    BY <1>5, <2>1 DEF MergeOK
<1> HIDE DEF R, D, N, n, a, p, t
<1>8. ASSUME NEW i \in 1..t, ~(n < i * TileRows)
      PROVE  SlabSpells(S2, t, p, c.main[i].f, i, R) /\ BlobSpells(cols, S2, t, p, c.main[i].v, i, R, D)
  <2>1. i * TileRows <= n
    <3> DEFINE w == i * TileRows
    <3>1. w \in Int
      BY <1>1, Products
    <3> HIDE DEF w
    <3>2. ~(n < w) => w <= n
      BY <1>1, <3>1
    <3> QED
      BY <1>8, <3>2 DEF w
  <2>2. i \in 1..a /\ TileLen(i, N) = TileLen(i, n)
    BY <1>1, <1>2, <2>1, TilesGrow
  <2>3. c.main[i] = S2[i]
    <3>1. i <= a
      BY <1>1, <2>2
    <3>2. c.main[i] = sect[i]
      BY <3>1 DEF a, t
    <3> QED
      BY <1>5, <2>2, <3>2
  <2>4. \A j \in 1..TileLen(i, N) : R[RowOf(i, j)] = table[RowOf(i, j)] /\ D[RowOf(i, j)] = D0[RowOf(i, j)]
    <3>1. ASSUME NEW j \in 1..TileLen(i, n) PROVE R[RowOf(i, j)] = table[RowOf(i, j)] /\ D[RowOf(i, j)] = D0[RowOf(i, j)]
      <4> DEFINE r == RowOf(i, j)
      <4>1. r \in 1..n
        BY <1>1, <2>2, PlaceRow
      <4> HIDE DEF r
      <4>2. r \in 1..N /\ r <= n
        BY <1>1, <1>2, <4>1
      <4> QED
        BY <1>3, <1>4, <4>2 DEF r
    <3> QED
      BY <2>2, <3>1
  <2>5. SlabOf(R, i) = SlabOf(table, i)
    BY <1>1, <1>4, <2>2, <2>4 DEF SlabOf
  <2>6. DescsOf(D, i, N) = DescsOf(D0, i, n)
    BY <2>2, <2>4 DEF DescsOf
  <2>7. SlabSpells(S2, t, p, S2[i].f, i, table) /\ BlobSpells(cols, S2, t, p, S2[i].v, i, table, D0)
    BY <1>1, <1>6, <2>2 DEF Content
  <2>8. SlabSpells(S2, t, p, S2[i].f, i, R)
    BY <1>1, <1>4, <2>2, <2>4, <2>5, <2>7 DEF SlabSpells
  <2>9. BlobSpells(cols, S2, t, p, S2[i].v, i, R, D)
    BY <1>1, <1>4, <2>2, <2>4, <2>6, <2>7 DEF BlobSpells
  <2> QED
    BY <2>3, <2>8, <2>9
<1>9. ASSUME "v" \notin cols, NEW i \in 1..t, n < i * TileRows
      PROVE  BlobSpells(cols, S2, t, p, c.main[i].v, i, R, D)
  <2>1. c.main[i].v.n = 0
    <3>1. CASE i <= a
      <4>1. i \in 1..a
        BY <1>1, <3>1
      <4>2. c.main[i] = S2[i]
        BY <1>5, <3>1, <4>1 DEF a, t
      <4>3. BlobSpells(cols, S2, t, p, S2[i].v, i, table, D0)
        BY <1>1, <1>6, <4>1 DEF Content
      <4> QED
        BY <1>9, <4>2, <4>3 DEF BlobSpells
    <3>2. CASE ~(i <= a)
      <4>1. c.main[i] = NoDescs
        BY <3>2 DEF a, t
      <4> QED
        BY <4>1 DEF NoDescs, Desc
    <3> QED
      BY <3>1, <3>2
  <2>2. ASSUME NEW j \in 1..TileLen(i, N)
        PROVE  R[RowOf(i, j)].v = Blank(cols) /\ D[RowOf(i, j)] = Zero
    <3> DEFINE r == RowOf(i, j)
    <3>1. r \in 1..N
      BY <1>1, PlaceRow
    <3>2. CASE r <= n
      <4>1. i = a /\ j \in 1..TileLen(i, n)
        BY <1>1, <1>2, <1>9, <3>2, TilesGrow
      <4>2. i \in 1..a
        BY <1>1, <4>1
      <4>3. BlobSpells(cols, S2, t, p, S2[i].v, i, table, D0)
        BY <1>1, <1>6, <4>2 DEF Content
      <4>4. table[r].v = Blank(cols) /\ D0[r] = Zero
        BY <1>1, <1>9, <4>1, <4>3 DEF BlobSpells
      <4>5. R[r] = table[r] /\ D[r] = D0[r]
        BY <1>3, <1>4, <3>1, <3>2
      <4> QED
        BY <4>4, <4>5
    <3>3. CASE ~(r <= n)
      <4> HIDE DEF r
      <4>1. r > n
        BY <1>1, <3>1, <3>3
      <4>2. r - n \in 1..Len(c.data) /\ R[r] = Row(c.data[r - n]) /\ D[r] = Zero
        BY <1>3, <1>4, <1>9, <3>1, <4>1
      <4>3. c.data[r - n] \in RowVals
        BY <1>1, <4>2
      <4>4. R[r].v = <<>>
        <5> DEFINE x == c.data[r - n]
        <5>1. x \in RowVals /\ R[r] = Row(x)
          BY <4>2, <4>3
        <5> HIDE DEF x
        <5>2. Row(x) = [f |-> x.f, v |-> IF "v" \in cols THEN x.v ELSE <<>>]
          BY <5>1, RowValsAre
        <5> QED
          BY <1>9, <5>1, <5>2
      <4> QED
        BY <1>9, <4>2, <4>4 DEF Blank, r
    <3> QED
      BY <3>2, <3>3
  <2> QED
    BY <1>4, <2>1, <2>2 DEF BlobSpells
<1>10. c.cur = p /\ c.theap = t
  BY DEF p, t
<1>11. \A i \in 1..t : \A col \in cols : ~Left(c, i, col) => ~(n < i * TileRows)
  BY DEF n, t
<1>12. SlabsDone(S2, R, c)
  BY <1>2, <1>8, <1>10, <1>11 DEF SlabsDone
<1>13. BlobsDone(cols, S2, R, c, D)
  <2>1. ASSUME NEW i \in 1..t, ~Left(c, i, "v")
        PROVE  BlobSpells(cols, S2, t, p, c.main[i].v, i, R, D)
    <3>1. CASE "v" \in cols
      BY <1>8, <1>11, <2>1, <3>1
    <3>2. CASE "v" \notin cols
      BY <1>8, <1>9, <3>2
    <3> QED
      BY <3>1, <3>2
  <2> QED
    BY <1>10, <2>1 DEF BlobsDone
<1>14. OldThere(cols, S2, cards, table, c, D0)
  BY <1>6, <1>7 DEF OldThere, t, p
<1>15. EditsLeft(S2, c, D0, D)
  BY DEF EditsLeft
<1> QED
  BY <1>3, <1>12, <1>13, <1>14, <1>15 DEF Work, R, D, N

\* A step between two calls that leaves the file alone.
LEMMA IdleKeeps ==
  ASSUME TableInv, call = Idle, call' = call, cols' = cols, cards' = cards, sect' = sect, table' = table,
         tainted' = tainted, harmed' = harmed, Flags',
         harmed = "no" => /\ pending' \in [on : BOOLEAN, rows : Seq(RowVals)] /\ Room' /\ CacheFits(cache')
                          /\ ~tainted => \A D0 : Holding(D0) => CacheOK(cache', sect, table, D0, stale')
  PROVE  TableInv'
<1>1. CASE harmed # "no"
  BY <1>1, HarmedKeeps
<1>2. CASE harmed = "no"
  <2>1. Typed
    BY <1>2 DEF TableInv
  <2>2. Typed'
    BY <1>2, <2>1 DEF Typed, SectOK
  <2>3. CASE tainted
    BY <1>2, <2>2, <2>3 DEF TableInv
  <2>4. CASE ~tainted
    <3>1. PICK D0 : Holding(D0)
      BY <1>2, <2>4, InvParts
    <3>2. CacheOK(cache', sect, table, D0, stale')
      BY <1>2, <2>4, <3>1
    <3>3. Holding(D0)'
      <4>1. /\ D0 \in [1..cards.rows -> CellDescs] /\ Origs(D0, cards.rows, cards.zpcount)
            /\ Content(cols, sect, cards.tiles, cards.pcount, sect, table, D0)
        BY <3>1 DEF Holding, Intact
      <4> QED
        BY <3>2, <4>1 DEF Holding
    <3> QED
      BY <1>2, <2>2, <2>4, <3>3 DEF TableInv
  <2> QED
    BY <2>3, <2>4
<1> QED
  BY <1>1, <1>2

\* StartAppend.
LEMMA StartAppendKeeps ==
  ASSUME TableInv, call = Idle, ~tainted, NEW data \in Seq(RowVals), Len(data) > 0, NEW b \in BOOLEAN,
         StartAppend(data, b), cols' = cols, cards' = cards, cache' = cache, tainted' = tainted,
         table' = table, stale' = stale,
         harmed = "no" => /\ pending' \in [on : BOOLEAN, rows : Seq(RowVals)]
                          /\ cards.rows + Len(data) + Len(pending'.rows) <= MaxRows
                          /\ ~pending'.on => pending'.rows = <<>>
  PROVE  TableInv'
<1> DEFINE c == [AppendCall(data) EXCEPT !.buffered = b]
           S2 == Relocated(Len(data))
<1>1. \/ /\ Decodable(Len(data)) /\ sect' = S2 /\ call' = c /\ harmed' = harmed /\ lost' = lost
      \/ harmed' = "io" /\ lost' = (lost \/ b)
      \/ call' = Idle /\ lost' = (lost \/ b) /\ sect' = sect /\ harmed' = harmed
  BY DEF StartAppend
<1>2. Flags /\ Flags'
  <2>1. Flags
    BY DEF TableInv
  <2>2. lost' \in BOOLEAN
    BY <1>1, <2>1 DEF Flags
  <2> QED
    BY <2>1, <2>2 DEF Flags
<1>3. CASE harmed # "no" \/ harmed' = "io"
  <2>1. harmed' # "no"
    BY <1>1, <1>3
  <2> QED
    BY <1>2, <2>1, HarmedKeeps
<1>4. CASE harmed = "no" /\ harmed' # "io"
  <2>1. Typed /\ Room /\ CacheFits(cache)
    BY <1>4, InvParts
  <2>2. PICK D0 : Holding(D0)
    BY <1>4, InvParts
  <2>3. /\ pending' \in [on : BOOLEAN, rows : Seq(RowVals)] /\ (~pending'.on => pending'.rows = <<>>)
        /\ Len(pending'.rows) \in Nat /\ Len(data) \in Nat \ {0} /\ cards.rows \in Nat /\ MaxRows \in Nat
        /\ cards.rows + Len(data) + Len(pending'.rows) <= MaxRows
    <3>1. Len(data) \in Nat \ {0} /\ cards.rows \in Nat /\ MaxRows \in Nat
      BY <2>1, TableAssumption DEF Typed
    <3>2. pending' \in [on : BOOLEAN, rows : Seq(RowVals)]
      BY <1>4
    <3>3. Len(pending'.rows) \in Nat
      BY <3>2
    <3> QED
      BY <1>4, <3>1, <3>2, <3>3
  <2>4. CASE call' = Idle /\ lost' = (lost \/ b) /\ sect' = sect /\ harmed' = harmed
    <3>1. Room'
      <4>1. ~(call' # Idle /\ call'.op = "append")
        BY <2>4
      <4>2. cards.rows + 0 + Len(pending'.rows) <= MaxRows
        BY <2>3
      <4> QED
        BY <2>3, <4>1, <4>2 DEF Room
    <3>2. \A D : Holding(D) => CacheOK(cache', sect, table, D, stale')
      BY DEF Holding
    <3> QED
      BY <1>2, <2>1, <2>3, <2>4, <3>1, <3>2, IdleKeeps
  <2>5. CASE Decodable(Len(data)) /\ sect' = S2 /\ call' = c /\ harmed' = harmed /\ lost' = lost
    <3>1. /\ D0 \in [1..cards.rows -> CellDescs] /\ Origs(D0, cards.rows, cards.zpcount)
          /\ Content(cols, sect, cards.tiles, cards.pcount, sect, table, D0)
      BY <2>2 DEF Holding, Intact
    <3>2. /\ CallOK(c) /\ c.op = "append" /\ c.data = data /\ c.theap = Tiles(cards.rows + Len(data))
          /\ c.cur = cards.pcount
          /\ \A i \in 1..c.theap : c.main[i] = IF i <= cards.tiles THEN sect[i] ELSE NoDescs
          /\ \A i, col : Left(c, i, col) <=> i \in 1..c.theap /\ cards.rows < i * TileRows /\ col \in cols
          /\ MergeOK(cols, sect, cards, table, c, D0)
      BY <2>1, <2>5, <3>1, AppendCallIs, ZenonT(40)
    <3> HIDE DEF c
    <3>3. /\ IsSeq(S2) /\ cards.tiles <= Len(S2) /\ \A k \in 1..cards.tiles : S2[k] = sect[k]
          /\ c.theap = cards.tiles => S2 = sect
          /\ cards.pcount = 0 \/ Moves(sect, cards.tiles, cards.pcount, S2, c.theap, cards.pcount)
      BY <2>1, <2>3, <3>2, RelocatedIs
    <3> HIDE DEF S2
    <3>4. Work(cols, S2, cards, table, Result(c), c, D0, PlannedDescs(c, D0))
      BY <2>1, <3>1, <3>2, <3>3, AppendWorks
    <3>5. Working(cols, sect', cards, table, Result(c), c, D0)
      BY <2>5, <3>4 DEF Working
    <3>6. Room'
      <4>1. call' # Idle /\ call'.op = "append" /\ call'.data = data
        BY <2>5, <3>2, CallIsNotIdle
      <4> QED
        BY <2>3, <4>1 DEF Room
    <3>7. cards.pcount = 0 \/ c.theap # cards.tiles \/ Carries(sect, cards.tiles, sect', cards.tiles, cards.pcount)
      <4>1. S2 = sect => Carries(sect, cards.tiles, S2, cards.tiles, cards.pcount)
        BY DEF Carries
      <4> QED
        BY <2>5, <3>3, <4>1
    <3>8. lost' \in BOOLEAN /\ ~tainted'
      BY <1>2 DEF Flags
    <3>9. IsSeq(sect') /\ cards.tiles <= Len(sect') /\ \A k \in 1..cards.tiles : sect'[k] = sect[k]
      BY <2>5, <3>3
    <3> QED
      BY <1>4, <2>2, <2>3, <2>5, <3>2, <3>5, <3>6, <3>7, <3>8, <3>9, BeginKeeps
  <2> QED
    BY <1>1, <1>4, <2>4, <2>5
<1> QED
  BY <1>3, <1>4

\* AppendRows.
LEMMA AppendRowsKeeps ==
  ASSUME TableInv, NEW data \in Seq(RowVals), Len(data) > 0, AppendRows(data)
  PROVE  TableInv'
<1>1. /\ call = Idle /\ ~pending.on /\ ~tainted /\ cards.rows + Len(data) <= MaxRows /\ StartAppend(data, FALSE)
      /\ cols' = cols /\ cards' = cards /\ cache' = cache /\ pending' = pending /\ tainted' = tainted
      /\ table' = table /\ stale' = stale
  BY DEF AppendRows
<1>2. ASSUME harmed = "no"
      PROVE  /\ pending' \in [on : BOOLEAN, rows : Seq(RowVals)]
             /\ cards.rows + Len(data) + Len(pending'.rows) <= MaxRows
             /\ ~pending'.on => pending'.rows = <<>>
  <2>1. Typed /\ Room
    BY <1>1, <1>2, InvParts
  <2>2. pending.rows = <<>>
    BY <1>1, <2>1 DEF Room
  <2>3. Len(pending.rows) = 0
    BY <2>2
  <2>4. cards.rows \in Nat /\ Len(data) \in Nat /\ pending \in [on : BOOLEAN, rows : Seq(RowVals)]
    BY <2>1 DEF Typed
  <2>5. cards.rows + Len(data) + Len(pending.rows) <= MaxRows
    BY <1>1, <2>3, <2>4
  <2> QED
    BY <1>1, <2>2, <2>4, <2>5
<1>3. FALSE \in BOOLEAN
  OBVIOUS
<1> QED
  BY <1>1, <1>2, <1>3, StartAppendKeeps

\* The aligned drain takes no more than there is.
LEMMA DrainIs ==
  ASSUME Typed, NEW n \in Nat
  PROVE  AlignedDrainRows(n) \in 0..n
<1> DEFINE T == TileRows
           fill == (T - (cards.rows % T)) % T
           q == (n - fill) \div T
<1>1. T \in Nat \ {0} /\ cards.rows \in Nat
  BY Products DEF Typed
<1>2. cards.rows % T \in 0..(T - 1)
  <2> HIDE DEF T
  <2> QED
    BY <1>1, Remainder
<1>3. fill \in Nat
  <2> DEFINE y == T - (cards.rows % T)
  <2>1. y \in Nat
    <3> DEFINE z == cards.rows % T
    <3>1. z \in 0..(T - 1)
      BY <1>2
    <3> HIDE DEF z, T
    <3>2. T - z \in Nat
      BY <1>1, <3>1
    <3> QED
      BY <3>2 DEF z
  <2> HIDE DEF y, T
  <2>2. y % T \in 0..(T - 1)
    BY <1>1, <2>1, Remainder
  <2>3. y % T \in Nat
    BY <1>1, <2>2
  <2> QED
    BY <2>3 DEF y
<1>4. AlignedDrainRows(n) = IF n < fill THEN 0 ELSE fill + q * T
  BY DEF AlignedDrainRows
<1> HIDE DEF fill
<1>5. CASE n < fill
  BY <1>4, <1>5
<1>6. CASE ~(n < fill)
  <2> DEFINE k == n - fill
  <2>1. k \in Nat
    BY <1>3, <1>6
  <2> HIDE DEF T
  <2>2. k % T = k - (k \div T) * T /\ k % T \in 0..(T - 1) /\ k \div T \in Nat
    <3> HIDE DEF k
    <3> QED
      BY <1>1, <2>1, Remainder
  <2>3. q = k \div T
    OBVIOUS
  <2> HIDE DEF q, k
  <2> DEFINE y == (k \div T) * T
             z == k % T
  <2>4. z = k - y /\ z \in 0..(T - 1) /\ y \in Nat
    <3>1. y \in Nat
      <4> DEFINE x == k \div T
      <4>1. x \in Nat
        BY <2>2
      <4> HIDE DEF x
      <4>2. x * T \in Nat
        BY <1>1, <4>1
      <4> QED
        BY <4>2 DEF x
    <3> QED
      BY <2>2, <3>1
  <2> HIDE DEF y, z
  <2>5. y <= k
    BY <1>1, <2>1, <2>4
  <2>6. fill + y \in 0..n
    BY <1>3, <1>6, <2>1, <2>4, <2>5 DEF k
  <2> QED
    BY <1>4, <1>6, <2>3, <2>6 DEF y, q
<1> QED
  BY <1>5, <1>6

\* The rows that a drain takes from the buffer, and those it leaves.
LEMMA DrainedRows ==
  ASSUME NEW rows \in Seq(RowVals), NEW d \in 0..Len(rows)
  PROVE  /\ SubSeq(rows, 1, d) \in Seq(RowVals) /\ Len(SubSeq(rows, 1, d)) = d
         /\ SubSeq(rows, d + 1, Len(rows)) \in Seq(RowVals) /\ Len(SubSeq(rows, d + 1, Len(rows))) = Len(rows) - d
<1>1. Len(rows) \in Nat /\ d \in Nat /\ d <= Len(rows)
  OBVIOUS
<1>2. SubSeq(rows, 1, d) \in Seq(RowVals) /\ Len(SubSeq(rows, 1, d)) = IF 1 <= d THEN d - 1 + 1 ELSE 0
  <2>1. 1 \in Nat \ {0} /\ d \in Int
    BY <1>1
  <2> QED
    BY <1>1, <2>1, SubSeqTyped
<1>3. /\ SubSeq(rows, d + 1, Len(rows)) \in Seq(RowVals)
      /\ Len(SubSeq(rows, d + 1, Len(rows))) = IF d + 1 <= Len(rows) THEN Len(rows) - (d + 1) + 1 ELSE 0
  <2> DEFINE k == d + 1
             n == Len(rows)
  <2>1. k \in Nat \ {0} /\ n \in Int /\ n <= Len(rows)
    BY <1>1
  <2> HIDE DEF k, n
  <2>2. SubSeq(rows, k, n) \in Seq(RowVals) /\ Len(SubSeq(rows, k, n)) = IF k <= n THEN n - k + 1 ELSE 0
    BY <2>1, SubSeqTyped
  <2> QED
    BY <2>2 DEF k, n
<1> DEFINE x == Len(SubSeq(rows, 1, d))
           y == Len(SubSeq(rows, d + 1, Len(rows)))
           n == Len(rows)
<1>4. x = (IF 1 <= d THEN d - 1 + 1 ELSE 0) /\ y = (IF d + 1 <= n THEN n - (d + 1) + 1 ELSE 0) /\ n \in Nat /\ d <= n
  BY <1>1, <1>2, <1>3
<1> HIDE DEF x, y, n
<1>5. x = d /\ y = n - d
  BY <1>1, <1>4
<1> QED
  BY <1>2, <1>3, <1>5 DEF x, y, n

\* A drain: an append of rows from the buffer, or the loss of them.
Drains(data) ==
    /\ call = Idle /\ ~tainted
    /\ cols' = cols /\ cards' = cards /\ cache' = cache /\ tainted' = tainted /\ table' = table /\ stale' = stale
    /\ \/ sect' = sect /\ call' = call /\ harmed' = harmed /\ lost' = lost
       \/ StartAppend(data, TRUE) /\ (harmed = "no" => data \in Seq(RowVals) /\ Len(data) > 0)
       \/ lost' = TRUE /\ sect' = sect /\ call' = call /\ harmed' = harmed
    /\ harmed = "no" => /\ pending' \in [on : BOOLEAN, rows : Seq(RowVals)]
                        /\ cards.rows + Len(pending'.rows) <= MaxRows
                        /\ StartAppend(data, TRUE) => cards.rows + Len(data) + Len(pending'.rows) <= MaxRows
                        /\ ~pending'.on => pending'.rows = <<>>

LEMMA DrainKeeps ==
  ASSUME TableInv, NEW data, Drains(data)
  PROVE  TableInv'
<1>0. /\ call = Idle /\ ~tainted
      /\ cols' = cols /\ cards' = cards /\ cache' = cache /\ tainted' = tainted /\ table' = table /\ stale' = stale
      /\ \/ sect' = sect /\ call' = call /\ harmed' = harmed /\ lost' = lost
         \/ StartAppend(data, TRUE) /\ (harmed = "no" => data \in Seq(RowVals) /\ Len(data) > 0)
         \/ lost' = TRUE /\ sect' = sect /\ call' = call /\ harmed' = harmed
      /\ harmed = "no" => /\ pending' \in [on : BOOLEAN, rows : Seq(RowVals)]
                          /\ cards.rows + Len(pending'.rows) <= MaxRows
                          /\ StartAppend(data, TRUE) => cards.rows + Len(data) + Len(pending'.rows) <= MaxRows
                          /\ ~pending'.on => pending'.rows = <<>>
  BY DEF Drains
<1> USE <1>0
<1>1. Flags
  BY DEF TableInv
<1>2. TRUE \in BOOLEAN
  OBVIOUS
<1>3. CASE (sect' = sect /\ call' = call /\ harmed' = harmed) /\ (lost' = lost \/ lost' = TRUE)
  <2>1. Flags'
    BY <1>1, <1>3 DEF Flags
  <2>2. ASSUME harmed = "no"
        PROVE  /\ pending' \in [on : BOOLEAN, rows : Seq(RowVals)] /\ Room' /\ CacheFits(cache')
               /\ ~tainted => \A D0 : Holding(D0) => CacheOK(cache', sect, table, D0, stale')
    <3>1. Typed /\ CacheFits(cache)
      BY <2>2, InvParts
    <3>2. /\ pending' \in [on : BOOLEAN, rows : Seq(RowVals)] /\ (~pending'.on => pending'.rows = <<>>)
          /\ cards.rows + Len(pending'.rows) <= MaxRows /\ cards.rows \in Nat
      BY <2>2, <3>1 DEF Typed
    <3>3. Room'
      <4>1. ~(call' # Idle /\ call'.op = "append")
        BY <1>3
      <4>2. Len(pending'.rows) \in Nat
        BY <3>2
      <4>3. cards.rows + 0 + Len(pending'.rows) <= MaxRows
        BY <3>2, <4>2
      <4> QED
        BY <3>2, <4>1, <4>3 DEF Room
    <3>4. \A D : Holding(D) => CacheOK(cache', sect, table, D, stale')
      BY DEF Holding
    <3> QED
      BY <3>1, <3>2, <3>3, <3>4
  <2> QED
    BY <1>3, <2>1, <2>2, IdleKeeps
<1>4. CASE StartAppend(data, TRUE) /\ (harmed = "no" => data \in Seq(RowVals) /\ Len(data) > 0)
  <2>1. CASE harmed = "no"
    <3>1. data \in Seq(RowVals) /\ Len(data) > 0
      BY <1>4, <2>1
    <3>2. /\ pending' \in [on : BOOLEAN, rows : Seq(RowVals)]
          /\ cards.rows + Len(data) + Len(pending'.rows) <= MaxRows
          /\ ~pending'.on => pending'.rows = <<>>
      BY <1>4, <2>1
    <3> QED
      BY <1>2, <1>4, <3>1, <3>2, StartAppendKeeps
  <2>2. CASE harmed # "no"
    <3>1. harmed' # "no"
      BY <1>4, <2>2 DEF StartAppend
    <3>2. lost' \in BOOLEAN
      BY <1>1, <1>4 DEF StartAppend, Flags
    <3>3. Flags'
      BY <1>1, <3>2 DEF Flags
    <3> QED
      BY <3>1, <3>3, HarmedKeeps
  <2> QED
    BY <2>1, <2>2
<1> QED
  BY <1>3, <1>4

\* BufferRows.
LEMMA BufferRowsDrains ==
  ASSUME TableInv, NEW data \in Seq(RowVals), Len(data) > 0, BufferRows(data)
  PROVE  \E out : Drains(out)
<1> DEFINE rows == pending.rows \o data
           drain == IF Len(rows) > PendingCap THEN AlignedDrainRows(Len(rows)) ELSE 0
           out == SubSeq(rows, 1, drain)
           rest == SubSeq(rows, drain + 1, Len(rows))
<1>1. /\ call = Idle /\ pending.on /\ ~tainted /\ cards.rows + Len(rows) <= MaxRows
      /\ pending' = [pending EXCEPT !.rows = rest]
      /\ cols' = cols /\ cards' = cards /\ cache' = cache /\ tainted' = tainted /\ table' = table /\ stale' = stale
  BY DEF BufferRows
<1>2. IF drain = 0 THEN sect' = sect /\ call' = call /\ harmed' = harmed /\ lost' = lost
      ELSE StartAppend(out, TRUE) \/ (lost' = TRUE /\ sect' = sect /\ call' = call /\ harmed' = harmed)
  BY DEF BufferRows
<1> HIDE DEF rows
<1>3. ASSUME harmed = "no"
      PROVE  /\ out \in Seq(RowVals) /\ (drain # 0 => Len(out) > 0)
             /\ pending' \in [on : BOOLEAN, rows : Seq(RowVals)]
             /\ cards.rows + Len(pending'.rows) <= MaxRows
             /\ cards.rows + Len(out) + Len(pending'.rows) <= MaxRows
             /\ pending'.on
  <2>1. Typed
    BY <1>1, <1>3, InvParts
  <2>2. pending \in [on : BOOLEAN, rows : Seq(RowVals)] /\ cards.rows \in Nat
    BY <2>1 DEF Typed
  <2>3. rows \in Seq(RowVals)
    <3> DEFINE s == pending.rows
    <3>1. s \in Seq(RowVals) /\ rows = s \o data
      BY <2>2 DEF rows
    <3> HIDE DEF s
    <3> QED
      BY <3>1, ConcatTyped
  <2>4. Len(rows) \in Nat
    BY <2>3
  <2>5. drain \in 0..Len(rows)
    <3>1. AlignedDrainRows(Len(rows)) \in 0..Len(rows)
      BY <2>1, <2>4, DrainIs
    <3> QED
      BY <2>4, <3>1
  <2> HIDE DEF drain
  <2>6. /\ out \in Seq(RowVals) /\ Len(out) = drain /\ rest \in Seq(RowVals) /\ Len(rest) = Len(rows) - drain
    BY <2>3, <2>5, DrainedRows
  <2> HIDE DEF out, rest
  <2>7. pending' \in [on : BOOLEAN, rows : Seq(RowVals)] /\ pending'.rows = rest /\ pending'.on = pending.on
    BY <1>1, <2>2, <2>6
  <2> DEFINE n == Len(rows)
             k == Len(out)
             m == Len(rest)
  <2>8. n \in Nat /\ k = drain /\ m = n - drain /\ drain \in 0..n /\ cards.rows + n <= MaxRows
    BY <1>1, <2>4, <2>5, <2>6
  <2> HIDE DEF n, k, m
  <2>9. (drain # 0 => k > 0) /\ cards.rows + m <= MaxRows /\ cards.rows + k + m <= MaxRows
    BY <2>2, <2>8, TableAssumption
  <2> QED
    BY <1>1, <2>6, <2>7, <2>9 DEF k, m
<1> HIDE DEF drain, out, rest
<1>4. \/ sect' = sect /\ call' = call /\ harmed' = harmed /\ lost' = lost
      \/ StartAppend(out, TRUE) /\ (harmed = "no" => out \in Seq(RowVals) /\ Len(out) > 0)
      \/ lost' = TRUE /\ sect' = sect /\ call' = call /\ harmed' = harmed
  <2>1. CASE drain = 0
    BY <1>2, <2>1
  <2>2. CASE drain # 0
    BY <1>2, <1>3, <2>2
  <2> QED
    BY <2>1, <2>2
<1>5. Drains(out)
  BY <1>1, <1>3, <1>4 DEF Drains
<1> QED
  BY <1>5

\* ExitContext.
LEMMA ExitContextDrains ==
  ASSUME TableInv, ExitContext
  PROVE  \E out : Drains(out)
<1>1. /\ call = Idle /\ pending.on /\ ~tainted /\ pending' = NoBuffer
      /\ cols' = cols /\ cards' = cards /\ cache' = cache /\ tainted' = tainted /\ table' = table /\ stale' = stale
  BY DEF ExitContext
<1>2. IF pending.rows = <<>> THEN sect' = sect /\ call' = call /\ harmed' = harmed /\ lost' = lost
      ELSE StartAppend(pending.rows, TRUE) \/ (lost' = TRUE /\ sect' = sect /\ call' = call /\ harmed' = harmed)
  BY DEF ExitContext
<1>3. /\ pending' \in [on : BOOLEAN, rows : Seq(RowVals)] /\ ~pending'.on /\ pending'.rows = <<>>
      /\ Len(pending'.rows) = 0
  <2>1. NoBuffer \in [on : BOOLEAN, rows : Seq(RowVals)] /\ ~NoBuffer.on /\ NoBuffer.rows = <<>>
    BY DEF NoBuffer
  <2>2. Len(NoBuffer.rows) = 0
    BY <2>1
  <2> QED
    BY <1>1, <2>1, <2>2
<1>4. ASSUME harmed = "no"
      PROVE  /\ pending.rows \in Seq(RowVals) /\ (pending.rows # <<>> => Len(pending.rows) > 0)
             /\ cards.rows + Len(pending'.rows) <= MaxRows
             /\ cards.rows + Len(pending.rows) + Len(pending'.rows) <= MaxRows
  <2>1. Typed /\ Room
    BY <1>1, <1>4, InvParts
  <2> DEFINE s == pending.rows
             k == Len(s)
             m == Len(pending'.rows)
  <2>2. s \in Seq(RowVals) /\ cards.rows \in Nat
    BY <2>1 DEF Typed
  <2>3. k \in Nat /\ (s # <<>> => k > 0)
    <3> HIDE DEF s
    <3> QED
      BY <2>2
  <2>4. cards.rows + 0 + k <= MaxRows
    <3>1. ~(call # Idle /\ call.op = "append")
      BY <1>1
    <3> QED
      BY <2>1, <3>1 DEF Room
  <2>5. m = 0
    BY <1>3
  <2> HIDE DEF k, m
  <2>6. cards.rows + m <= MaxRows /\ cards.rows + k + m <= MaxRows
    BY <2>2, <2>3, <2>4, <2>5, TableAssumption
  <2> QED
    BY <2>2, <2>3, <2>6 DEF k, m
<1> DEFINE out == pending.rows
<1>5. \/ sect' = sect /\ call' = call /\ harmed' = harmed /\ lost' = lost
      \/ StartAppend(out, TRUE) /\ (harmed = "no" => out \in Seq(RowVals) /\ Len(out) > 0)
      \/ lost' = TRUE /\ sect' = sect /\ call' = call /\ harmed' = harmed
  BY <1>2, <1>4
<1>6. harmed = "no" => cards.rows + Len(pending'.rows) <= MaxRows /\ cards.rows + Len(out) + Len(pending'.rows) <= MaxRows
  BY <1>4
<1> HIDE DEF out
<1>7. Drains(out)
  BY <1>1, <1>3, <1>5, <1>6 DEF Drains
<1> QED
  BY <1>7

\* EnterContext.
LEMMA EnterContextKeeps ==
  ASSUME TableInv, EnterContext
  PROVE  TableInv'
<1>1. /\ call = Idle /\ ~pending.on /\ ~tainted /\ pending' = [NoBuffer EXCEPT !.on = TRUE]
      /\ cols' = cols /\ cards' = cards /\ sect' = sect /\ cache' = cache /\ tainted' = tainted /\ call' = call
      /\ table' = table /\ harmed' = harmed /\ stale' = stale /\ lost' = lost
  BY DEF EnterContext, ghosts
<1>2. /\ pending' \in [on : BOOLEAN, rows : Seq(RowVals)] /\ pending'.on /\ pending'.rows = <<>>
  <2> DEFINE e == <<>>
  <2>1. e \in Seq(RowVals)
    OBVIOUS
  <2>2. NoBuffer = [on |-> FALSE, rows |-> e]
    BY DEF NoBuffer
  <2> HIDE DEF e
  <2>3. pending' = [on |-> TRUE, rows |-> e]
    BY <1>1, <2>2
  <2>4. pending'.on /\ pending'.rows = e
    BY <2>3
  <2>5. pending' \in [on : BOOLEAN, rows : Seq(RowVals)]
    BY <2>1, <2>3
  <2> QED
    BY <2>4, <2>5 DEF e
<1>3. harmed = "no" => cards.rows + Len(pending'.rows) <= MaxRows
  <2>1. SUFFICES ASSUME harmed = "no" PROVE cards.rows + Len(pending'.rows) <= MaxRows
    OBVIOUS
  <2>2. Typed /\ Room
    BY <1>1, <2>1, InvParts
  <2>3. pending.rows = <<>> /\ Len(pending.rows) = 0 /\ Len(pending'.rows) = 0
    <3>1. pending.rows = <<>>
      BY <1>1, <2>2 DEF Room
    <3> QED
      BY <1>2, <3>1
  <2>4. cards.rows + 0 + Len(pending.rows) <= MaxRows
    <3>1. ~(call # Idle /\ call.op = "append")
      BY <1>1
    <3> QED
      BY <2>2, <3>1 DEF Room
  <2>5. cards.rows \in Nat
    BY <2>2 DEF Typed
  <2> QED
    BY <2>3, <2>4, <2>5
<1>4. /\ harmed = "no" => /\ pending' \in [on : BOOLEAN, rows : Seq(RowVals)] /\ Room' /\ CacheFits(cache')
                          /\ ~tainted => \A D0 : Holding(D0) => CacheOK(cache', sect, table, D0, stale')
  <2>1. SUFFICES ASSUME harmed = "no"
                 PROVE  Room' /\ CacheFits(cache') /\ \A D0 : Holding(D0) => CacheOK(cache', sect, table, D0, stale')
    BY <1>2
  <2>2. CacheFits(cache) /\ Typed
    BY <1>1, <2>1, InvParts
  <2>3. Room'
    <3>1. ~(call' # Idle /\ call'.op = "append")
      BY <1>1
    <3>2. cards.rows \in Nat /\ Len(pending'.rows) = 0
      BY <1>2, <2>2 DEF Typed
    <3>3. cards.rows + 0 + Len(pending'.rows) <= MaxRows
      BY <1>3, <2>1, <3>2
    <3> QED
      BY <1>1, <1>2, <3>1, <3>3 DEF Room
  <2>4. \A D0 : Holding(D0) => CacheOK(cache', sect, table, D0, stale')
    BY <1>1 DEF Holding
  <2> QED
    BY <1>1, <2>2, <2>3, <2>4
<1>5. Flags'
  BY <1>1 DEF TableInv, Flags
<1> QED
  BY <1>1, <1>4, <1>5, IdleKeeps

\* An entry that is put into the cache.
LEMMA PutKeeps ==
  ASSUME NEW ca, NEW key, NEW val, NEW size \in Nat
  PROVE  /\ CacheFits(ca) => CacheFits(CachePut(ca, key, val, size))
         /\ \A main, tab, D, st :
              /\ CacheOK(ca, main, tab, D, st)
              /\ ~st => GoodEntry(main, tab, D, [key |-> key, val |-> val, size |-> size])
              => CacheOK(CachePut(ca, key, val, size), main, tab, D, st)
<1> DEFINE e == [key |-> key, val |-> val, size |-> size]
           c2 == CachePut(ca, key, val, size)
<1>1. ASSUME NEW E, Budget(E, ca), ca.cur <= ca.cap
      PROVE  Budget(E \cup {e}, c2) /\ c2.cur <= c2.cap
  <2>1. Sized(E) /\ e.size = size
    BY <1>1 DEF Budget
  <2> DEFINE F == E \cup {e}
  <2>2. E \subseteq F /\ e \in F
    OBVIOUS
  <2>3. Sized(F)
    <3> HIDE DEF e
    <3> QED
      BY <2>1 DEF Sized
  <2> HIDE DEF F
  <2>4. Budget(F, c2) /\ c2.cur <= c2.cap
    BY <1>1, <2>2, <2>3, PutBudget
  <2> QED
    BY <2>4 DEF F
<1> HIDE DEF e, c2
<1>2. CacheFits(ca) => CacheFits(c2)
  BY <1>1 DEF CacheFits
<1>3. ASSUME NEW main, NEW tab, NEW D, NEW st, CacheOK(ca, main, tab, D, st), ~st => GoodEntry(main, tab, D, e)
      PROVE  CacheOK(c2, main, tab, D, st)
  <2>1. PICK E : Budget(E, ca) /\ ca.cur <= ca.cap /\ (~st => \A x \in E : GoodEntry(main, tab, D, x))
    BY <1>3 DEF CacheOK
  <2>2. ~st => \A x \in E \cup {e} : GoodEntry(main, tab, D, x)
    BY <1>3, <2>1
  <2>3. Budget(E \cup {e}, c2) /\ c2.cur <= c2.cap
    BY <1>1, <2>1
  <2> QED
    BY <2>2, <2>3 DEF CacheOK
<1> QED
  BY <1>2, <1>3 DEF e, c2

\* A hit.
LEMMA TouchKeeps ==
  ASSUME NEW ca, NEW key \in CachedKeys(ca)
  PROVE  /\ CacheFits(ca) => CacheFits(Touched(ca, key))
         /\ \A main, tab, D, st : CacheOK(ca, main, tab, D, st) => CacheOK(Touched(ca, key), main, tab, D, st)
<1>1. ASSUME NEW E, Budget(E, ca), ca.cur <= ca.cap
      PROVE  Budget(E, Touched(ca, key)) /\ Touched(ca, key).cur <= Touched(ca, key).cap
  BY <1>1, TouchedBudget
<1> QED
  BY <1>1 DEF CacheFits, CacheOK

\* Another capacity.
LEMMA ResizeKeeps ==
  ASSUME NEW ca, NEW cap \in Nat
  PROVE  /\ CacheFits(ca) => CacheFits(SetCapacity(ca, cap))
         /\ \A main, tab, D, st : CacheOK(ca, main, tab, D, st) => CacheOK(SetCapacity(ca, cap), main, tab, D, st)
<1>1. ASSUME NEW E, Budget(E, ca)
      PROVE  Budget(E, SetCapacity(ca, cap)) /\ SetCapacity(ca, cap).cur <= SetCapacity(ca, cap).cap
  BY <1>1, SetCapacityBudget
<1> QED
  BY <1>1 DEF CacheFits, CacheOK

\* What a miss puts into the cache.
LEMMA MissKeeps ==
  ASSUME Typed, NEW i \in 1..cards.tiles, NEW col \in cols, NEW got,
         got = TileAt(col, i, cards.rows, cards.tiles)
  PROVE  /\ got.ok => Len(got.of) \in Nat
         /\ \A D0 : /\ D0 \in [1..cards.rows -> CellDescs]
                    /\ Content(cols, sect, cards.tiles, cards.pcount, sect, table, D0)
                    => /\ got.ok =>
                            GoodEntry(sect, table, D0, [key |-> <<i, col>>, val |-> got.of, size |-> Len(got.of)])
                       /\ col = "v" /\ sect[i].v.n = 0 =>
                            GoodEntry(sect, table, D0, [key |-> <<i, col>>, val |-> <<>>, size |-> 0])
<1>1. /\ cards.rows \in Nat /\ cards.tiles \in Nat /\ cards.tiles = Tiles(cards.rows) /\ col \in {"f", "v"}
      /\ Len(table) = cards.rows /\ i \in 1..Tiles(Len(table))
  BY DEF Typed
<1>2. got.ok => Len(got.of) \in Nat
  <2>1. TileLen(i, cards.rows) \in 1..TileRows /\ TileRows \in Nat
    BY <1>1, TileLenIs, Products
  <2>2. TileLen(i, cards.rows) \in Nat
    BY <2>1
  <2>3. ~Wrong.ok
    BY DEF Wrong
  <2>4. got.ok => Len(got.of) = TileLen(i, cards.rows)
    <3>1. SlabAt(i, cards.rows, cards.tiles).ok =>
            Len(SlabAt(i, cards.rows, cards.tiles).of) = TileLen(i, cards.rows)
      BY <2>3 DEF SlabAt
    <3>2. BlobAt(i, cards.rows, cards.tiles).ok =>
            Len(BlobAt(i, cards.rows, cards.tiles).of) = TileLen(i, cards.rows)
      BY <2>3 DEF BlobAt
    <3> QED
      BY <3>1, <3>2 DEF TileAt
  <2> QED
    BY <2>2, <2>4
<1>3. ASSUME NEW D0 \in [1..cards.rows -> CellDescs],
             Content(cols, sect, cards.tiles, cards.pcount, sect, table, D0), NEW m
      PROVE  /\ got.ok => GoodEntry(sect, table, D0, [key |-> <<i, col>>, val |-> got.of, size |-> m])
             /\ col = "v" /\ sect[i].v.n = 0 =>
                  GoodEntry(sect, table, D0, [key |-> <<i, col>>, val |-> <<>>, size |-> m])
  <2>1. /\ SlabAt(i, cards.rows, cards.tiles) = Decoded(sect[i].f, SlabOf(table, i))
        /\ BlobAt(i, cards.rows, cards.tiles) = Decoded(sect[i].v, DescsOf(D0, i, cards.rows))
    BY <1>1, <1>3, OldTiles
  <2> DEFINE e == [key |-> <<i, col>>, val |-> got.of, size |-> m]
             z == [key |-> <<i, col>>, val |-> <<>>, size |-> m]
  <2>2. e.key = <<i, col>> /\ e.val = got.of /\ z.key = <<i, col>> /\ z.val = <<>>
    OBVIOUS
  <2> HIDE DEF e, z
  <2>3. CASE col = "f"
    <3>1. got.ok => sect[i].f.n # 0 /\ got.of = SlabOf(table, i)
      BY <2>1, <2>3 DEF TileAt, Decoded, Wrong, Right
    <3>2. got.ok => GoodEntry(sect, table, D0, e)
      BY <1>1, <2>2, <2>3, <3>1 DEF GoodEntry
    <3> QED
      BY <2>3, <3>2 DEF e
  <2>4. CASE col = "v"
    <3>1. got.ok => sect[i].v.n # 0 /\ got.of = DescsOf(D0, i, Len(table))
      BY <1>1, <2>1, <2>4 DEF TileAt, Decoded, Wrong, Right
    <3>2. got.ok => GoodEntry(sect, table, D0, e)
      BY <1>1, <2>2, <2>4, <3>1 DEF GoodEntry
    <3>3. sect[i].v.n = 0 => GoodEntry(sect, table, D0, z)
      BY <1>1, <2>2, <2>4 DEF GoodEntry
    <3> QED
      BY <3>2, <3>3 DEF e, z
  <2> QED
    BY <1>1, <2>3, <2>4
<1> QED
  BY <1>2, <1>3

\* The operations of the cache: nothing changes but the cache, and what it holds is right.
LEMMA CacheStepKeeps ==
  ASSUME TableInv, harmed = "no" => call = Idle, call' = call, cols' = cols, cards' = cards, sect' = sect,
         table' = table, pending' = pending, tainted' = tainted, harmed' = harmed, lost' = lost, stale' \in BOOLEAN,
         harmed = "no" => /\ CacheFits(cache')
                          /\ ~tainted => \A D0 : Holding(D0) => CacheOK(cache', sect, table, D0, stale')
  PROVE  TableInv'
<1>1. Flags'
  BY DEF TableInv, Flags
<1>2. CASE harmed # "no"
  BY <1>1, <1>2, HarmedKeeps
<1>3. CASE harmed = "no"
  <2>1. Typed /\ Room
    BY <1>3 DEF TableInv
  <2>2. pending' \in [on : BOOLEAN, rows : Seq(RowVals)]
    BY <2>1 DEF Typed
  <2>3. Room'
    BY <2>1 DEF Room
  <2> QED
    BY <1>1, <1>3, <2>2, <2>3, IdleKeeps
<1> QED
  BY <1>2, <1>3

\* ReadTile.
LEMMA ReadTileKeeps ==
  ASSUME TableInv, NEW i \in 1..cards.tiles, NEW col \in cols, ReadTile(i, col)
  PROVE  TableInv'
<1> DEFINE got == TileAt(col, i, cards.rows, cards.tiles)
           key == <<i, col>>
           m == Len(got.of)
<1>1. /\ call.op = "none"
      /\ cols' = cols /\ cards' = cards /\ sect' = sect /\ pending' = pending /\ tainted' = tainted /\ call' = call
      /\ table' = table /\ harmed' = harmed /\ stale' = stale /\ lost' = lost
  BY DEF ReadTile, ghosts
<1>2. \/ key \in CachedKeys(cache) /\ cache' = Touched(cache, key)
      \/ got.ok /\ cache' = CachePut(cache, key, got.of, m)
      \/ col = "v" /\ sect[i].v.n = 0 /\ cache' = CachePut(cache, key, <<>>, 0)
      \/ cache' = cache
  <2>1. cache' = IF key \in CachedKeys(cache) THEN Touched(cache, key)
                 ELSE IF got.ok THEN CachePut(cache, key, got.of, m)
                 ELSE IF col = "v" /\ sect[i].v.n = 0 THEN CachePut(cache, key, <<>>, 0)
                 ELSE cache
    BY DEF ReadTile
  <2> DEFINE A == got.ok
  <2> HIDE DEF got, key, m
  <2>2. CASE A
    BY <2>1, <2>2
  <2>3. CASE ~A
    BY <2>1, <2>3
  <2> QED
    BY <2>2, <2>3
<1>3. stale' \in BOOLEAN
  BY <1>1 DEF TableInv, Flags
<1>4. ASSUME harmed = "no"
      PROVE  /\ call = Idle /\ CacheFits(cache')
             /\ ~tainted => \A D0 : Holding(D0) => CacheOK(cache', sect, table, D0, stale')
  <2>1. Typed /\ CacheFits(cache)
    BY <1>4 DEF TableInv
  <2>2. call = Idle
    <3>1. CallOK(call) => call.op \in {"write", "append", "setitem"}
      BY DEF CallOK, Calls
    <3> QED
      BY <1>1, <2>1, <3>1 DEF Typed
  <2>3. \A D0 : Holding(D0) => /\ D0 \in [1..cards.rows -> CellDescs] /\ CacheOK(cache, sect, table, D0, stale)
                               /\ Content(cols, sect, cards.tiles, cards.pcount, sect, table, D0)
    BY <2>2 DEF Holding, Intact
  <2>4. /\ got.ok => m \in Nat
        /\ \A D0 : Holding(D0)
                   => /\ got.ok => GoodEntry(sect, table, D0, [key |-> key, val |-> got.of, size |-> m])
                      /\ col = "v" /\ sect[i].v.n = 0 =>
                           GoodEntry(sect, table, D0, [key |-> key, val |-> <<>>, size |-> 0])
    <3>1. /\ got.ok => Len(got.of) \in Nat
          /\ \A D0 : /\ D0 \in [1..cards.rows -> CellDescs]
                     /\ Content(cols, sect, cards.tiles, cards.pcount, sect, table, D0)
                     => /\ got.ok =>
                             GoodEntry(sect, table, D0, [key |-> <<i, col>>, val |-> got.of, size |-> Len(got.of)])
                        /\ col = "v" /\ sect[i].v.n = 0 =>
                             GoodEntry(sect, table, D0, [key |-> <<i, col>>, val |-> <<>>, size |-> 0])
      BY <2>1, MissKeeps
    <3> HIDE DEF got
    <3> QED
      BY <2>3, <3>1
  <2> HIDE DEF got, key, m
  <2>5. CASE key \in CachedKeys(cache) /\ cache' = Touched(cache, key)
    BY <1>1, <2>1, <2>2, <2>3, <2>5, TouchKeeps
  <2>6. CASE got.ok /\ cache' = CachePut(cache, key, got.of, m)
    <3> DEFINE u == got.of
    <3>1. m \in Nat /\ cache' = CachePut(cache, key, u, m)
          /\ \A D0 : Holding(D0) => GoodEntry(sect, table, D0, [key |-> key, val |-> u, size |-> m])
      BY <2>4, <2>6
    <3> HIDE DEF u
    <3>2. CacheFits(cache')
      BY <2>1, <3>1, PutKeeps
    <3>3. ASSUME NEW D0, Holding(D0) PROVE CacheOK(cache', sect, table, D0, stale)
      BY <2>3, <3>1, <3>3, PutKeeps
    <3> QED
      BY <1>1, <2>2, <3>2, <3>3
  <2>7. CASE col = "v" /\ sect[i].v.n = 0 /\ cache' = CachePut(cache, key, <<>>, 0)
    <3> DEFINE u == <<>>
               z == 0
    <3>1. z \in Nat /\ cache' = CachePut(cache, key, u, z)
          /\ \A D0 : Holding(D0) => GoodEntry(sect, table, D0, [key |-> key, val |-> u, size |-> z])
      BY <2>4, <2>7
    <3> HIDE DEF u, z
    <3>2. CacheFits(cache')
      BY <2>1, <3>1, PutKeeps
    <3>3. ASSUME NEW D0, Holding(D0) PROVE CacheOK(cache', sect, table, D0, stale)
      BY <2>3, <3>1, <3>3, PutKeeps
    <3> QED
      BY <1>1, <2>2, <3>2, <3>3
  <2>8. CASE cache' = cache
    BY <1>1, <2>1, <2>2, <2>3, <2>8
  <2> QED
    BY <1>2, <2>5, <2>6, <2>7, <2>8
<1> QED
  BY <1>1, <1>3, <1>4, CacheStepKeeps

\* ResizeCache, ClearCache.
LEMMA CacheCallsKeep ==
  ASSUME TableInv, (\E cap \in Capacities : ResizeCache(cap)) \/ ClearCache
  PROVE  TableInv'
<1>1. ASSUME harmed = "no"
      PROVE CacheFits(cache) /\ \A D0 : Holding(D0) => CacheOK(cache, sect, table, D0, stale)
  BY <1>1 DEF TableInv, Holding
<1>2. ASSUME NEW cap \in Capacities, ResizeCache(cap)
      PROVE  TableInv'
  <2>1. /\ call = Idle /\ cache' = SetCapacity(cache, cap) /\ cap \in Nat
        /\ cols' = cols /\ cards' = cards /\ sect' = sect /\ pending' = pending /\ tainted' = tainted /\ call' = call
        /\ table' = table /\ harmed' = harmed /\ stale' = stale /\ lost' = lost
    BY <1>2, BufferAssumption DEF ResizeCache, ghosts
  <2>2. stale' \in BOOLEAN
    BY <2>1 DEF TableInv, Flags
  <2>3. ASSUME harmed = "no"
        PROVE CacheFits(cache') /\ \A D0 : Holding(D0) => CacheOK(cache', sect, table, D0, stale')
    BY <1>1, <2>1, <2>3, ResizeKeeps
  <2> QED
    BY <2>1, <2>2, <2>3, CacheStepKeeps
<1>3. ASSUME ClearCache PROVE TableInv'
  <2>1. /\ call = Idle /\ cache' = Clear(cache)
        /\ cols' = cols /\ cards' = cards /\ sect' = sect /\ pending' = pending /\ tainted' = tainted /\ call' = call
        /\ table' = table /\ harmed' = harmed /\ stale' = FALSE /\ lost' = lost
    BY <1>3 DEF ClearCache
  <2>2. ASSUME harmed = "no"
        PROVE CacheFits(cache') /\ \A D0 : Holding(D0) => CacheOK(cache', sect, table, D0, stale')
    BY <1>1, <2>1, <2>2, CacheCleared
  <2> QED
    BY <2>1, <2>2, CacheStepKeeps
<1> QED
  BY <1>2, <1>3

-----------------------------------------------------------------------------
(* Repack.                                                                 *)

\* Concatenation is associative; as a formula of its own, because the provers drop the parentheses.
Regroups(s, t, u) == (s \o t) \o u = s \o (t \o u)

LEMMA ConcatThree ==
  ASSUME NEW s, NEW t, NEW u, IsSeq(s), IsSeq(t), IsSeq(u)
  PROVE  Regroups(s, t, u)
<1> DEFINE A == {s[i] : i \in DOMAIN s}
           B == {t[i] : i \in DOMAIN t}
           C == {u[i] : i \in DOMAIN u}
           T == A \cup B \cup C
<1>1. s \in Seq(A) /\ t \in Seq(B) /\ u \in Seq(C)
  BY DEF IsSeq
<1> HIDE DEF A, B, C
<1>2. A \subseteq T /\ B \subseteq T /\ C \subseteq T
  OBVIOUS
<1> HIDE DEF T
<1>3. s \in Seq(T) /\ t \in Seq(T) /\ u \in Seq(T)
  BY <1>1, <1>2
<1> QED
  BY <1>3, ConcatAssociative DEF Regroups

\* The units u that are packed already spell the slabs of the first kf tiles and the blobs of
\* the first kv; the descriptors M and D of the others are the old ones.
PackedTo(u, M, kf, kv, D0, D) ==
    /\ IsSeq(u) /\ M \in [1..cards.tiles -> TileDescs] /\ D \in [1..cards.rows -> CellDescs]
    /\ \A r \in 1..cards.rows : D[r].n = D0[r].n /\ D[r].orig = D0[r].orig
    /\ \A i \in 1..cards.tiles : IF i <= kf THEN SlabSpells(u, 0, Len(u), M[i].f, i, table)
                                 ELSE M[i].f = sect[i].f
    /\ \A i \in 1..cards.tiles :
         IF i <= kv THEN BlobSpells(cols, u, 0, Len(u), M[i].v, i, table, D)
         ELSE M[i].v = sect[i].v /\ \A j \in 1..TileLen(i, cards.rows) : D[RowOf(i, j)] = D0[RowOf(i, j)]

\* More units behind those that are packed.
LEMMA PackGrown ==
  ASSUME Typed, NEW u, NEW M, NEW kf, NEW kv, NEW D0, NEW D, PackedTo(u, M, kf, kv, D0, D),
         NEW w, IsSeq(w), NEW u2, u2 = u \o w
  PROVE  /\ PackedTo(u2, M, kf, kv, D0, D)
         /\ Len(u) \in Nat /\ Len(w) \in Nat /\ Len(u2) = Len(u) + Len(w) /\ Lies(u2, 0 + Len(u), w)
<1>1. /\ IsSeq(u) /\ M \in [1..cards.tiles -> TileDescs] /\ D \in [1..cards.rows -> CellDescs]
  BY DEF PackedTo
<1>2. /\ table \in Seq(TableRows) /\ Len(table) = cards.rows /\ cards.tiles = Tiles(cards.rows)
  BY DEF Typed
<1>3. /\ IsSeq(u2) /\ Len(u2) = Len(u) + Len(w) /\ Len(u) \in Nat /\ Len(w) \in Nat
      /\ \A q \in 1..Len(u) : u2[q] = u[q]
  BY <1>1, ConcatIs, SeqIsFun
<1>4. Lies(u2, 0 + Len(u), w)
  <2> DEFINE z == 0
  <2>1. z \in Nat /\ Lies(w, z, w)
    BY LiesInItself
  <2> HIDE DEF z
  <2>2. Lies(u2, Len(u) + z, w)
    BY <1>1, <2>1, LiesInConcat
  <2>3. Len(u) + z = 0 + Len(u)
    BY <1>3 DEF z
  <2> QED
    BY <2>2, <2>3
<1>5. Moves(u, 0, Len(u), u2, 0, Len(u2))
  <2>1. \A q \in 1..Len(u) : 0 + q = q /\ q <= Len(u2)
    BY <1>3
  <2>2. Len(u) <= Len(u2) /\ Len(u2) \in Nat
    BY <1>3
  <2> QED
    BY <1>3, <2>1, <2>2 DEF Moves, Carries
<1>6. ASSUME NEW i \in 1..cards.tiles
      PROVE  /\ M[i].f \in HeapDescs /\ M[i].v \in HeapDescs
             /\ SlabSpells(u, 0, Len(u), M[i].f, i, table) => SlabSpells(u2, 0, Len(u2), M[i].f, i, table)
             /\ BlobSpells(cols, u, 0, Len(u), M[i].v, i, table, D) =>
                  BlobSpells(cols, u2, 0, Len(u2), M[i].v, i, table, D)
  <2>1. M[i].f \in HeapDescs /\ M[i].v \in HeapDescs
    BY <1>1 DEF TileDescs
  <2>2. i \in 1..Tiles(Len(table)) /\ D \in [1..Len(table) -> CellDescs]
    BY <1>1, <1>2
  <2>3. SlabSpells(u, 0, Len(u), M[i].f, i, table) => SlabSpells(u2, 0, Len(u2), M[i].f, i, table)
    BY <1>2, <1>5, <2>1, <2>2, SlabMoved
  <2>4. BlobSpells(cols, u, 0, Len(u), M[i].v, i, table, D) =>
          BlobSpells(cols, u2, 0, Len(u2), M[i].v, i, table, D)
    BY <1>2, <1>5, <2>1, <2>2, BlobMoved
  <2> QED
    BY <2>1, <2>3, <2>4
<1>7. PackedTo(u2, M, kf, kv, D0, D)
  BY <1>3, <1>6 DEF PackedTo
<1> QED
  BY <1>3, <1>4, <1>7

\* The slab of tile k is packed.
LEMMA PackSlab ==
  ASSUME Typed, NEW D0 \in [1..cards.rows -> CellDescs],
         Content(cols, sect, cards.tiles, cards.pcount, sect, table, D0),
         NEW k \in 1..cards.tiles, NEW u, NEW M, NEW D, PackedTo(u, M, k - 1, k - 1, D0, D),
         NEW a, a.units = u, a.main = M, NEW a2, a2 = Pack(a, k, "f")
  PROVE  PackedTo(a2.units, a2.main, k, k - 1, D0, D)
<1> DEFINE f == M[k].f
           th == cards.tiles
           w == SubSeq(sect, th + f.off + 1, th + f.off + f.n)
           x == SlabOf(table, k)
<1>1. /\ IsSeq(u) /\ M \in [1..th -> TileDescs] /\ th \in Nat /\ cards.pcount \in Nat /\ IsSeq(sect) /\ k \in Nat \ {0}
  BY DEF PackedTo, Typed, SectOK
<1>2. f = sect[k].f /\ f \in HeapDescs
  <2>1. ~(k <= k - 1)
    BY <1>1
  <2> QED
    BY <1>1, <2>1 DEF PackedTo, TileDescs
<1>3. SlabSpells(sect, th, cards.pcount, f, k, table)
  BY <1>1, <1>2, OldTiles
<1>4. f.n \in Nat /\ f.off \in Nat
  BY <1>2 DEF HeapDescs
<1>5. \A i \in 1..th : i <= k <=> i <= k - 1 \/ i = k
  BY <1>1
<1>6. CASE f.n = 0
  <2>1. a2 = a
    BY <1>6 DEF Pack
  <2>2. SlabSpells(u, 0, Len(u), M[k].f, k, table)
    BY <1>3, <1>6 DEF SlabSpells
  <2> HIDE DEF th
  <2> QED
    BY <1>5, <2>1, <2>2 DEF PackedTo, th
<1>7. CASE f.n # 0
  <2> DEFINE u2 == u \o w
             d == Desc(f.n, Len(u))
             M2 == [M EXCEPT ![k].f = d]
  <2>1. a2 = [units |-> u2, main |-> M2]
    BY <1>7 DEF Pack
  <2>2. PartLies(sect, th, cards.pcount, f, Slab(x)) /\ \A j \in 1..TileLen(k, Len(table)) : table[RowOf(k, j)].f # 0
    BY <1>3, <1>7 DEF SlabSpells
  <2>3. IsSeq(Slab(x)) /\ w = Slab(x) /\ Len(w) = f.n
    <3>1. x \in Seq(Nat) /\ x # <<>> /\ x[1] # 0
      <4>1. table \in Seq(TableRows) /\ k \in 1..Tiles(Len(table))
        BY DEF Typed
      <4> QED
        BY <2>2, <4>1, SlabOfIs
    <3> HIDE DEF x
    <3>2. PICK n \in Nat \ {0} : Slab(x) = Units("slab", x, n)
      BY <3>1, SlabIs
    <3>3. IsSeq(Slab(x))
      BY <3>2, UnitsAre
    <3> DEFINE s == Slab(x)
               p == th + f.off
    <3>4. f.n = Len(s) /\ Lies(sect, p, s) /\ IsSeq(s) /\ p \in Nat
      BY <1>1, <1>4, <2>2, <3>3 DEF PartLies
    <3> HIDE DEF s, p
    <3>5. SubSeq(sect, p + 1, p + Len(s)) = s
      BY <1>1, <3>4, LiesIsPart
    <3>6. w = s
      BY <3>4, <3>5 DEF p
    <3> QED
      BY <3>4, <3>6 DEF s
  <2> HIDE DEF w, x
  <2>4. PackedTo(u2, M, k - 1, k - 1, D0, D) /\ Len(u) \in Nat /\ Len(u2) = Len(u) + Len(w) /\ Lies(u2, 0 + Len(u), w)
    <3> DEFINE l == k - 1
    <3>1. PackedTo(u, M, l, l, D0, D) /\ IsSeq(w)
      BY <2>3
    <3> HIDE DEF l
    <3>2. PackedTo(u2, M, l, l, D0, D) /\ Len(u) \in Nat /\ Len(u2) = Len(u) + Len(w) /\ Lies(u2, 0 + Len(u), w)
      BY <3>1, PackGrown
    <3> QED
      BY <3>2 DEF l
  <2> HIDE DEF u2
  <2>5. d \in HeapDescs /\ d.n = f.n /\ d.off = Len(u)
    BY <1>4, <2>4 DEF Desc, HeapDescs
  <2>6. SlabSpells(u2, 0, Len(u2), d, k, table)
    <3>1. d.off + d.n <= Len(u2)
      BY <1>4, <2>3, <2>4, <2>5
    <3>2. PartLies(u2, 0, Len(u2), d, Slab(x))
      BY <2>3, <2>4, <2>5, <3>1 DEF PartLies
    <3> QED
      BY <1>7, <2>2, <2>5, <3>2 DEF SlabSpells, x
  <2> HIDE DEF d, f
  <2>7. /\ M2 \in [1..th -> TileDescs] /\ M2[k].f = d
        /\ \A i \in 1..th : M2[i].v = M[i].v /\ (i # k => M2[i] = M[i])
    BY <1>1, <2>5 DEF TileDescs
  <2> HIDE DEF M2
  <2>8. a2.units = u2 /\ a2.main = M2
    BY <2>1
  <2> HIDE DEF th
  <2>9. PackedTo(u2, M2, k, k - 1, D0, D)
    BY <1>5, <2>4, <2>6, <2>7 DEF PackedTo, th
  <2> QED
    BY <2>8, <2>9
<1> QED
  BY <1>6, <1>7

\* The descriptors D with those of tile k replaced by e.
Relaid(D, k, e) ==
    [r \in 1..cards.rows |-> IF TileOfRow(r) = k THEN e[PlaceOfRow(r)] ELSE D[r]]

\* The descriptors of one tile are replaced, those of the others stay.
LEMMA RelaidIs ==
  ASSUME Typed, NEW D \in [1..cards.rows -> CellDescs], NEW k \in 1..cards.tiles,
         NEW e \in [1..TileLen(k, cards.rows) -> CellDescs]
  PROVE  /\ Relaid(D, k, e) \in [1..cards.rows -> CellDescs]
         /\ SameElsewhere(cards.rows, k, D, Relaid(D, k, e))
         /\ \A j \in 1..TileLen(k, cards.rows) : Relaid(D, k, e)[RowOf(k, j)] = e[j]
         /\ \A r \in 1..cards.rows : TileOfRow(r) = k =>
              PlaceOfRow(r) \in 1..TileLen(k, cards.rows) /\ RowOf(k, PlaceOfRow(r)) = r
         /\ DescsOf(Relaid(D, k, e), k, cards.rows) = e
<1> DEFINE n == cards.rows
           D2 == Relaid(D, k, e)
           len == TileLen(k, n)
<1>1. n \in Nat /\ cards.tiles = Tiles(n) /\ k \in 1..Tiles(n)
  BY DEF Typed
<1>2. \A r \in 1..n : TileOfRow(r) = k => PlaceOfRow(r) \in 1..len /\ RowOf(k, PlaceOfRow(r)) = r
  BY <1>1, RowPlace
<1>3. \A j \in 1..len : RowOf(k, j) \in 1..n /\ TileOfRow(RowOf(k, j)) = k /\ PlaceOfRow(RowOf(k, j)) = j
  BY <1>1, PlaceRow
<1>4. D2 = [r \in 1..n |-> IF TileOfRow(r) = k THEN e[PlaceOfRow(r)] ELSE D[r]]
  BY DEF Relaid
<1> HIDE DEF D2, n, len
<1>5. D \in [1..n -> CellDescs] /\ e \in [1..len -> CellDescs]
  BY DEF n, len
<1>6. D2 \in [1..n -> CellDescs]
  BY <1>2, <1>4, <1>5
<1>7. SameElsewhere(n, k, D, D2)
  BY <1>4 DEF SameElsewhere
<1>8. \A j \in 1..len : D2[RowOf(k, j)] = e[j]
  BY <1>3, <1>4
<1>9. DescsOf(D2, k, n) = e
  <2>1. DescsOf(D2, k, n) = [j \in 1..len |-> D2[RowOf(k, j)]]
    BY DEF DescsOf, len
  <2> QED
    BY <1>5, <1>8, <2>1
<1> QED
  BY <1>2, <1>6, <1>7, <1>8, <1>9 DEF D2, n, len

\* The cells of a tile as repack reads them.
LEMMA CellsToPack ==
  ASSUME Typed, NEW D0 \in [1..cards.rows -> CellDescs],
         Content(cols, sect, cards.tiles, cards.pcount, sect, table, D0),
         NEW k \in 1..cards.tiles, sect[k].v.n # 0
  PROVE  LET b == BlobAt(k, cards.rows, cards.tiles).of
             us == [j \in DOMAIN b |-> UnitsOf(b[j], cards.tiles)]
         IN  /\ CellsToLay(TileLen(k, cards.rows), CellsOf(table, k), us, b)
             /\ \A j \in 1..TileLen(k, cards.rows) : b[j] = D0[RowOf(k, j)]
             /\ "v" \in cols /\ \A j \in 1..TileLen(k, cards.rows) : table[RowOf(k, j)].v # NoCell
<1> DEFINE n == cards.rows
           th == cards.tiles
           len == TileLen(k, n)
           vs == CellsOf(table, k)
           b == DescsOf(D0, k, n)
           us == [j \in DOMAIN b |-> UnitsOf(b[j], th)]
<1>1. /\ n \in Nat /\ th \in Nat /\ th = Tiles(n) /\ table \in Seq(TableRows) /\ Len(table) = n /\ IsSeq(sect)
      /\ D0 \in [1..Len(table) -> CellDescs] /\ k \in 1..Tiles(Len(table))
  BY DEF Typed, SectOK
<1>2. /\ BlobAt(k, n, th) = Decoded(sect[k].v, b)
      /\ BlobSpells(cols, sect, th, cards.pcount, sect[k].v, k, table, D0)
  BY <1>1, OldTiles
<1>3. BlobAt(k, n, th).of = b
  BY <1>2 DEF Decoded, Right
<1>4. /\ len \in Nat \ {0}
      /\ \A j \in 1..len : /\ table[RowOf(k, j)] \in TableRows /\ D0[RowOf(k, j)] \in CellDescs
                           /\ b[j] = D0[RowOf(k, j)]
      /\ b \in Seq(CellDescs) /\ Len(b) = len
  BY <1>1, TilePartsAre, SMTT(40)
<1>5. DOMAIN b = 1..len
  BY <1>4
<1>6. /\ "v" \in cols
      /\ \A j \in 1..len : /\ table[RowOf(k, j)].v # NoCell
                           /\ CellLies(sect, th, cards.pcount, D0[RowOf(k, j)], table[RowOf(k, j)].v)
  BY <1>1, <1>2 DEF BlobSpells
<1>7. vs = [j \in 1..len |-> table[RowOf(k, j)].v]
  BY <1>1 DEF CellsOf
<1> HIDE DEF b, vs, len
<1>8. ASSUME NEW j \in 1..len
      PROVE  /\ vs[j] \in Seq(Nat) /\ UnitsOf(b[j], th) = Cell(vs[j])
             /\ b[j].n = Len(vs[j]) /\ b[j].orig \in Nat
  <2> DEFINE e == b[j]
             v == vs[j]
  <2>1. v = table[RowOf(k, j)].v /\ v \in Seq(Nat)
    <3>1. table[RowOf(k, j)].v \in Seq(Nat)
      BY <1>4 DEF TableRows
    <3> QED
      BY <1>7, <3>1
  <2>2. e \in CellDescs /\ CellLies(sect, th, cards.pcount, e, v)
    BY <1>4, <1>6, <2>1
  <2> HIDE DEF e, v
  <2>3. SubSeq(sect, th + e.cs + 1, th + e.cs + e.cn) = Cell(v)
    BY <1>1, <2>1, <2>2, CellFound, ZenonT(40)
  <2>4. e.n = Len(v) /\ e.orig \in Nat
    BY <2>2 DEF CellLies, CellDescs
  <2> QED
    BY <2>1, <2>3, <2>4 DEF UnitsOf, e, v
<1>9. us = [j \in 1..len |-> Cell(vs[j])]
  BY <1>5, <1>8
<1>10. vs \in [1..len -> Seq(Nat)]
  BY <1>7, <1>8
<1> HIDE DEF us
<1>11. CellsToLay(len, vs, us, b)
  BY <1>4, <1>8, <1>9, <1>10 DEF CellsToLay
<1> QED
  BY <1>3, <1>4, <1>6, <1>11 DEF us, vs, len

\* The cells and the blob of tile k are packed.
LEMMA PackBlob ==
  ASSUME Typed, NEW D0 \in [1..cards.rows -> CellDescs],
         Content(cols, sect, cards.tiles, cards.pcount, sect, table, D0),
         NEW k \in 1..cards.tiles, NEW u, NEW M, NEW D, PackedTo(u, M, k, k - 1, D0, D),
         NEW a, a.units = u, a.main = M, NEW a2, a2 = Pack(a, k, "v")
  PROVE  \E D2 : PackedTo(a2.units, a2.main, k, k, D0, D2)
<1> DEFINE v == M[k].v
           th == cards.tiles
           n == cards.rows
           len == TileLen(k, n)
<1>1. /\ IsSeq(u) /\ M \in [1..th -> TileDescs] /\ th \in Nat /\ n \in Nat /\ k \in Nat \ {0}
      /\ table \in Seq(TableRows) /\ Len(table) = n /\ th = Tiles(n) /\ D \in [1..n -> CellDescs]
  BY DEF PackedTo, Typed, SectOK
<1>2. v = sect[k].v /\ v \in HeapDescs /\ \A j \in 1..len : D[RowOf(k, j)] = D0[RowOf(k, j)]
  <2>1. ~(k <= k - 1)
    BY <1>1
  <2> QED
    BY <1>1, <2>1 DEF PackedTo, TileDescs
<1>3. BlobSpells(cols, sect, th, cards.pcount, v, k, table, D0)
  BY <1>1, <1>2, OldTiles
<1>4. v.n \in Nat /\ v.off \in Nat
  BY <1>2 DEF HeapDescs
<1>5. \A i \in 1..th : (i <= k <=> i <= k - 1 \/ i = k) /\ (i = k => ~(i <= k - 1))
  BY <1>1
<1>6. CASE v.n = 0
  <2>1. a2 = a
    BY <1>6 DEF Pack
  <2>2. BlobSpells(cols, u, 0, Len(u), M[k].v, k, table, D)
    BY <1>1, <1>2, <1>3, <1>6 DEF BlobSpells
  <2> HIDE DEF th
  <2>3. PackedTo(u, M, k, k, D0, D)
    BY <1>5, <2>2 DEF PackedTo, th
  <2> QED
    BY <2>1, <2>3
<1>7. CASE v.n # 0
  <2> DEFINE b == BlobAt(k, n, th).of
             us == [j \in DOMAIN b |-> UnitsOf(b[j], th)]
             cur == Len(u)
             l == Laid(us, b, cur)
             w == l.units
             e == l.descs
             B == Blob(e)
             wb == w \o B
             u2 == u \o w \o B
             d == Desc(Len(B), cur + Len(w))
             M2 == [M EXCEPT ![k].v = d]
             vs == CellsOf(table, k)
             D2 == Relaid(D, k, e)
  <2>1. a2 = [units |-> u2, main |-> M2]
    BY <1>7 DEF Pack
  <2>2. a2.units = u2 /\ a2.main = M2
    <3> HIDE DEF u2, M2
    <3> QED
      BY <2>1
  <2>3. /\ CellsToLay(len, vs, us, b)
        /\ \A j \in 1..len : b[j] = D0[RowOf(k, j)]
        /\ "v" \in cols /\ \A j \in 1..len : table[RowOf(k, j)].v # NoCell
    BY <1>2, <1>7, CellsToPack
  <2>4. cur \in Nat
    BY <1>1, SeqIsFun
  <2> HIDE DEF b, us, cur
  <2>5. /\ IsSeq(w) /\ e \in [1..len -> CellDescs]
        /\ \A j \in 1..len : e[j].n = Len(vs[j]) /\ e[j].orig = b[j].orig
    BY <2>3, <2>4, LaidTyped
  <2>6. \A j \in 1..len : vs[j] = table[RowOf(k, j)].v /\ b[j].n = Len(vs[j])
    <3>1. \A j \in 1..len : b[j].n = Len(vs[j])
      BY <2>3 DEF CellsToLay
    <3>2. vs = [j \in 1..len |-> table[RowOf(k, j)].v]
      BY <1>1 DEF CellsOf
    <3> QED
      BY <3>1, <3>2
  <2>7. /\ D2 \in [1..n -> CellDescs] /\ SameElsewhere(n, k, D, D2)
        /\ \A j \in 1..len : D2[RowOf(k, j)] = e[j]
        /\ \A r \in 1..n : TileOfRow(r) = k => PlaceOfRow(r) \in 1..len /\ RowOf(k, PlaceOfRow(r)) = r
        /\ DescsOf(D2, k, n) = e
    <3> HIDE DEF l
    <3> QED
      BY <1>1, <2>5, RelaidIs, ZenonT(40)
  <2>8. IsSeq(B) /\ B = Blob(DescsOf(D2, k, n))
    <3>1. len \in Nat
      BY <2>3 DEF CellsToLay
    <3> HIDE DEF e, len
    <3>2. e \in Seq(CellDescs)
      BY <2>5, <3>1
    <3>3. PICK m \in Nat \ {0} : B = Units("blob", e, m)
      BY <3>2, BlobIs
    <3> QED
      BY <2>7, <3>3, UnitsAre
  <2> HIDE DEF w, e, B, D2, vs
  <2>9. IsSeq(wb) /\ Len(wb) = Len(w) + Len(B) /\ Len(w) \in Nat /\ Len(B) \in Nat /\ u2 = u \o wb
    <3>1. IsSeq(wb) /\ Len(wb) = Len(w) + Len(B) /\ Len(w) \in Nat /\ Len(B) \in Nat
      BY <2>5, <2>8, ConcatIs, SeqIsFun
    <3>2. (u \o w) \o B = u \o (w \o B)
      <4>1. IsSeq(u) /\ IsSeq(w) /\ IsSeq(B)
        BY <1>1, <2>5, <2>8
      <4>2. Regroups(u, w, B)
        BY <4>1, ConcatThree
      <4> QED
        BY <4>2 DEF Regroups
    <3> QED
      BY <3>1, <3>2
  <2> HIDE DEF wb, u2
  <2>10. PackedTo(u2, M, k, k - 1, D0, D) /\ Len(u2) = cur + Len(wb) /\ Lies(u2, 0 + cur, wb)
    <3> DEFINE kv == k - 1
    <3>1. PackedTo(u, M, k, kv, D0, D)
      OBVIOUS
    <3> HIDE DEF kv
    <3>2. IsSeq(wb) /\ u2 = u \o wb
      BY <2>9
    <3>3. PackedTo(u \o wb, M, k, kv, D0, D) /\ Len(u \o wb) = Len(u) + Len(wb) /\ Lies(u \o wb, 0 + Len(u), wb)
      BY <3>1, <3>2, PackGrown
    <3> QED
      BY <3>2, <3>3 DEF kv, cur
  <2>11. d = [n |-> Len(B), off |-> cur + Len(w)] /\ d \in HeapDescs
    BY <2>4, <2>9 DEF Desc, HeapDescs
  <2> HIDE DEF d
  <2>12. ASSUME NEW j \in 1..len
         PROVE  CellLies(u2, 0, Len(u2), D2[RowOf(k, j)], table[RowOf(k, j)].v)
    <3> DEFINE z == 0
               L == Len(u2)
    <3>1. z \in Nat /\ z + cur \in Nat /\ L = cur + Len(wb) /\ Lies(u2, z + cur, wb)
      BY <2>4, <2>10
    <3> HIDE DEF z, L
    <3>2. L \in Nat /\ cur + Len(w) <= L
      BY <2>4, <2>9, <3>1
    <3>3. Lies(u2, z + cur, w)
      BY <2>5, <2>8, <3>1, LiesParts DEF wb
    <3>4. CellLies(u2, z, L, e[j], vs[j])
      <4>1. Lies(u2, z + cur, Laid(us, b, cur).units) /\ cur + Len(Laid(us, b, cur).units) <= L
        BY <3>2, <3>3 DEF w
      <4>2. CellLies(u2, z, L, Laid(us, b, cur).descs[j], vs[j])
        BY <2>3, <2>4, <3>1, <3>2, <4>1, LaidLies
      <4> QED
        BY <4>2 DEF e
    <3> QED
      BY <2>6, <2>7, <3>4 DEF z, L
  <2>13. BlobSpells(cols, u2, 0, Len(u2), d, k, table, D2)
    <3> DEFINE z == 0
               L == Len(u2)
    <3>1. /\ table \in Seq(TableRows) /\ k \in 1..Tiles(Len(table)) /\ D2 \in [1..Len(table) -> CellDescs]
          /\ z \in Nat /\ cur \in Nat /\ IsSeq(w) /\ B = Blob(DescsOf(D2, k, Len(table)))
          /\ Lies(u2, z + cur, w \o B) /\ L = cur + Len(w \o B) /\ "v" \in cols
          /\ d = [n |-> Len(B), off |-> cur + Len(w)]
      BY <1>1, <2>3, <2>4, <2>5, <2>7, <2>8, <2>10, <2>11 DEF wb
    <3>2. \A j \in 1..TileLen(k, Len(table)) :
            /\ table[RowOf(k, j)].v # NoCell
            /\ CellLies(u2, z, L, D2[RowOf(k, j)], table[RowOf(k, j)].v)
      BY <1>1, <2>3, <2>12
    <3> HIDE DEF z, L
    <3>3. BlobLaid(cols, u2, z, cur, L, w, B, d, k, table, D2)
      BY <3>1, <3>2 DEF BlobLaid
    <3>4. BlobSpells(cols, u2, z, L, d, k, table, D2)
      BY <3>3, BlobIsLaid
    <3> QED
      BY <3>4 DEF z, L
  <2>14. /\ M2 \in [1..th -> TileDescs] /\ M2[k].v = d
         /\ \A i \in 1..th : M2[i].f = M[i].f /\ (i # k => M2[i] = M[i])
    <3> HIDE DEF v
    <3> QED
      BY <1>1, <2>11 DEF TileDescs
  <2> HIDE DEF M2
  <2>15. \A r \in 1..n : D2[r].n = D0[r].n /\ D2[r].orig = D0[r].orig
    <3> SUFFICES ASSUME NEW r \in 1..n PROVE D2[r].n = D0[r].n /\ D2[r].orig = D0[r].orig
      OBVIOUS
    <3>1. CASE TileOfRow(r) = k
      <4> DEFINE j == PlaceOfRow(r)
      <4>1. j \in 1..len /\ RowOf(k, j) = r
        BY <2>7, <3>1
      <4> HIDE DEF j
      <4>2. D2[r] = e[j] /\ b[j] = D0[r]
        BY <2>3, <2>7, <4>1
      <4> QED
        BY <2>5, <2>6, <4>1, <4>2
    <3>2. CASE TileOfRow(r) # k
      <4>1. D2[r] = D[r]
        BY <2>7, <3>2 DEF SameElsewhere
      <4> QED
        BY <4>1 DEF PackedTo
    <3> QED
      BY <3>1, <3>2
  <2>16. ASSUME NEW i \in 1..th, i # k, BlobSpells(cols, u2, 0, Len(u2), M[i].v, i, table, D)
         PROVE  BlobSpells(cols, u2, 0, Len(u2), M[i].v, i, table, D2)
    BY <1>1, <2>7, <2>16, BlobElsewhere
  <2>17. ASSUME NEW i \in 1..th, i # k, NEW j \in 1..TileLen(i, n)
         PROVE  D2[RowOf(i, j)] = D[RowOf(i, j)]
    <3>1. RowOf(i, j) \in 1..n /\ TileOfRow(RowOf(i, j)) = i
      BY <1>1, PlaceRow
    <3> QED
      BY <2>7, <2>17, <3>1 DEF SameElsewhere
  <2> HIDE DEF th, n, len
  <2>18. PackedTo(u2, M2, k, k, D0, D2)
    <3>1. /\ IsSeq(u2)
          /\ \A i \in 1..th : IF i <= k THEN SlabSpells(u2, 0, Len(u2), M[i].f, i, table) ELSE M[i].f = sect[i].f
          /\ \A i \in 1..th : IF i <= k - 1 THEN BlobSpells(cols, u2, 0, Len(u2), M[i].v, i, table, D)
                 ELSE M[i].v = sect[i].v /\ \A j \in 1..TileLen(i, n) : D[RowOf(i, j)] = D0[RowOf(i, j)]
      BY <2>10 DEF PackedTo, th, n
    <3>2. \A i \in 1..th : IF i <= k THEN SlabSpells(u2, 0, Len(u2), M2[i].f, i, table) ELSE M2[i].f = sect[i].f
      BY <2>14, <3>1
    <3>3. ASSUME NEW i \in 1..th
          PROVE  IF i <= k THEN BlobSpells(cols, u2, 0, Len(u2), M2[i].v, i, table, D2)
                 ELSE M2[i].v = sect[i].v /\ \A j \in 1..TileLen(i, n) : D2[RowOf(i, j)] = D0[RowOf(i, j)]
      <4>1. CASE i = k
        BY <1>5, <2>13, <2>14, <4>1
      <4>2. CASE i # k
        <5>1. CASE i <= k - 1
          BY <1>5, <2>14, <2>16, <3>1, <4>2, <5>1
        <5>2. CASE ~(i <= k - 1)
          <6>1. ~(i <= k)
            BY <1>5, <4>2, <5>2
          <6>2. M2[i].v = sect[i].v
            BY <2>14, <3>1, <4>2, <5>2
          <6>3. \A j \in 1..TileLen(i, n) : D2[RowOf(i, j)] = D0[RowOf(i, j)]
            BY <2>17, <3>1, <4>2, <5>2
          <6> QED
            BY <6>1, <6>2, <6>3
        <5> QED
          BY <5>1, <5>2
      <4> QED
        BY <4>1, <4>2
    <3> QED
      BY <2>7, <2>14, <2>15, <3>1, <3>2, <3>3 DEF PackedTo, th, n
  <2> QED
    BY <2>2, <2>18
<1> QED
  BY <1>6, <1>7

\* Tile by tile: what repack has after its first k tiles is f[k].
PackTile(a, i) == Pack(Pack(a, i, "f"), i, "v")
PackStart == [units |-> <<>>, main |-> SubSeq(sect, 1, cards.tiles)]
PackSteps(f, k) == f = [i \in 0..k |-> IF i = 0 THEN PackStart ELSE PackTile(f[i - 1], i)]

\* The definition by recursion has a solution: one tile more can always be packed.
LEMMA PackStepsExist ==
  ASSUME NEW n \in Nat
  PROVE  \E f : PackSteps(f, n)
<1> DEFINE S == {k \in Nat : \E f : PackSteps(f, k)}
<1>1. 0 \in S
  <2> DEFINE f == [i \in 0..0 |-> PackStart]
  <2>1. f = [i \in 0..0 |-> IF i = 0 THEN PackStart ELSE PackTile(f[i - 1], i)]
    OBVIOUS
  <2> HIDE DEF f
  <2> QED
    BY <2>1 DEF PackSteps
<1>2. ASSUME NEW k \in S PROVE k + 1 \in S
  <2>1. PICK g : PackSteps(g, k)
    OBVIOUS
  <2> DEFINE last == PackTile(g[k], k + 1)
             f == [i \in 0..(k + 1) |-> IF i <= k THEN g[i] ELSE last]
             G == [i \in 0..(k + 1) |-> IF i = 0 THEN PackStart ELSE PackTile(f[i - 1], i)]
  <2>2. k \in Nat
    OBVIOUS
  <2>3. \A i \in 0..k : g[i] = IF i = 0 THEN PackStart ELSE PackTile(g[i - 1], i)
    BY <2>1 DEF PackSteps
  <2>4. ASSUME NEW i \in 0..(k + 1) PROVE f[i] = G[i]
    <3>1. CASE i = 0
      BY <2>2, <2>3, <3>1
    <3>2. CASE i # 0 /\ i <= k
      <4>1. i - 1 \in 0..(k + 1) /\ i - 1 <= k /\ i \in 0..k
        BY <2>2, <3>2
      <4>2. f[i - 1] = g[i - 1] /\ f[i] = g[i]
        BY <3>2, <4>1
      <4>3. g[i] = PackTile(g[i - 1], i)
        BY <2>3, <3>2, <4>1
      <4> HIDE DEF f
      <4>4. G[i] = PackTile(f[i - 1], i)
        BY <3>2
      <4> QED
        BY <4>2, <4>3, <4>4
    <3>3. CASE i = k + 1
      <4>1. i - 1 = k /\ i # 0 /\ k \in 0..(k + 1) /\ k <= k /\ ~(i <= k)
        BY <2>2, <3>3
      <4>2. f[i - 1] = g[k] /\ f[i] = last
        BY <4>1
      <4> HIDE DEF f
      <4>3. G[i] = PackTile(f[i - 1], i)
        BY <4>1
      <4> QED
        BY <3>3, <4>2, <4>3
    <3> QED
      BY <2>2, <3>1, <3>2, <3>3
  <2>5. f = G
    BY <2>4
  <2> HIDE DEF f
  <2>6. PackSteps(f, k + 1)
    BY <2>5 DEF PackSteps
  <2> QED
    BY <2>2, <2>6
<1> HIDE DEF S
<1>3. S = Nat
  BY <1>1, <1>2, SetInduction DEF S
<1> QED
  BY <1>3 DEF S

\* What repack computes is the last step of such a solution.
LEMMA PackedIs ==
  ASSUME cards.tiles \in Nat
  PROVE  \E f : PackSteps(f, cards.tiles) /\ Packed = f[cards.tiles]
<1> DEFINE D == 0..cards.tiles
           after == CHOOSE f : f = [i \in D |-> IF i = 0 THEN PackStart ELSE PackTile(f[i - 1], i)]
<1>1. Packed = after[cards.tiles]
  BY DEF Packed, PackStart, PackTile
<1>2. PICK f : f = [i \in D |-> IF i = 0 THEN PackStart ELSE PackTile(f[i - 1], i)]
  BY PackStepsExist DEF PackSteps
<1>3. after = [i \in D |-> IF i = 0 THEN PackStart ELSE PackTile(after[i - 1], i)]
  BY <1>2
<1> HIDE DEF after
<1> QED
  BY <1>1, <1>3 DEF PackSteps

\* Before the first tile nothing is packed and every descriptor is the old one.
LEMMA PackBegins ==
  ASSUME Typed, NEW D0 \in [1..cards.rows -> CellDescs]
  PROVE  PackedTo(PackStart.units, PackStart.main, 0, 0, D0, D0)
<1> DEFINE th == cards.tiles
           M == SubSeq(sect, 1, th)
           e == <<>>
           z == 0
<1>1. th \in Nat /\ IsSeq(sect) /\ th <= Len(sect) /\ \A i \in 1..th : sect[i] \in TileDescs
  BY DEF Typed, SectOK
<1>2. PackStart.units = e /\ PackStart.main = M
  <2> HIDE DEF e, M
  <2> QED
    BY DEF PackStart, e, M
<1>3. IsSeq(e)
  <2>1. e \in Seq({})
    OBVIOUS
  <2> QED
    BY <2>1, TypedIsSeq
<1>4. IsSeq(M) /\ Len(M) = th /\ \A i \in 1..th : M[i] = sect[i]
  <2>1. z \in Nat /\ z + th <= Len(sect) /\ z + 1 = 1 /\ z + th = th /\ \A q \in 1..th : z + q = q
    BY <1>1
  <2>2. M = SubSeq(sect, z + 1, z + th)
    <3> HIDE DEF z, th
    <3> QED
      BY <2>1, Zenon DEF M
  <2> HIDE DEF z, M, th
  <2>3. LET u == SubSeq(sect, z + 1, z + th)
        IN  IsSeq(u) /\ Len(u) = th /\ \A q \in 1..th : u[q] = sect[z + q]
    BY <1>1, <2>1, PartIs
  <2>4. IsSeq(M) /\ Len(M) = th /\ \A q \in 1..th : M[q] = sect[z + q]
    BY <2>2, <2>3, Zenon
  <2> QED
    BY <2>1, <2>4
<1> HIDE DEF M, e
<1>5. M \in [1..th -> TileDescs]
  BY <1>1, <1>4, SeqIsFun
<1>6. \A i \in 1..th : ~(i <= 0)
  BY <1>1
<1>7. PackedTo(e, M, 0, 0, D0, D0)
  BY <1>3, <1>4, <1>5, <1>6 DEF PackedTo
<1> QED
  BY <1>2, <1>7

\* All tiles are packed.
LEMMA PackedWorks ==
  ASSUME Typed, NEW D0 \in [1..cards.rows -> CellDescs],
         Content(cols, sect, cards.tiles, cards.pcount, sect, table, D0)
  PROVE  \E D : PackedTo(Packed.units, Packed.main, cards.tiles, cards.tiles, D0, D)
<1> DEFINE th == cards.tiles
<1>1. th \in Nat
  BY DEF Typed
<1>2. PICK f : PackSteps(f, th) /\ Packed = f[th]
  BY <1>1, PackedIs
<1>3. f[0] = PackStart /\ \A i \in 1..th : f[i] = PackTile(f[i - 1], i)
  <2>1. \A i \in 0..th : f[i] = IF i = 0 THEN PackStart ELSE PackTile(f[i - 1], i)
    BY <1>2 DEF PackSteps
  <2>2. 0 \in 0..th /\ \A i \in 1..th : i \in 0..th /\ i # 0
    BY <1>1
  <2> QED
    BY <2>1, <2>2
<1> DEFINE Q(k) == \E D : PackedTo(f[k].units, f[k].main, k, k, D0, D)
           S == {k \in Nat : k <= th => Q(k)}
<1>4. Q(0)
  BY <1>3, PackBegins
<1>5. ASSUME NEW k \in 1..th, Q(k - 1) PROVE Q(k)
  <2> DEFINE a == f[k - 1]
             u == a.units
             M == a.main
             a1 == Pack(a, k, "f")
             u1 == a1.units
             M1 == a1.main
             a2 == Pack(a1, k, "v")
  <2>1. PICK D : PackedTo(u, M, k - 1, k - 1, D0, D)
    BY <1>5
  <2>2. a.units = u /\ a.main = M /\ a1.units = u1 /\ a1.main = M1
    OBVIOUS
  <2>3. f[k] = a2
    BY <1>3 DEF PackTile
  <2> HIDE DEF u, M, a
  <2>4. PackedTo(a1.units, a1.main, k, k - 1, D0, D)
    BY <2>1, <2>2, PackSlab
  <2>5. PackedTo(u1, M1, k, k - 1, D0, D)
    BY <2>4
  <2> HIDE DEF u1, M1, a1
  <2>6. \E D2 : PackedTo(a2.units, a2.main, k, k, D0, D2)
    BY <2>2, <2>5, PackBlob
  <2> HIDE DEF a2
  <2> QED
    BY <2>3, <2>6
<1> HIDE DEF Q
<1>6. 0 \in S
  BY <1>4
<1>7. ASSUME NEW k \in Nat, k \in S PROVE k + 1 \in S
  <2> DEFINE j == k + 1
  <2>1. j \in Nat /\ j - 1 = k
    OBVIOUS
  <2>2. j <= th => j \in 1..th /\ k <= th
    BY <1>1
  <2> HIDE DEF j
  <2>3. j <= th => Q(j - 1)
    BY <1>7, <2>1, <2>2
  <2>4. j <= th => Q(j)
    BY <1>5, <2>2, <2>3
  <2>5. j \in S
    BY <2>1, <2>4
  <2> QED
    BY <2>5 DEF j
<1> HIDE DEF S
<1>8. \A k \in Nat : k \in S
  BY <1>6, <1>7, SetInduction
<1>9. th <= th
  BY <1>1
<1>10. Q(th)
  BY <1>1, <1>8, <1>9 DEF S
<1> QED
  BY <1>2, <1>10 DEF Q

\* What repack leaves: the descriptors, and behind them the packed units.
LEMMA PackedHolds ==
  ASSUME Typed, NEW D0, NEW u, NEW M, NEW D, PackedTo(u, M, cards.tiles, cards.tiles, D0, D),
         NEW S, S = M \o u
  PROVE  /\ IsSeq(S) /\ cards.tiles <= Len(S) /\ \A i \in 1..cards.tiles : S[i] \in TileDescs
         /\ Len(u) \in Nat /\ D \in [1..cards.rows -> CellDescs]
         /\ Content(cols, S, cards.tiles, Len(u), S, table, D)
         /\ \A z : Origs(D0, cards.rows, z) => Origs(D, cards.rows, z)
<1> DEFINE th == cards.tiles
           z0 == 0
           l == Len(u)
<1>1. /\ IsSeq(u) /\ M \in [1..th -> TileDescs] /\ D \in [1..cards.rows -> CellDescs]
      /\ \A r \in 1..cards.rows : D[r].n = D0[r].n /\ D[r].orig = D0[r].orig
  BY DEF PackedTo
<1>2. /\ th \in Nat /\ table \in Seq(TableRows) /\ Len(table) = cards.rows /\ th = Tiles(Len(table)) /\ l \in Nat
  BY <1>1, SeqIsFun DEF Typed
<1>3. \A i \in 1..th : /\ SlabSpells(u, z0, l, M[i].f, i, table)
                       /\ BlobSpells(cols, u, z0, l, M[i].v, i, table, D)
  <2>1. \A i \in 1..th : i <= th
    BY <1>2
  <2> QED
    BY <2>1 DEF PackedTo
<1>4. IsSeq(M) /\ Len(M) = th
  <2>1. M = [q \in 1..th |-> M[q]]
    BY <1>1
  <2> QED
    BY <1>2, <2>1, FunIsSeq
<1>5. z0 \in Nat
  OBVIOUS
<1> HIDE DEF th, z0, l
<1>6. /\ IsSeq(S) /\ Len(S) = th + l /\ \A q \in 1..th : S[q] = M[q]
      /\ \A q \in 1..l : S[th + q] = u[q]
  BY <1>1, <1>4, ConcatIs DEF l
<1>7. Moves(u, z0, l, S, th, l)
  <2>1. \A q \in 1..l : z0 + q = q /\ th + q <= Len(S)
    BY <1>2, <1>5, <1>6 DEF z0
  <2>2. Carries(u, z0, S, th, l)
    BY <1>6, <2>1 DEF Carries
  <2>3. l <= l
    BY <1>2
  <2> QED
    BY <1>2, <1>5, <2>2, <2>3 DEF Moves
<1>8. \A i \in 1..Tiles(Len(table)) : M[i] \in TileDescs /\ S[i] = M[i]
  BY <1>1, <1>2, <1>6
<1>9. D \in [1..Len(table) -> CellDescs]
  BY <1>1, <1>2
<1>10. Content(cols, u, z0, l, M, table, D)
  BY <1>2, <1>3 DEF Content
<1>11. Content(cols, S, th, l, S, table, D)
  BY <1>2, <1>7, <1>8, <1>9, <1>10, ContentMoved
<1>12. \A z : Origs(D0, cards.rows, z) => Origs(D, cards.rows, z)
  BY <1>1 DEF Origs
<1>13. th <= Len(S)
  BY <1>2, <1>6
<1> QED
  BY <1>1, <1>2, <1>6, <1>8, <1>11, <1>12, <1>13 DEF th, l

\* The units that the first n descriptors of main claim for their slabs.
SlabSizes(main, n) == [i \in 1..n |-> main[i].f.n]
Claimed(main, n) == SumTo(SlabSizes(main, n), n)

\* A table without variable-length columns lays claim to no more units than its heap has,
\* nor does a call in progress: a repack never makes the heap longer.
Spare ==
    ~tainted /\ harmed = "no" /\ "v" \notin cols =>
      /\ Claimed(sect, cards.tiles) <= cards.pcount
      /\ call # Idle => Claimed(call.main, call.theap) <= call.cur

\* What repack has after the first k tiles of such a table: units u, one slab behind the
\* other, and descriptors M that lead to them.
SlabsTo(u, M, k) ==
    LET w == SlabSizes(sect, cards.tiles) IN
    /\ IsSeq(u) /\ Len(u) = SumTo(w, k)
    /\ M \in [1..cards.tiles -> TileDescs]
    /\ \A i \in 1..cards.tiles : M[i].v.n = 0 /\ M[i].f.n = w[i]
    /\ \A i \in 1..cards.tiles : i <= k /\ w[i] # 0 => M[i].f.off = SumTo(w, i - 1)
    /\ \A i \in 1..cards.tiles : i > k => M[i].f = sect[i].f
    /\ \A i \in 1..cards.tiles : i <= k =>
         \A q \in 1..w[i] : u[SumTo(w, i - 1) + q] = sect[cards.tiles + sect[i].f.off + q]

\* Their sizes.
LEMMA SlabSizesAre ==
  ASSUME Typed
  PROVE  LET w == SlabSizes(sect, cards.tiles)
             N == cards.tiles
         IN  /\ N \in Nat /\ \A i \in 1..N : /\ w[i] \in Nat /\ w[i] = sect[i].f.n /\ sect[i].f.off \in Nat
                                             /\ sect[i] \in TileDescs
             /\ \A n \in 0..N : SumTo(w, n) \in Nat
             /\ \A n \in 1..N : SumTo(w, n) = SumTo(w, n - 1) + w[n]
             /\ \A m, n \in 0..N : m <= n => SumTo(w, m) <= SumTo(w, n)
             /\ SumTo(w, 0) = 0
<1> DEFINE w == SlabSizes(sect, cards.tiles)
           N == cards.tiles
<1>1. N \in Nat /\ \A i \in 1..N : sect[i] \in TileDescs
  BY DEF Typed, SectOK
<1>2. \A i \in 1..N : w[i] \in Nat /\ w[i] = sect[i].f.n /\ sect[i].f.off \in Nat
  BY <1>1 DEF SlabSizes, TileDescs, HeapDescs
<1> HIDE DEF w, N
<1>3. /\ \A n \in 0..N : SumTo(w, n) \in Nat
      /\ \A n \in 1..N : SumTo(w, n) = SumTo(w, n - 1) + w[n]
      /\ \A m, n \in 0..N : m <= n => SumTo(w, m) <= SumTo(w, n)
  BY <1>1, <1>2, SumToNat
<1>4. SumTo(w, 0) = 0
  BY SumToUnfolds
<1> QED
  BY <1>1, <1>2, <1>3, <1>4 DEF w, N

\* Before the first tile.
LEMMA SlabsBegin ==
  ASSUME Typed, \A i \in 1..cards.tiles : sect[i].v.n = 0
  PROVE  SlabsTo(PackStart.units, PackStart.main, 0)
<1> DEFINE N == cards.tiles
           w == SlabSizes(sect, N)
           M == SubSeq(sect, 1, N)
           e == <<>>
           z == 0
<1>1. /\ N \in Nat /\ (\A i \in 1..N : w[i] = sect[i].f.n /\ sect[i] \in TileDescs) /\ SumTo(w, 0) = 0
  BY SlabSizesAre
<1>2. PackStart.units = e /\ PackStart.main = M
  <2> HIDE DEF e, M
  <2> QED
    BY DEF PackStart, e, M
<1>3. IsSeq(e) /\ Len(e) = 0
  <2>1. e \in Seq({})
    OBVIOUS
  <2> QED
    BY <2>1, TypedIsSeq
<1>4. z + 1 = 1 /\ z + N = N /\ z \in Nat /\ \A k \in 1..N : z + k = k
  BY <1>1
<1>5. M = SubSeq(sect, z + 1, z + N)
  <2> HIDE DEF z, N
  <2> QED
    BY <1>4, Zenon DEF M
<1> HIDE DEF M, e, z, w, N
<1>6. IsSeq(M) /\ Len(M) = N /\ \A k \in 1..N : M[k] = sect[z + k]
  <2>1. LET u == SubSeq(sect, z + 1, z + N)
        IN  IsSeq(u) /\ Len(u) = N /\ \A q \in 1..N : u[q] = sect[z + q]
    BY <1>1, <1>4, RangeIs
  <2> QED
    BY <1>5, <2>1, Zenon
<1>7. \A k \in 1..N : M[k] = sect[k]
  BY <1>4, <1>6
<1>8. M \in [1..N -> TileDescs]
  BY <1>1, <1>6, <1>7, SeqIsFun
<1>9. \A i \in 1..N : ~(i <= 0)
  BY <1>1
<1>10. \A i \in 1..N : M[i].v.n = 0 /\ M[i].f.n = w[i]
  BY <1>1, <1>7 DEF N
<1> QED
  BY <1>1, <1>2, <1>3, <1>7, <1>8, <1>9, <1>10 DEF SlabsTo, w, N

\* One tile more.
LEMMA SlabsGrow ==
  ASSUME Typed, NEW k \in 1..cards.tiles, NEW a, SlabsTo(a.units, a.main, k - 1),
         NEW b, b = PackTile(a, k)
  PROVE  SlabsTo(b.units, b.main, k)
<1> DEFINE N == cards.tiles
           w == SlabSizes(sect, N)
           u == a.units
           M == a.main
           f == M[k].f
           part == SubSeq(sect, N + f.off + 1, N + f.off + f.n)
           a1 == Pack(a, k, "f")
           T(j) == SumTo(w, j)
<1>1. /\ N \in Nat /\ \A i \in 1..N : /\ w[i] \in Nat /\ w[i] = sect[i].f.n /\ sect[i].f.off \in Nat
                                      /\ sect[i] \in TileDescs
      /\ \A n \in 0..N : T(n) \in Nat
      /\ \A n \in 1..N : T(n) = T(n - 1) + w[n]
      /\ \A m, n \in 0..N : m <= n => T(m) <= T(n)
  BY SlabSizesAre
<1>2. /\ IsSeq(u) /\ Len(u) = T(k - 1) /\ M \in [1..N -> TileDescs]
      /\ \A i \in 1..N : M[i].v.n = 0 /\ M[i].f.n = w[i]
      /\ \A i \in 1..N : i <= k - 1 /\ w[i] # 0 => M[i].f.off = T(i - 1)
      /\ \A i \in 1..N : i > k - 1 => M[i].f = sect[i].f
      /\ \A i \in 1..N : i <= k - 1 => \A q \in 1..w[i] : u[T(i - 1) + q] = sect[N + sect[i].f.off + q]
  BY DEF SlabsTo
<1>3. /\ k \in Nat \ {0} /\ k <= N /\ f = sect[k].f /\ f.n = w[k] /\ f.off \in Nat /\ f.n \in Nat
      /\ \A i \in 1..N : i <= k <=> (i <= k - 1 \/ i = k)
      /\ \A i \in 1..N : i > k => i > k - 1 /\ i # k
  <2>1. k \in Nat \ {0} /\ k <= N /\ k > k - 1 /\ \A i \in 1..N : /\ i <= k <=> (i <= k - 1 \/ i = k)
                                                                  /\ i > k => i > k - 1 /\ i # k
    BY <1>1
  <2> QED
    BY <1>1, <1>2, <2>1
<1>4. T(k) = T(k - 1) + w[k] /\ T(k - 1) \in Nat
  BY <1>1, <1>3
<1>5. b = Pack(a1, k, "v")
  BY DEF PackTile
<1>6. CASE f.n = 0
  <2>1. a1 = a
    BY <1>6 DEF Pack
  <2>2. b = a
    <3>1. a.main[k].v.n = 0
      BY <1>2, <1>3
    <3> QED
      BY <1>5, <2>1, <3>1 DEF Pack
  <2>3. T(k) = T(k - 1) /\ w[k] = 0
    BY <1>3, <1>4, <1>6
  <2> HIDE DEF w, N, T, f, u, M
  <2>4. \A i \in 1..N : i <= k => \A q \in 1..w[i] : u[T(i - 1) + q] = sect[N + sect[i].f.off + q]
    BY <1>2, <1>3, <2>3
  <2>5. \A i \in 1..N : i <= k /\ w[i] # 0 => M[i].f.off = T(i - 1)
    BY <1>2, <1>3, <2>3
  <2>6. SlabsTo(u, M, k)
    BY <1>2, <1>3, <2>3, <2>4, <2>5 DEF SlabsTo, w, N, T
  <2> QED
    BY <2>2, <2>6 DEF u, M
<1>7. CASE f.n # 0
  <2> DEFINE d == Desc(f.n, Len(u))
             u2 == u \o part
             M2 == [M EXCEPT ![k].f = d]
  <2>1. a1 = [units |-> u2, main |-> M2]
    BY <1>7 DEF Pack
  <2>2. IsSeq(part) /\ Len(part) = f.n /\ \A q \in 1..f.n : part[q] = sect[N + f.off + q]
    <3> DEFINE m == N + f.off
               n == f.n
    <3>1. m \in Nat /\ n \in Nat
      BY <1>1, <1>3
    <3> HIDE DEF m, n
    <3>2. LET p == SubSeq(sect, m + 1, m + n)
          IN  IsSeq(p) /\ Len(p) = n /\ \A q \in 1..n : p[q] = sect[m + q]
      BY <3>1, RangeIs
    <3>3. part = SubSeq(sect, m + 1, m + n)
      BY DEF m, n
    <3> HIDE DEF part
    <3>4. IsSeq(part) /\ Len(part) = n /\ \A q \in 1..n : part[q] = sect[m + q]
      BY <3>2, <3>3, Zenon
    <3> QED
      BY <3>4 DEF m, n
  <2> HIDE DEF part
  <2>3. /\ IsSeq(u2) /\ Len(u2) = Len(u) + Len(part) /\ \A q \in 1..Len(u) : u2[q] = u[q]
        /\ \A q \in 1..Len(part) : u2[Len(u) + q] = part[q]
    <3>1. IsSeq(u) /\ IsSeq(part)
      BY <1>2, <2>2
    <3> HIDE DEF u
    <3> QED
      BY <3>1, ConcatIs
  <2> HIDE DEF u2
  <2>4. d \in HeapDescs /\ d.n = f.n /\ d.off = T(k - 1)
    BY <1>2, <1>3, <1>4 DEF Desc, HeapDescs
  <2> HIDE DEF d, f
  <2>5. /\ M2 \in [1..N -> TileDescs] /\ M2[k].f = d
        /\ \A i \in 1..N : M2[i].v = M[i].v /\ (i # k => M2[i] = M[i])
    <3> HIDE DEF M
    <3> QED
      BY <1>2, <2>4 DEF TileDescs
  <2> HIDE DEF M2
  <2>6. a1.units = u2 /\ a1.main = M2
    BY <2>1
  <2> HIDE DEF a1
  <2>7. b = a1
    <3>1. M2[k].v.n = 0
      BY <1>2, <2>5
    <3>2. a1.main[k].v.n = 0
      BY <2>6, <3>1
    <3> QED
      BY <1>5, <3>2 DEF Pack
  <2>8. Len(u2) = T(k)
    BY <1>2, <1>3, <1>4, <2>2, <2>3
  <2>9. ASSUME NEW i \in 1..N, i <= k, NEW q \in 1..w[i]
        PROVE  u2[T(i - 1) + q] = sect[N + sect[i].f.off + q]
    <3>1. CASE i = k
      <4>1. q \in 1..Len(part) /\ Len(u) = T(i - 1)
        BY <1>2, <1>3, <2>2, <3>1
      <4> QED
        BY <1>3, <2>2, <2>3, <3>1, <4>1
    <3>2. CASE i # k
      <4>1. i <= k - 1 /\ i \in 0..N /\ k - 1 \in 0..N /\ i - 1 \in 0..N
        BY <1>1, <1>3, <2>9, <3>2
      <4>2. T(i) <= T(k - 1) /\ T(i) = T(i - 1) + w[i] /\ T(i - 1) \in Nat /\ w[i] \in Nat
        BY <1>1, <4>1
      <4> DEFINE x == T(i - 1)
                 y == T(k - 1)
                 v == w[i]
      <4>3. x + v <= y /\ x \in Nat /\ v \in Nat /\ y \in Nat /\ q \in 1..v
        BY <1>4, <4>2
      <4> HIDE DEF x, y, v
      <4>4. x + q \in 1..y
        BY <4>3
      <4>5. u2[x + q] = u[x + q]
        BY <1>2, <2>3, <4>4 DEF y
      <4> QED
        BY <1>2, <4>1, <4>5 DEF x
    <3> QED
      BY <3>1, <3>2
  <2>10. \A i \in 1..N : M2[i].v.n = 0 /\ M2[i].f.n = w[i]
    BY <1>2, <1>3, <2>4, <2>5
  <2>11. \A i \in 1..N : i <= k /\ w[i] # 0 => M2[i].f.off = T(i - 1)
    BY <1>2, <1>3, <2>4, <2>5
  <2>12. \A i \in 1..N : i > k => M2[i].f = sect[i].f
    BY <1>2, <1>3, <2>5
  <2> HIDE DEF w, N, T
  <2>13. SlabsTo(u2, M2, k)
    BY <2>3, <2>5, <2>8, <2>9, <2>10, <2>11, <2>12 DEF SlabsTo, w, N, T
  <2> QED
    BY <2>6, <2>7, <2>13
<1> QED
  BY <1>6, <1>7

\* All tiles.
LEMMA SlabsPacked ==
  ASSUME Typed, \A i \in 1..cards.tiles : sect[i].v.n = 0
  PROVE  SlabsTo(Packed.units, Packed.main, cards.tiles)
<1> DEFINE th == cards.tiles
<1>1. th \in Nat
  BY DEF Typed
<1>2. PICK f : PackSteps(f, th) /\ Packed = f[th]
  BY <1>1, PackedIs
<1>3. f[0] = PackStart /\ \A i \in 1..th : f[i] = PackTile(f[i - 1], i)
  <2>1. \A i \in 0..th : f[i] = IF i = 0 THEN PackStart ELSE PackTile(f[i - 1], i)
    BY <1>2 DEF PackSteps
  <2>2. 0 \in 0..th /\ \A i \in 1..th : i \in 0..th /\ i # 0
    BY <1>1
  <2> QED
    BY <2>1, <2>2
<1> DEFINE Q(k) == SlabsTo(f[k].units, f[k].main, k)
           S == {k \in Nat : k <= th => Q(k)}
<1>4. Q(0)
  BY <1>3, SlabsBegin
<1>5. ASSUME NEW k \in 1..th, Q(k - 1) PROVE Q(k)
  <2> DEFINE a == f[k - 1]
             b == f[k]
  <2>1. b = PackTile(a, k) /\ SlabsTo(a.units, a.main, k - 1)
    BY <1>3, <1>5
  <2> HIDE DEF a, b
  <2>2. SlabsTo(b.units, b.main, k)
    BY <2>1, SlabsGrow
  <2> QED
    BY <2>2 DEF b
<1> HIDE DEF Q
<1>6. 0 \in S
  BY <1>4
<1>7. ASSUME NEW k \in Nat, k \in S PROVE k + 1 \in S
  <2> DEFINE j == k + 1
  <2>1. j \in Nat /\ j - 1 = k
    OBVIOUS
  <2>2. j <= th => j \in 1..th /\ k <= th
    BY <1>1
  <2> HIDE DEF j
  <2>3. j <= th => Q(j - 1)
    BY <1>7, <2>1, <2>2
  <2>4. j <= th => Q(j)
    BY <1>5, <2>2, <2>3
  <2>5. j \in S
    BY <2>1, <2>4
  <2> QED
    BY <2>5 DEF j
<1> HIDE DEF S
<1>8. \A k \in Nat : k \in S
  BY <1>6, <1>7, SetInduction
<1>9. th <= th
  BY <1>1
<1>10. Q(th)
  BY <1>1, <1>8, <1>9 DEF S
<1> QED
  BY <1>2, <1>10 DEF Q

\* The plans fit the heap: every slab goes behind the one before.
LEMMA SlabPlansFit ==
  ASSUME Typed, SlabsTo(Packed.units, Packed.main, cards.tiles), Claimed(sect, cards.tiles) <= cards.pcount,
         \A i \in 1..cards.tiles : sect[i].f.n > 0 => sect[i].f.off + sect[i].f.n <= cards.pcount
  PROVE  /\ PlansFit(Plans, cards.tiles, cards.pcount, Len(Packed.units))
         /\ \A i \in 1..cards.tiles :
              /\ Plans[i].old = sect[i].f.off /\ Plans[i].n = sect[i].f.n
              /\ sect[i].f.n # 0 => Plans[i].new = SumTo(SlabSizes(sect, cards.tiles), i - 1)
<1> DEFINE N == cards.tiles
           w == SlabSizes(sect, N)
           L == cards.pcount
           M == Packed.main
           S == Len(Packed.units)
           P == Plans
           T(j) == SumTo(w, j)
<1>1. /\ N \in Nat /\ \A i \in 1..N : /\ w[i] \in Nat /\ w[i] = sect[i].f.n /\ sect[i].f.off \in Nat
      /\ \A n \in 0..N : T(n) \in Nat
      /\ \A n \in 1..N : T(n) = T(n - 1) + w[n]
      /\ \A m, n \in 0..N : m <= n => T(m) <= T(n)
  BY SlabSizesAre
<1>2. /\ S = T(N) /\ M \in [1..N -> TileDescs]
      /\ \A i \in 1..N : i <= N /\ w[i] # 0 => M[i].f.off = T(i - 1)
  BY DEF SlabsTo
<1>3. L \in Nat /\ T(N) <= L /\ \A i \in 1..N : w[i] > 0 => sect[i].f.off + w[i] <= L
  BY <1>1 DEF Typed, Claimed
<1>4. /\ DOMAIN P = 1..N
      /\ \A i \in 1..N : P[i].old = sect[i].f.off /\ P[i].new = M[i].f.off /\ P[i].n = sect[i].f.n
  BY DEF Plans
<1> HIDE DEF w, N, L, M, S, T, P
<1>5. \A i \in 1..N : M[i].f.off \in Nat
  BY <1>2 DEF TileDescs, HeapDescs
<1>6. \A i \in 1..N : w[i] # 0 => P[i].new = T(i - 1)
  BY <1>1, <1>2, <1>4
<1>7. ArePlans(P, N)
  BY <1>1, <1>4, <1>5 DEF ArePlans
<1>8. N \in 0..N /\ \A i \in 1..N : i \in 0..N /\ i - 1 \in 0..N /\ i <= N
  BY <1>1
<1>9. S \in Nat /\ S <= L
  BY <1>1, <1>2, <1>3, <1>8
<1>10. \A i \in 1..N : T(i) <= T(N) /\ T(i) = T(i - 1) + w[i]
  BY <1>1, <1>8
<1>11. \A i \in 1..N : P[i].n > 0 => P[i].old + P[i].n <= L /\ P[i].new + P[i].n <= S
  BY <1>1, <1>2, <1>3, <1>4, <1>6, <1>10
<1>12. ASSUME NEW a \in 1..N, NEW b \in 1..N, a < b, w[a] # 0, w[b] # 0 PROVE P[a].new + P[a].n <= P[b].new
  <2>1. a \in 0..N /\ b - 1 \in 0..N /\ a <= b - 1
    BY <1>1, <1>12
  <2>2. T(a) <= T(b - 1) /\ T(a) = T(a - 1) + w[a]
    BY <1>1, <2>1
  <2> QED
    BY <1>1, <1>4, <1>6, <1>12, <2>2
<1>13. ASSUME NEW a \in 1..N, NEW b \in 1..N, a # b, P[a].n > 0, P[b].n > 0
       PROVE  P[a].new + P[a].n <= P[b].new \/ P[b].new + P[b].n <= P[a].new
  <2>1. (a < b \/ b < a) /\ w[a] # 0 /\ w[b] # 0
    BY <1>1, <1>4, <1>13
  <2> QED
    BY <1>12, <2>1
<1>14. PlansFit(P, N, L, S)
  BY <1>3, <1>7, <1>9, <1>11, <1>13 DEF PlansFit
<1> QED
  BY <1>1, <1>4, <1>6, <1>14 DEF P, N, L, S, T, w

\* The moves of the slabs leave what they are to leave, if none goes over its own end.
LEMMA SlabsMoved ==
  ASSUME Typed, SlabsTo(Packed.units, Packed.main, cards.tiles), Claimed(sect, cards.tiles) <= cards.pcount,
         \A i \in 1..cards.tiles : sect[i].f.n > 0 => sect[i].f.off + sect[i].f.n <= cards.pcount,
         "v" \notin cols, ~Clobbers(Plans, cards.pcount, CHUNK)
  PROVE  PackedHeap = Packed.units
<1> DEFINE N == cards.tiles
           w == SlabSizes(sect, N)
           L == cards.pcount
           u == Packed.units
           S == Len(u)
           P == Plans
           T(j) == SumTo(w, j)
           h == SubSeq(sect, N + 1, N + L)
           g == PackedHeap
           E == {h[i] : i \in DOMAIN h}
<1>1. /\ N \in Nat /\ \A i \in 1..N : /\ w[i] \in Nat /\ w[i] = sect[i].f.n /\ sect[i].f.off \in Nat
      /\ \A n \in 0..N : T(n) \in Nat
  BY SlabSizesAre
<1>2. /\ IsSeq(u) /\ S = T(N)
      /\ \A i \in 1..N : i <= N => \A q \in 1..w[i] : u[T(i - 1) + q] = sect[N + sect[i].f.off + q]
  BY DEF SlabsTo
<1>3. L \in Nat /\ \A i \in 1..N : w[i] > 0 => sect[i].f.off + w[i] <= L
  BY <1>1 DEF Typed
<1>4. /\ PlansFit(P, N, L, S)
      /\ \A i \in 1..N : /\ P[i].old = sect[i].f.off /\ P[i].n = sect[i].f.n
                         /\ sect[i].f.n # 0 => P[i].new = T(i - 1)
  BY SlabPlansFit
<1>5. g = MovedHeap(h, P, S, CHUNK)
  BY DEF PackedHeap
<1>6. CHUNK \in Nat \ {0} /\ ~Clobbers(P, L, CHUNK)
  BY ChunkAssumption
<1> HIDE DEF w, N, L, S, T, P, u, g
<1>7. IsSeq(h) /\ Len(h) = L /\ \A q \in 1..L : h[q] = sect[N + q]
  BY <1>1, <1>3, RangeIs
<1>8. h \in Seq(E)
  BY <1>7 DEF IsSeq
<1> HIDE DEF E, h
<1>9. g \in Seq(E) /\ Len(g) = S /\ BlobsMoved(P, N, h, g)
  <2>1. /\ MovedHeap(h, P, S, CHUNK) \in Seq(E)
        /\ Len(MovedHeap(h, P, S, CHUNK)) = S
        /\ BlobsMoved(P, N, h, MovedHeap(h, P, S, CHUNK))
    BY <1>4, <1>6, <1>7, <1>8, MovedHeapIs
  <2> QED
    BY <1>5, <2>1
<1>10. IsSeq(g) /\ S \in Nat
  <2>1. N \in 0..N
    BY <1>1
  <2> QED
    BY <1>1, <1>2, <1>9, <2>1, TypedIsSeq
<1>11. ASSUME NEW p \in 1..S PROVE g[p] = u[p]
  <2>1. p - 1 \in Nat /\ p - 1 < SumTo(w, N)
    BY <1>2, <1>10 DEF T
  <2>2. PICK b \in 1..N : SumTo(w, b - 1) <= p - 1 /\ p - 1 < SumTo(w, b - 1) + w[b]
    <3>1. \A b \in 1..N : w[b] \in Nat
      BY <1>1
    <3> QED
      BY <1>1, <2>1, <3>1, SumToCovers
  <2> DEFINE o == sect[b].f.off
             m == w[b]
             z == T(b - 1)
             k == p - z
  <2>3. o \in Nat /\ m \in Nat /\ z \in Nat /\ z <= p - 1 /\ p - 1 < z + m /\ b <= N
    <3>1. b - 1 \in 0..N /\ b <= N
      BY <1>1
    <3> QED
      BY <1>1, <2>2, <3>1 DEF T
  <2>4. m > 0 => o + m <= L
    BY <1>3
  <2>5. P[b].old = o /\ P[b].n = m /\ (m # 0 => P[b].new = z)
    BY <1>1, <1>4
  <2>6. \A j \in 1..m : u[z + j] = sect[N + o + j]
    BY <1>2, <2>3
  <2> HIDE DEF o, m, z
  <2>7. k \in 1..m /\ z + k = p /\ o + k \in 1..L /\ m # 0
    BY <1>3, <1>10, <2>3, <2>4
  <2> HIDE DEF k
  <2>8. g[z + k] = h[o + k]
    BY <1>9, <2>5, <2>7 DEF BlobsMoved
  <2>9. h[o + k] = sect[N + (o + k)] /\ N + (o + k) = N + o + k
    BY <1>1, <1>7, <2>3, <2>7
  <2> QED
    BY <2>6, <2>7, <2>8, <2>9
<1>12. Len(u) = S
  BY DEF S
<1>13. g = u
  BY <1>2, <1>9, <1>10, <1>11, <1>12, SameSeq
<1> QED
  BY <1>13 DEF g, u

\* What repack makes of the heap, when nothing was clobbered: the packed units.
LEMMA RepackedHeap ==
  ASSUME Typed, Spare, ~tainted, harmed = "no", Repacks, "v" \in cols \/ ~Clobbers(Plans, cards.pcount, CHUNK),
         NEW D0, Content(cols, sect, cards.tiles, cards.pcount, sect, table, D0)
  PROVE  /\ PackedHeap = Packed.units
         /\ "v" \notin cols => SlabsTo(Packed.units, Packed.main, cards.tiles)
<1>1. CASE "v" \in cols
  BY <1>1 DEF PackedHeap
<1>2. CASE "v" \notin cols
  <2>1. Len(table) = cards.rows /\ cards.tiles = Tiles(cards.rows) /\ "f" \in cols
    BY DEF Typed
  <2>2. \A i \in 1..cards.tiles : sect[i].v.n = 0
    BY <1>2, <2>1 DEF Content, BlobSpells
  <2>3. SlabsTo(Packed.units, Packed.main, cards.tiles)
    BY <2>2, SlabsPacked
  <2>4. Claimed(sect, cards.tiles) <= cards.pcount
    BY <1>2 DEF Spare
  <2>5. \A i \in 1..cards.tiles : sect[i].f.n > 0 => sect[i].f.off + sect[i].f.n <= cards.pcount
    <3>1. \A i \in 1..cards.tiles : sect[i]["f"].n > 0 => sect[i]["f"].off + sect[i]["f"].n <= cards.pcount
      BY <2>1 DEF Repacks
    <3> QED
      BY <3>1
  <2>6. PackedHeap = Packed.units
    BY <1>2, <2>3, <2>4, <2>5, SlabsMoved
  <2> QED
    BY <2>3, <2>6
<1> QED
  BY <1>1, <1>2

\* The same descriptors lay the same claim.
LEMMA ClaimedSame ==
  ASSUME NEW n, NEW a, NEW b, \A i \in 1..n : a[i].f.n = b[i].f.n
  PROVE  Claimed(a, n) = Claimed(b, n)
<1>1. SlabSizes(a, n) = SlabSizes(b, n)
  BY DEF SlabSizes
<1> QED
  BY <1>1 DEF Claimed

\* Repack.
LEMMA RepackKeeps ==
  ASSUME TableInv, Spare, Repack
  PROVE  TableInv' /\ Spare'
<1> DEFINE u == Packed.units
           M == Packed.main
           N == cards.tiles
<1>0. /\ call = Idle /\ ~tainted /\ cards' = [cards EXCEPT !.pcount = Len(u)]
      /\ sect' = M \o PackedHeap
      /\ harmed' = (IF "v" \notin cols /\ Clobbers(Plans, cards.pcount, CHUNK) THEN "repack" ELSE harmed)
      /\ cache' = Clear(cache) /\ stale' = FALSE
      /\ cols' = cols /\ pending' = pending /\ tainted' = tainted /\ call' = call
      /\ table' = table /\ lost' = lost
  BY DEF Repack, Repacks
<1>1. Flags'
  BY <1>0 DEF TableInv, Flags
<1>2. CASE harmed' # "no"
  BY <1>1, <1>2, HarmedKeeps DEF Spare
<1>3. CASE harmed' = "no"
  <2>0. harmed = "no" /\ ("v" \in cols \/ ~Clobbers(Plans, cards.pcount, CHUNK))
    <3> DEFINE C == "v" \notin cols /\ Clobbers(Plans, cards.pcount, CHUNK)
    <3>1. harmed' = IF C THEN "repack" ELSE harmed
      BY <1>0
    <3>2. ~C /\ harmed = "no"
      <4> HIDE DEF C
      <4> QED
        BY <1>3, <3>1
    <3> QED
      BY <3>2
  <2>1. Typed /\ Room /\ CacheFits(cache) /\ \E D0 : Holding(D0)
    BY <1>0, <2>0, InvParts
  <2>2. PICK D0 : Holding(D0)
    BY <2>1
  <2>3. /\ D0 \in [1..cards.rows -> CellDescs] /\ Origs(D0, cards.rows, cards.zpcount)
        /\ Content(cols, sect, cards.tiles, cards.pcount, sect, table, D0)
    BY <1>0, <2>2 DEF Holding, Intact
  <2>4. PICK D : PackedTo(u, M, cards.tiles, cards.tiles, D0, D)
    BY <2>1, <2>3, PackedWorks
  <2>14. PackedHeap = u /\ ("v" \notin cols => SlabsTo(u, M, cards.tiles))
    <3>1. Repacks
      BY DEF Repack
    <3> QED
      BY <1>0, <2>0, <2>1, <2>3, <3>1, RepackedHeap
  <2> HIDE DEF u, M
  <2> DEFINE S == M \o u
  <2>5. /\ IsSeq(S) /\ cards.tiles <= Len(S) /\ \A i \in 1..cards.tiles : S[i] \in TileDescs
        /\ Len(u) \in Nat /\ D \in [1..cards.rows -> CellDescs]
        /\ Content(cols, S, cards.tiles, Len(u), S, table, D)
        /\ \A z : Origs(D0, cards.rows, z) => Origs(D, cards.rows, z)
    BY <2>1, <2>4, PackedHolds
  <2>15. \A i \in 1..cards.tiles : S[i] = M[i]
    <3>1. IsSeq(u) /\ M \in [1..N -> TileDescs] /\ N \in Nat
      BY <2>1, <2>4 DEF PackedTo, Typed
    <3> HIDE DEF N
    <3>2. M = [q \in 1..N |-> M[q]]
      BY <3>1
    <3>3. IsSeq(M) /\ Len(M) = N
      BY <3>1, <3>2, FunIsSeq
    <3>4. \A q \in 1..Len(M) : S[q] = M[q]
      BY <3>1, <3>3, ConcatIs
    <3> QED
      BY <3>3, <3>4 DEF N
  <2>6. sect' = S
    BY <1>0, <2>14
  <2> HIDE DEF S
  <2>7. /\ cards' \in [rows : Nat, tiles : Nat, pcount : Nat, zpcount : Nat]
        /\ cards'.rows = cards.rows /\ cards'.tiles = cards.tiles /\ cards'.pcount = Len(u)
        /\ cards'.zpcount = cards.zpcount
    BY <1>0, <2>1, <2>5 DEF Typed
  <2>8. SectOK'
    BY <2>5, <2>6, <2>7 DEF SectOK
  <2>16. harmed' = harmed
    BY <1>3, <2>0
  <2>9. Typed'
    BY <1>0, <2>1, <2>7, <2>8, <2>16 DEF Typed
  <2>10. Room'
    BY <1>0, <2>1, <2>7 DEF Room
  <2>11. CacheOK(Clear(cache), S, table, D, stale') /\ CacheFits(Clear(cache))
    BY <2>1, CacheCleared
  <2>12. Holding(D)'
    <3>1. /\ D \in [1..cards'.rows -> CellDescs] /\ Origs(D, cards'.rows, cards'.zpcount)
          /\ Content(cols', sect', cards'.tiles, cards'.pcount, sect', table', D)
          /\ CacheOK(cache', sect', table', D, stale')
      BY <1>0, <2>3, <2>5, <2>6, <2>7, <2>11
    <3> QED
      BY <1>0, <3>1 DEF Holding
  <2>13. TableInv'
    BY <1>0, <1>1, <2>9, <2>10, <2>11, <2>12 DEF TableInv
  <2>17. ASSUME "v" \notin cols PROVE Claimed(sect', cards'.tiles) <= cards'.pcount
    <3>1. /\ Len(u) = Claimed(sect, N)
          /\ \A i \in 1..N : M[i].f.n = SlabSizes(sect, N)[i]
      BY <2>14, <2>17 DEF SlabsTo, Claimed
    <3>2. \A i \in 1..N : sect'[i].f.n = sect[i].f.n
      BY <2>6, <2>15, <3>1 DEF SlabSizes
    <3>3. Claimed(sect', N) = Claimed(sect, N)
      BY <3>2, ClaimedSame
    <3> QED
      BY <2>5, <2>7, <3>1, <3>3
  <2> QED
    BY <1>0, <2>13, <2>17 DEF Spare
<1> QED
  BY <1>2, <1>3

-----------------------------------------------------------------------------
(* The claims of the other steps.                                          *)

\* A step that leaves the descriptors alone, and the call or ends it.
LEMMA SpareSame ==
  ASSUME Spare, cols' = cols, cards' = cards, harmed' = "no" => harmed = "no", ~tainted' => ~tainted,
         ~tainted /\ harmed = "no" => \A i \in 1..cards.tiles : sect'[i] = sect[i],
         call' = Idle \/ call' = call
  PROVE  Spare'
<1> SUFFICES ASSUME ~tainted, harmed = "no", "v" \notin cols
             PROVE  /\ Claimed(sect', cards.tiles) <= cards.pcount
                    /\ call' # Idle => Claimed(call'.main, call'.theap) <= call'.cur
  BY DEF Spare
<1>1. /\ Claimed(sect, cards.tiles) <= cards.pcount
      /\ call # Idle => Claimed(call.main, call.theap) <= call.cur
  BY DEF Spare
<1>2. Claimed(sect', cards.tiles) = Claimed(sect, cards.tiles)
  BY ClaimedSame
<1> QED
  BY <1>1, <1>2

\* Nothing sums to nothing.
LEMMA SumToZeros ==
  ASSUME NEW m \in Nat, NEW o, \A i \in 1..m : o[i] = 0
  PROVE  SumTo(o, m) = 0
<1>1. \A i \in 1..m : o[i] \in Nat
  OBVIOUS
<1>2. \A j \in 0..m : SumTo(o, j) \in Nat
  BY <1>1, SumToNat
<1>3. m \in 0..m
  OBVIOUS
<1>4. SumTo(o, m) \in Nat
  BY <1>2, <1>3
<1>5. ASSUME SumTo(o, m) > 0 PROVE FALSE
  <2>1. 0 \in Nat /\ 0 < SumTo(o, m)
    BY <1>4, <1>5
  <2>2. PICK j \in 1..m : SumTo(o, j - 1) <= 0 /\ 0 < SumTo(o, j - 1) + o[j]
    BY <1>1, <2>1, SumToCovers
  <2>3. j - 1 \in 0..m /\ o[j] = 0
    OBVIOUS
  <2>4. SumTo(o, j - 1) \in Nat
    BY <1>2, <2>3
  <2> QED
    BY <2>2, <2>3, <2>4
<1> QED
  BY <1>4, <1>5

\* A call that starts with the descriptors of the table, or with none.
LEMMA SpareBegins ==
  ASSUME Typed, Spare, ~tainted, harmed = "no", cols' = cols, cards' = cards,
         \A i \in 1..cards.tiles : sect'[i] = sect[i],
         call'.theap \in Nat, call'.cur \in Nat,
         \/ \A i \in 1..call'.theap : call'.main[i] = NoDescs
         \/ /\ call'.cur = cards.pcount
            /\ \A i \in 1..call'.theap : call'.main[i] = IF i <= cards.tiles THEN sect[i] ELSE NoDescs
  PROVE  Spare'
<1> DEFINE M == call'.main
           n == call'.theap
           N == cards.tiles
           v == SlabSizes(M, n)
           w == SlabSizes(sect, N)
           k == IF N < n THEN n - N ELSE 0
           e == [i \in 1..k |-> 0]
<1> SUFFICES ASSUME "v" \notin cols
             PROVE  /\ Claimed(sect', N) <= cards.pcount /\ Claimed(M, n) <= call'.cur
  BY DEF Spare
<1>1. Claimed(sect, N) <= cards.pcount /\ Claimed(sect', N) = Claimed(sect, N)
  BY ClaimedSame DEF Spare
<1>2. N \in Nat /\ n \in Nat /\ (\A i \in 1..N : w[i] \in Nat /\ w[i] = sect[i].f.n) /\ SumTo(w, N) \in Nat
  <2>1. N \in Nat /\ (\A i \in 1..N : w[i] \in Nat /\ w[i] = sect[i].f.n) /\ \A j \in 0..N : SumTo(w, j) \in Nat
    BY SlabSizesAre
  <2>2. N \in 0..N
    BY <2>1
  <2> QED
    BY <2>1, <2>2
<1>3. NoDescs.f.n = 0
  BY DEF NoDescs, Desc
<1>4. \A i \in 1..n : v[i] = M[i].f.n
  BY DEF SlabSizes
<1> HIDE DEF M, v, w, N, n
<1>6. CASE \A i \in 1..n : M[i] = NoDescs
  <2>1. \A i \in 1..n : v[i] = 0
    BY <1>3, <1>4, <1>6
  <2>2. SumTo(v, n) = 0
    BY <1>2, <2>1, SumToZeros
  <2> QED
    BY <1>1, <2>2 DEF Claimed, v
<1>7. CASE /\ call'.cur = cards.pcount
           /\ \A i \in 1..n : M[i] = IF i <= N THEN sect[i] ELSE NoDescs
  <2>1. k \in Nat /\ \A i \in 1..k : e[i] = 0
    BY <1>2
  <2>2. SumTo(e, k) = 0
    <3> HIDE DEF e, k
    <3> QED
      BY <2>1, SumToZeros
  <2>3. \A i \in 1..n : i \notin (N + 1)..(N + 1 + k - 1) <=> i <= N
    BY <1>2
  <2>4. \A i \in 1..n : i \in (N + 1)..(N + 1 + k - 1) => i - (N + 1) + 1 \in 1..k
    BY <1>2
  <2> HIDE DEF e, k
  <2>5. ASSUME NEW i \in 1..n
        PROVE  IF i \in (N + 1)..(N + 1 + k - 1) THEN v[i] = e[i - (N + 1) + 1] ELSE i <= N /\ v[i] = w[i]
    <3>1. CASE i <= N
      <4>1. i \in 1..N /\ i \notin (N + 1)..(N + 1 + k - 1)
        BY <1>2, <2>3, <3>1
      <4> QED
        BY <1>2, <1>4, <1>7, <3>1, <4>1
    <3>2. CASE ~(i <= N)
      <4>1. i \in (N + 1)..(N + 1 + k - 1)
        BY <2>3, <3>2
      <4>2. v[i] = 0 /\ e[i - (N + 1) + 1] = 0
        BY <1>3, <1>4, <1>7, <2>1, <2>4, <3>2, <4>1
      <4> QED
        BY <4>1, <4>2
    <3> QED
      BY <3>1, <3>2
  <2>6. IsPatch(v, w, e, N + 1, k, N, n)
    <3>1. N + 1 \in Nat /\ \A i \in 1..k : e[i] \in Nat
      BY <1>2, <2>1
    <3> QED
      BY <1>2, <2>1, <2>5, <3>1 DEF IsPatch
  <2>7. SumTo(v, n) <= SumTo(w, N) + SumTo(e, k)
    BY <2>6, SumToPatch
  <2>8. SumTo(v, n) <= SumTo(w, N)
    BY <1>2, <2>2, <2>7
  <2> DEFINE A == SumTo(v, n)
             B == SumTo(w, N)
  <2>9. B <= cards.pcount /\ cards.pcount \in Nat /\ A <= B /\ B \in Nat
    BY <1>1, <1>2, <2>8 DEF Typed, Claimed, w
  <2>10. A \in Nat
    <3>1. \A i \in 1..n : v[i] \in Nat
      BY <1>2, <1>3, <1>4, <1>7
    <3>2. \A j \in 0..n : SumTo(v, j) \in Nat
      BY <1>2, <3>1, SumToNat
    <3>3. n \in 0..n
      BY <1>2
    <3> QED
      BY <3>2, <3>3
  <2> HIDE DEF A, B
  <2>11. A <= cards.pcount
    BY <2>9, <2>10
  <2> QED
    BY <1>1, <1>7, <2>11 DEF A, Claimed, v
<1> QED
  BY <1>6, <1>7 DEF M, n, N

\* A call raises without a taint.
LEMMA SpareAbandoned ==
  ASSUME TableInv, Spare, call # Idle, NEW kind \in {"io", "value"}, Abandons(call, kind),
         UNCHANGED <<cols, cards, tainted>>
  PROVE  Spare'
<1>1. /\ cols' = cols /\ cards' = cards /\ tainted' = tainted /\ call' = Idle
      /\ harmed' = "no" => harmed = "no"
      /\ sect' = InUse(sect, [cards EXCEPT !.tiles = call.theap])
  <2> DEFINE H == /\ cards.pcount > 0
                  /\ (call.op = "write" /\ call.cur > 0) \/ call.theap > cards.tiles
  <2>1. harmed' = (IF H THEN kind ELSE harmed) /\ call' = Idle /\ sect' = InUse(sect, [cards EXCEPT !.tiles = call.theap])
    BY DEF Abandons
  <2> HIDE DEF H
  <2> QED
    BY <2>1
<1>2. ASSUME ~tainted, harmed = "no" PROVE \A i \in 1..cards.tiles : sect'[i] = sect[i]
  <2>1. Typed /\ CallOK(call)
    BY <1>2, CallRuns
  <2>2. /\ cards.tiles \in Nat /\ cards.pcount \in Nat /\ call.theap \in Nat /\ Len(call.data) \in Nat
        /\ cards.tiles = Tiles(cards.rows) /\ call.theap = Tiles(RowsAfter(call)) /\ cards.rows \in Nat
        /\ RowsAfter(call) \in Nat /\ call.cards = cards
    BY <2>1, CallParts
  <2>3. cards.tiles <= call.theap
    <3>1. cards.rows <= RowsAfter(call)
      BY <2>2 DEF RowsAfter
    <3> QED
      BY <2>2, <3>1, TilesGrow
  <2> DEFINE cds == [cards EXCEPT !.tiles = call.theap]
             m == call.theap + cards.pcount
  <2>4. cds.tiles = call.theap /\ cds.pcount = cards.pcount /\ m \in Nat
    BY <2>1, <2>2 DEF Typed
  <2>5. sect' = CutTo(sect, m)
    <3>1. sect' = InUse(sect, cds)
      BY <1>1
    <3> HIDE DEF cds
    <3> QED
      BY <2>4, <3>1 DEF InUse, CutTo
  <2>6. IsSeq(sect) /\ cards.tiles <= Len(sect) /\ Len(sect) \in Nat
    BY <2>1, SeqIsFun DEF Typed, SectOK
  <2>7. cards.tiles <= m
    BY <2>2, <2>3
  <2> HIDE DEF m
  <2>8. /\ Len(sect') = (IF Len(sect) < m THEN Len(sect) ELSE m)
        /\ \A q \in 1..Len(sect') : sect'[q] = sect[q]
    BY <2>4, <2>5, <2>6, FrontIs
  <2>9. cards.tiles <= Len(sect') /\ Len(sect') \in Nat
    BY <2>4, <2>6, <2>7, <2>8
  <2> QED
    BY <2>2, <2>8, <2>9
<1> QED
  BY <1>1, <1>2, SpareSame

\* EncodeTile: the tile claims what is written for it.
LEMMA SpareEncoded ==
  ASSUME TableInv, Spare, EncodeTile
  PROVE  Spare'
<1> DEFINE c == call
           x == First(c.todo)
           i == x.tile
           col == x.col
           e == Encoded(c, i, col)
           B == Rejected(c, i, col) \/ Undecodable(c, i, col)
<1>0. /\ call # Idle /\ c.todo # {} /\ cols' = cols /\ cards' = cards /\ tainted' = tainted
      /\ IF B THEN Abandons(c, "value")
         ELSE /\ sect' = WriteAt(sect, c.theap + c.cur + 1, e.units)
              /\ call' = [c EXCEPT !.todo = @ \ {x}, !.cur = @ + Len(e.units), !.zp = e.zp,
                                   !.main[i] = IF col = "f" THEN [@ EXCEPT !.f = e.desc]
                                               ELSE [@ EXCEPT !.v = e.desc]]
              /\ UNCHANGED <<harmed, lost>>
  BY DEF EncodeTile
<1>1. CASE B
  <2>1. Abandons(call, "value")
    <3> HIDE DEF B, e
    <3> QED
      BY <1>0, <1>1
  <2> HIDE DEF x, i, col, e, B
  <2> QED
    BY <1>0, <2>1, SpareAbandoned
<1>2. CASE ~B
  <2>1. /\ sect' = WriteAt(sect, c.theap + c.cur + 1, e.units)
        /\ call' = [c EXCEPT !.todo = @ \ {x}, !.cur = @ + Len(e.units), !.zp = e.zp,
                             !.main[i] = IF col = "f" THEN [@ EXCEPT !.f = e.desc]
                                         ELSE [@ EXCEPT !.v = e.desc]]
        /\ harmed' = harmed
    <3> HIDE DEF B, e, x, i, col
    <3> QED
      BY <1>0, <1>2
  <2>2. ~Undecodable(c, i, col)
    BY <1>2
  <2> HIDE DEF B
  <2> SUFFICES ASSUME ~tainted, harmed = "no", "v" \notin cols
               PROVE  /\ Claimed(sect', cards.tiles) <= cards.pcount
                      /\ Claimed(call'.main, call'.theap) <= call'.cur
    BY <1>0, <2>1 DEF Spare
  <2>3. Typed /\ CallOK(c)
    BY <1>0, CallRuns
  <2>4. PICK D0 : /\ Holding(D0) /\ D0 \in [1..cards.rows -> CellDescs]
                  /\ \E D : Work(cols, sect, cards, table, Result(call), call, D0, D)
    BY <1>0, CallRuns
  <2>5. PICK D : Work(cols, sect, cards, table, Result(call), call, D0, D)
    BY <2>4
  <2>6. x \in c.todo /\ col \in {"f", "v"} /\ x = [tile |-> i, col |-> col]
    BY <1>0, <2>3, FirstIsLeft
  <2>7. Left(c, i, col)
    BY <2>6 DEF Left
  <2>8. col = "f"
    <3>1. x \in [tile : 1..c.theap, col : c.cs] /\ c.cs \subseteq cols
      BY <2>3, <2>6, CallParts DEF CallOK
    <3>2. x.col \in cols
      BY <3>1
    <3> QED
      BY <2>6, <3>2
  <2> HIDE DEF x, i, col
  <2> DEFINE u == e.units
             d == e.desc
             z == e.zp
  <2>9. IsSeq(u) /\ d \in HeapDescs /\ z \in Nat /\ (c.op # "setitem" => z = c.zp)
    BY <2>2, <2>3, <2>4, <2>5, <2>6, <2>7, EncodedTyped
  <2>10. d.n = Len(u)
    <3> DEFINE s == Slab(IF c.op = "setitem" THEN PatchedSlab(c, i) ELSE NewSlab(c, i))
    <3>1. e = [units |-> s, desc |-> Desc(Len(s), c.cur), zp |-> c.zp]
      BY <2>8 DEF Encoded
    <3> HIDE DEF s, e
    <3> QED
      BY <3>1 DEF Desc
  <2>11. sect' = Grown(c, u) /\ Steps(c, i, col, u, d, z, call')
    <3>1. sect' = Grown(c, u)
      BY <2>1 DEF Grown
    <3> HIDE DEF e
    <3>2. Steps(c, i, col, u, d, z, call')
      BY <2>1, <2>6 DEF Steps
    <3> QED
      BY <3>1, <3>2
  <2> HIDE DEF e
  <2>12. Stepping(c, i, col, u, d, z, call', D0, D)
    BY <2>3, <2>4, <2>5, <2>6, <2>7, <2>9, <2>11 DEF Stepping
  <2> HIDE DEF u, d, z
  <2>13. \A k \in 1..cards.tiles : sect'[k] = sect[k]
    BY <2>11, <2>12, StepSection
  <2>14. Claimed(sect', cards.tiles) <= cards.pcount
    <3>1. Claimed(sect', cards.tiles) = Claimed(sect, cards.tiles)
      BY <2>13, ClaimedSame
    <3> QED
      BY <3>1 DEF Spare
  <2> DEFINE n == c.theap
             M2 == call'.main
             v == SlabSizes(M2, n)
             w == SlabSizes(c.main, n)
             y == [j \in 1..1 |-> d.n]
  <2>15. /\ i \in 1..n /\ call'.theap = n /\ call'.cur = c.cur + Len(u)
         /\ \A k \in 1..n : M2[k].f = IF k = i THEN d ELSE c.main[k].f
    <3>1. /\ i \in 1..c.theap /\ SameCall(c, call') /\ call'.cur = c.cur + Len(u)
          /\ \A k \in 1..c.theap : call'.main[k].f = IF k = i /\ col = "f" THEN d ELSE c.main[k].f
      BY <2>12, StepParts
    <3> QED
      BY <2>8, <3>1 DEF SameCall
  <2>16. n \in Nat /\ c.cur \in Nat /\ c.main \in Seq(TileDescs) /\ Len(c.main) = n
    BY <2>3, CallParts
  <2>17. d.n \in Nat /\ Len(u) \in Nat
    BY <2>9, SeqIsFun DEF HeapDescs
  <2>18. \A k \in 1..n : w[k] = c.main[k].f.n /\ w[k] \in Nat /\ v[k] = M2[k].f.n
    <3>1. \A k \in 1..n : c.main[k] \in TileDescs
      BY <2>16, ElementOfSeq
    <3> QED
      BY <3>1 DEF SlabSizes, TileDescs, HeapDescs
  <2>19. SumTo(w, n) <= c.cur
    BY <1>0 DEF Spare, Claimed
  <2> HIDE DEF v, w, M2, n
  <2>20. SumTo(v, n) <= SumTo(w, n) + SumTo(y, 1)
    <3>1. \A k \in 1..n : IF k \in i..(i + 1 - 1) THEN v[k] = y[k - i + 1] ELSE k <= n /\ v[k] = w[k]
      <4> TAKE k \in 1..n
      <4>1. k \in Int /\ i \in Int /\ k <= n
        BY <2>15, <2>16
      <4>2. k \in i..(i + 1 - 1) <=> k = i
        BY <4>1
      <4>3. CASE k = i
        <5>1. k - i + 1 = 1 /\ y[1] = d.n
          BY <4>1, <4>3
        <5> QED
          BY <2>15, <2>18, <4>2, <4>3, <5>1
      <4>4. CASE k # i
        BY <2>15, <2>18, <4>1, <4>2, <4>4
      <4> QED
        BY <4>3, <4>4
    <3>2. i \in Nat /\ 1 \in Nat /\ \A j \in 1..1 : y[j] \in Nat
      BY <2>15, <2>17
    <3> HIDE DEF y
    <3>3. IsPatch(v, w, y, i, 1, n, n)
      BY <2>16, <2>18, <3>1, <3>2 DEF IsPatch
    <3> QED
      BY <3>3, SumToPatch
  <2>21. SumTo(y, 1) = d.n
    <3>1. \A j \in 1..1 : y[j] \in Nat
      BY <2>17
    <3>2. y[1] = d.n
      OBVIOUS
    <3> HIDE DEF y
    <3>3. 1 \in Nat /\ 1 \in 1..1 /\ 1 - 1 = 0
      OBVIOUS
    <3>4. SumTo(y, 1) = SumTo(y, 1 - 1) + y[1]
      BY <3>1, <3>3, SumToNat
    <3>5. SumTo(y, 0) = 0
      BY SumToUnfolds
    <3> QED
      BY <2>17, <3>2, <3>3, <3>4, <3>5
  <2>22. SumTo(v, n) \in Nat /\ SumTo(w, n) \in Nat
    <3>1. \A k \in 1..n : v[k] \in Nat
      BY <2>15, <2>17, <2>18
    <3>2. n \in 0..n
      BY <2>16
    <3>3. (\A k \in 0..n : SumTo(v, k) \in Nat) /\ \A k \in 0..n : SumTo(w, k) \in Nat
      BY <2>16, <2>18, <3>1, SumToNat
    <3> QED
      BY <3>2, <3>3
  <2> DEFINE p == SumTo(v, n)
             q == SumTo(w, n)
             r == SumTo(y, 1)
  <2>23. p <= q + r /\ r = d.n /\ p \in Nat /\ q \in Nat /\ q <= c.cur
    BY <2>19, <2>20, <2>21, <2>22
  <2> HIDE DEF p, q, r
  <2>24. p <= call'.cur
    BY <2>10, <2>15, <2>16, <2>17, <2>23
  <2> QED
    BY <2>14, <2>15, <2>24 DEF Claimed, p, v, M2
<1> QED
  BY <1>1, <1>2

\* Commit: what the call claims becomes what the table claims.
LEMMA SpareCommitted ==
  ASSUME TableInv, Spare, Commit
  PROVE  Spare'
<1> DEFINE c == call
<1>0. /\ call # Idle /\ c.todo = {} /\ sect' = InUse(WriteAt(sect, 1, c.main), NewCards(c)) /\ cards' = NewCards(c)
      /\ call' = Idle /\ cols' = cols /\ tainted' = tainted /\ harmed' = harmed
  BY DEF Commit
<1> SUFFICES ASSUME ~tainted, harmed = "no", "v" \notin cols
             PROVE  Claimed(sect', cards'.tiles) <= cards'.pcount
  BY <1>0 DEF Spare
<1>1. Typed /\ CallOK(c)
  BY <1>0, CallRuns
<1>2. PICK D0 : \E D : Work(cols, sect, cards, table, Result(call), call, D0, D)
  BY <1>0, CallRuns
<1>3. PICK D : Work(cols, sect, cards, table, Result(call), call, D0, D)
  BY <1>2
<1>4. cards'.tiles = c.theap /\ cards'.pcount = c.cur
  BY <1>0, <1>1, NewCardsAre
<1>5. sect' = CutTo(WriteAt(sect, 1, c.main), c.theap + c.cur)
  BY <1>0, <1>4 DEF InUse, CutTo
<1>6. \A k \in 1..c.theap : sect'[k] = c.main[k]
  BY <1>0, <1>1, <1>3, <1>5, CommitHolds
<1>7. Claimed(sect', c.theap) = Claimed(c.main, c.theap)
  BY <1>6, ClaimedSame
<1> QED
  BY <1>0, <1>4, <1>7 DEF Spare

\* BeginWrite and BeginSetItem.
LEMMA SpareBegun ==
  ASSUME TableInv, Spare, NEW c, call' = c, call = Idle, UNCHANGED <<cols, cards, sect, tainted, harmed>>,
         \/ \E todo, data : c = Call("write", todo, data, <<>>, cols, [i \in 1..cards.tiles |-> NoDescs], cards.tiles)
         \/ \E todo, data, at, cs : c = Call("setitem", todo, data, at, cs, SubSeq(sect, 1, cards.tiles), cards.tiles)
  PROVE  Spare'
<1>1. CASE tainted \/ harmed # "no"
  BY <1>1 DEF Spare
<1>2. CASE ~tainted /\ harmed = "no"
  <2> DEFINE N == cards.tiles
  <2>1. Typed
    BY <1>2, InvParts
  <2>2. N \in Nat /\ cards.pcount \in Nat
    BY <2>1 DEF Typed
  <2>3. CASE \E todo, data : c = Call("write", todo, data, <<>>, cols, [i \in 1..N |-> NoDescs], N)
    <3> DEFINE main == [i \in 1..N |-> NoDescs]
    <3>1. PICK todo, data : c = Call("write", todo, data, <<>>, cols, main, N)
      BY <2>3
    <3>2. \A i \in 1..N : main[i] = NoDescs
      OBVIOUS
    <3> HIDE DEF main, N
    <3>3. c.main = main /\ c.theap = N /\ c.cur = 0
      BY <3>1, CallIs
    <3>4. call'.theap \in Nat /\ call'.cur \in Nat /\ \A i \in 1..call'.theap : call'.main[i] = NoDescs
      BY <2>2, <3>2, <3>3
    <3> QED
      BY <1>2, <2>1, <3>4, SpareBegins
  <2>4. CASE \E todo, data, at, cs : c = Call("setitem", todo, data, at, cs, SubSeq(sect, 1, N), N)
    <3> DEFINE main == SubSeq(sect, 1, N)
               z == 0
    <3>1. PICK todo, data, at, cs : c = Call("setitem", todo, data, at, cs, main, N)
      BY <2>4
    <3>2. z + 1 = 1 /\ z + N = N /\ z \in Nat /\ \A k \in 1..N : z + k = k /\ k <= N
      BY <2>2
    <3>3. main = SubSeq(sect, z + 1, z + N)
      <4> HIDE DEF z, N
      <4> QED
        BY <3>2, Zenon DEF main
    <3> HIDE DEF main, N, z
    <3>4. \A q \in 1..N : main[q] = sect[z + q]
      <4>1. LET u == SubSeq(sect, z + 1, z + N)
            IN  IsSeq(u) /\ Len(u) = N /\ \A q \in 1..N : u[q] = sect[z + q]
        BY <2>2, <3>2, RangeIs
      <4> QED
        BY <3>3, <4>1, Zenon
    <3>5. \A q \in 1..N : main[q] = sect[q]
      BY <3>2, <3>4
    <3>6. c.main = main /\ c.theap = N /\ c.cur = cards.pcount
      BY <3>1, CallIs
    <3>7. call'.theap \in Nat /\ call'.cur \in Nat /\ call'.cur = cards.pcount
      BY <2>2, <3>6
    <3>8. \A i \in 1..call'.theap : call'.main[i] = IF i <= cards.tiles THEN sect[i] ELSE NoDescs
      BY <3>2, <3>5, <3>6 DEF N
    <3>9. \A i \in 1..cards.tiles : sect'[i] = sect[i]
      OBVIOUS
    <3> QED
      BY <1>2, <2>1, <3>7, <3>8, <3>9, SpareBegins
  <2> QED
    BY <2>3, <2>4
<1> QED
  BY <1>1, <1>2

\* StartAppend.
LEMMA SpareAppends ==
  ASSUME TableInv, Spare, call = Idle, ~tainted, NEW data, NEW b \in BOOLEAN,
         harmed = "no" => data \in Seq(RowVals) /\ Len(data) > 0,
         StartAppend(data, b), cols' = cols, cards' = cards, tainted' = tainted
  PROVE  Spare'
<1> DEFINE c == [AppendCall(data) EXCEPT !.buffered = b]
           S2 == Relocated(Len(data))
<1>1. \/ /\ Decodable(Len(data)) /\ sect' = S2 /\ call' = c /\ harmed' = harmed
      \/ harmed' = "io"
      \/ call' = Idle /\ sect' = sect /\ harmed' = harmed
  BY DEF StartAppend
<1>2. CASE harmed' # "no"
  BY <1>2 DEF Spare
<1>3. CASE call' = Idle /\ sect' = sect /\ harmed' = harmed
  BY <1>3, SpareSame
<1>4. CASE harmed = "no" /\ Decodable(Len(data)) /\ sect' = S2 /\ call' = c /\ harmed' = harmed
  <2>1. Typed
    BY <1>4, InvParts
  <2>2. PICK D0 : Holding(D0)
    BY <1>4, InvParts
  <2>3. data \in Seq(RowVals) /\ Len(data) > 0 /\ Len(data) \in Nat
    BY <1>4
  <2>4. D0 \in [1..cards.rows -> CellDescs] /\ Content(cols, sect, cards.tiles, cards.pcount, sect, table, D0)
    BY <2>2 DEF Holding, Intact
  <2>5. /\ CallOK(c) /\ c.cur = cards.pcount
        /\ \A i \in 1..c.theap : c.main[i] = IF i <= cards.tiles THEN sect[i] ELSE NoDescs
    <3>1. /\ CallOK(c) /\ c.op = "append" /\ c.data = data /\ c.theap = Tiles(cards.rows + Len(data))
          /\ c.cur = cards.pcount
          /\ \A i \in 1..c.theap : c.main[i] = IF i <= cards.tiles THEN sect[i] ELSE NoDescs
          /\ \A i, col : Left(c, i, col) <=> i \in 1..c.theap /\ cards.rows < i * TileRows /\ col \in cols
          /\ MergeOK(cols, sect, cards, table, c, D0)
      BY <1>4, <2>1, <2>3, <2>4, AppendCallIs, ZenonT(40)
    <3> HIDE DEF c
    <3> QED
      BY <3>1
  <2> HIDE DEF c
  <2>6. \A k \in 1..cards.tiles : S2[k] = sect[k]
    BY <2>1, <2>3, RelocatedIs
  <2>7. c.theap \in Nat /\ c.cur \in Nat
    BY <2>1, <2>5, CallParts
  <2> HIDE DEF S2
  <2> QED
    BY <1>4, <2>1, <2>5, <2>6, <2>7, SpareBegins
<1> QED
  BY <1>1, <1>2, <1>3, <1>4

-----------------------------------------------------------------------------
(* The invariant holds.                                                    *)

\* A new table: descriptors of nothing, and no heap.
LEMMA InitInv ==
  ASSUME Init
  PROVE  TableInv
<1> DEFINE n == cards.rows
           th == cards.tiles
           row == [f |-> 0, v |-> Blank(cols)]
           D0 == [r \in 1..n |-> Zero]
<1>1. /\ cols \in {{"f"}, {"f", "v"}} /\ sect = [i \in 1..th |-> NoDescs] /\ pending = NoBuffer /\ tainted = FALSE
      /\ call = Idle /\ harmed = "no" /\ stale = FALSE /\ lost = FALSE /\ table = [r \in 1..n |-> row]
  BY DEF Init, Blank
<1>2. PICK m \in {0, TileRows + 1} : cards = [rows |-> m, tiles |-> Tiles(m), pcount |-> 0, zpcount |-> 0]
  BY DEF Init
<1>3. m \in Nat /\ m <= MaxRows /\ Tiles(m) \in Nat /\ MaxRows \in Nat
  <2>1. m \in Nat /\ m <= MaxRows /\ MaxRows \in Nat
    BY TableAssumption
  <2> QED
    BY <2>1, TilesHold
<1>4. /\ n = m /\ th = Tiles(n) /\ cards.pcount = 0 /\ cards.zpcount = 0 /\ n \in Nat /\ n <= MaxRows /\ th \in Nat
      /\ cards \in [rows : Nat, tiles : Nat, pcount : Nat, zpcount : Nat]
  BY <1>2, <1>3
<1>5. row \in TableRows
  BY DEF TableRows, Blank, NoCell
<1>6. NoDescs \in TileDescs /\ NoDescs.f.n = 0 /\ NoDescs.v.n = 0 /\ Zero \in CellDescs /\ Zero.n = 0
  BY DEF NoDescs, TileDescs, HeapDescs, Desc, Zero, CellDescs
<1>7. row.f = 0 /\ row.v = Blank(cols)
  OBVIOUS
<1> HIDE DEF n, th, row
<1>8. table \in Seq(TableRows) /\ Len(table) = n /\ \A r \in 1..n : table[r] = row
  BY <1>1, <1>4, <1>5
<1>9. IsSeq(sect) /\ Len(sect) = th /\ \A i \in 1..th : sect[i] = NoDescs
  <2>1. sect = [i \in 1..th |-> sect[i]] /\ \A i \in 1..th : sect[i] = NoDescs
    BY <1>1
  <2> QED
    BY <1>4, <2>1, FunIsSeq
<1>10. SectOK
  <2>1. th <= Len(sect) /\ \A i \in 1..th : sect[i] \in TileDescs
    BY <1>4, <1>6, <1>9
  <2> QED
    BY <1>9, <2>1 DEF SectOK, th
<1>11. pending \in [on : BOOLEAN, rows : Seq(RowVals)] /\ pending.rows = <<>> /\ Len(pending.rows) = 0
  BY <1>1 DEF NoBuffer
<1>12. Typed
  BY <1>1, <1>4, <1>8, <1>10, <1>11 DEF Typed, n, th
<1>13. Room
  <2>1. cards.rows + 0 + Len(pending.rows) <= MaxRows
    BY <1>4, <1>11 DEF n
  <2> QED
    BY <1>1, <1>11, <2>1 DEF Room
<1>14. CacheFits(cache) /\ CacheOK(cache, sect, table, D0, stale)
  <2>1. PICK cap \in Capacities : cache = EmptyCache(cap)
    BY DEF Init
  <2>2. cap \in Nat /\ Sized({})
    BY BufferAssumption DEF Sized
  <2>3. Budget({}, cache) /\ cache.cur <= cache.cap
    BY <2>1, <2>2, EmptyBudget
  <2> HIDE DEF D0
  <2> QED
    BY <2>3 DEF CacheFits, CacheOK
<1>15. D0 \in [1..n -> CellDescs] /\ \A r \in 1..n : D0[r] = Zero
  BY <1>6
<1> HIDE DEF D0
<1>16. Origs(D0, n, cards.zpcount)
  <2>1. \A r \in 1..n : ~(D0[r].n > 0)
    BY <1>6, <1>15
  <2> QED
    BY <2>1 DEF Origs
<1>17. Content(cols, sect, th, cards.pcount, sect, table, D0)
  <2> SUFFICES ASSUME NEW i \in 1..Tiles(Len(table))
               PROVE  /\ SlabSpells(sect, th, cards.pcount, sect[i].f, i, table)
                      /\ BlobSpells(cols, sect, th, cards.pcount, sect[i].v, i, table, D0)
    BY DEF Content
  <2>1. sect[i].f.n = 0 /\ sect[i].v.n = 0
    BY <1>4, <1>6, <1>8, <1>9
  <2>2. \A j \in 1..TileLen(i, Len(table)) : RowOf(i, j) \in 1..n
    BY <1>4, <1>8, PlaceRow
  <2>3. \A j \in 1..TileLen(i, Len(table)) :
          table[RowOf(i, j)].f = 0 /\ table[RowOf(i, j)].v = Blank(cols) /\ D0[RowOf(i, j)] = Zero
    BY <1>7, <1>8, <1>15, <2>2
  <2> QED
    BY <2>1, <2>3 DEF SlabSpells, BlobSpells
<1>18. Holding(D0)
  BY <1>1, <1>14, <1>15, <1>16, <1>17 DEF Holding, n, th
<1>19. Flags
  BY <1>1 DEF Flags
<1> QED
  BY <1>1, <1>12, <1>13, <1>14, <1>18, <1>19 DEF TableInv

\* It claims nothing.
LEMMA InitSpare ==
  ASSUME Init
  PROVE  Spare
<1> DEFINE N == cards.tiles
           w == SlabSizes(sect, N)
<1>1. sect = [i \in 1..N |-> NoDescs] /\ call = Idle
  BY DEF Init
<1>2. N \in Nat /\ cards.pcount = 0
  <2>1. PICK m \in {0, TileRows + 1} : cards = [rows |-> m, tiles |-> Tiles(m), pcount |-> 0, zpcount |-> 0]
    BY DEF Init
  <2>2. m \in Nat
    BY TableAssumption
  <2>3. Tiles(m) \in Nat
    BY <2>2, TilesHold
  <2> QED
    BY <2>1, <2>3
<1>3. \A i \in 1..N : w[i] = 0
  <2>1. NoDescs.f.n = 0
    BY DEF NoDescs, Desc
  <2>2. \A i \in 1..N : sect[i] = NoDescs
    BY <1>1
  <2> QED
    BY <2>1, <2>2 DEF SlabSizes
<1> HIDE DEF N, w
<1>4. SumTo(w, N) = 0
  BY <1>2, <1>3, SumToZeros
<1>5. Claimed(sect, N) = 0
  BY <1>4 DEF Claimed, w
<1> QED
  BY <1>1, <1>2, <1>5 DEF Spare, N

\* A step that changes nothing.
LEMMA StutterKeeps ==
  ASSUME TableInv, Spare, UNCHANGED vars
  PROVE  TableInv' /\ Spare'
<1>1. /\ cols' = cols /\ cards' = cards /\ sect' = sect /\ cache' = cache /\ pending' = pending
      /\ tainted' = tainted /\ call' = call /\ table' = table /\ harmed' = harmed /\ stale' = stale /\ lost' = lost
  BY DEF vars
<1>2. Flags' /\ (Typed <=> Typed') /\ (Room <=> Room')
  BY <1>1 DEF TableInv, Flags, Typed, SectOK, Room, CallOK, Calls
<1>3. ASSUME NEW D0, Holding(D0) PROVE Holding(D0)'
  <2>1. Result(call)' = Result(call)
    BY <1>1 DEF Result, Row
  <2>2. Intact' <=> Intact
    BY <1>1 DEF Intact
  <2> QED
    BY <1>1, <1>3, <2>1, <2>2 DEF Holding
<1>4. Spare'
  BY <1>1, SpareSame
<1> QED
  BY <1>1, <1>2, <1>3, <1>4 DEF TableInv

\* Every action.
LEMMA NextKeeps ==
  ASSUME TableInv, Spare, Next
  PROVE  TableInv' /\ Spare'
<1>1. ASSUME NEW data \in Data(TileRows) PROVE data \in Seq(RowVals) /\ Len(data) > 0
  <2>1. PICK m \in 1..TileRows : data \in [1..m -> RowVals]
    BY DEF Data
  <2>2. m \in Nat /\ m > 0
    BY TableAssumption
  <2> QED
    BY <2>1, <2>2
<1>2. CASE \E i \in 1..cards.tiles, col \in cols : ReadTile(i, col)
  <2>1. UNCHANGED <<cols, cards, sect, tainted, call, harmed>>
    BY <1>2 DEF ReadTile, ghosts
  <2> QED
    BY <1>2, <2>1, ReadTileKeeps, SpareSame
<1>3. CASE \E data \in [1..cards.rows -> RowVals] : BeginWrite(data)
  <2>1. PICK data \in [1..cards.rows -> RowVals] : BeginWrite(data)
    BY <1>3
  <2>2. /\ call = Idle /\ UNCHANGED <<cols, cards, sect, tainted, harmed>>
        /\ call' = Call("write", Todo(1..cards.tiles, cols), data, <<>>, cols,
                        [i \in 1..cards.tiles |-> NoDescs], cards.tiles)
    BY <2>1 DEF BeginWrite, ghosts
  <2>3. Spare'
    BY <2>2, SpareBegun
  <2> QED
    BY <2>1, <2>3, BeginWriteKeeps
<1>4. CASE \E data \in Data(TileRows) : AppendRows(data)
  <2>1. PICK data \in Data(TileRows) : AppendRows(data)
    BY <1>4
  <2>2. /\ call = Idle /\ ~tainted /\ StartAppend(data, FALSE) /\ cols' = cols /\ cards' = cards /\ tainted' = tainted
    BY <2>1 DEF AppendRows
  <2>3. data \in Seq(RowVals) /\ Len(data) > 0
    BY <1>1
  <2>4. Spare'
    BY <2>2, <2>3, SpareAppends
  <2> QED
    BY <2>1, <2>3, <2>4, AppendRowsKeeps
<1>5. CASE \E at \in RowKeys, cs \in SUBSET cols \ {{}} :
             /\ ToSet(at) \subseteq 1..cards.rows
             /\ \E data \in [DOMAIN at -> RowVals] : BeginSetItem(at, cs, data)
  <2>1. PICK at \in RowKeys, cs \in SUBSET cols \ {{}} :
          /\ ToSet(at) \subseteq 1..cards.rows
          /\ \E data \in [DOMAIN at -> RowVals] : BeginSetItem(at, cs, data)
    BY <1>5
  <2>2. PICK data \in [DOMAIN at -> RowVals] : BeginSetItem(at, cs, data)
    BY <2>1
  <2>3. /\ call = Idle /\ UNCHANGED <<cols, cards, sect, tainted, harmed>>
        /\ call' = Call("setitem", Todo({TileOfRow(at[k]) : k \in DOMAIN at}, cs),
                        data, at, cs, SubSeq(sect, 1, cards.tiles), cards.tiles)
    BY <2>2 DEF BeginSetItem, ghosts
  <2>4. Spare'
    BY <2>3, SpareBegun
  <2> QED
    BY <2>1, <2>2, <2>4, BeginSetItemKeeps
<1>6. CASE EncodeTile \/ Commit
  BY <1>6, EncodeKeeps, CommitKeeps, SpareEncoded, SpareCommitted
<1>7. CASE Repack
  BY <1>7, RepackKeeps
<1>8. CASE CallFails \/ RepackFails
  <2>1. \/ tainted' = TRUE
        \/ call # Idle /\ Abandons(call, "io") /\ UNCHANGED <<cols, cards, tainted>>
    BY <1>8 DEF CallFails, RepackFails
  <2>2. Spare'
    BY <2>1, SpareAbandoned DEF Spare
  <2> QED
    BY <1>8, <2>2, FailureKeeps
<1>9. CASE (\E data \in Data(TileRows) : BufferRows(data)) \/ ExitContext
  <2>1. PICK out : Drains(out)
    BY <1>1, <1>9, BufferRowsDrains, ExitContextDrains
  <2>2. /\ call = Idle /\ ~tainted /\ cols' = cols /\ cards' = cards /\ tainted' = tainted
        /\ \/ sect' = sect /\ call' = call /\ harmed' = harmed
           \/ StartAppend(out, TRUE) /\ (harmed = "no" => out \in Seq(RowVals) /\ Len(out) > 0)
    BY <2>1 DEF Drains
  <2>3. Spare'
    BY <2>2, SpareSame, SpareAppends
  <2> QED
    BY <2>1, <2>3, DrainKeeps
<1>10. CASE EnterContext
  <2>1. UNCHANGED <<cols, cards, sect, tainted, call, harmed>>
    BY <1>10 DEF EnterContext, ghosts
  <2> QED
    BY <1>10, <2>1, EnterContextKeeps, SpareSame
<1>11. CASE (\E cap \in Capacities : ResizeCache(cap)) \/ ClearCache
  <2>1. UNCHANGED <<cols, cards, sect, tainted, call, harmed>>
    BY <1>11 DEF ResizeCache, ClearCache, ghosts
  <2> QED
    BY <1>11, <2>1, CacheCallsKeep, SpareSame
<1> QED
  BY <1>2, <1>3, <1>4, <1>5, <1>6, <1>7, <1>8, <1>9, <1>10, <1>11 DEF Next

\* The inductive invariant: as long as no call has harmed the data, every descriptor leads
\* to units that spell its rows, whatever is at work, and a table of fixed columns claims no
\* more than its heap has, so that its repack shrinks it.
THEOREM TableInvHolds == Spec => [](TableInv /\ Spare)
<1>1. Init => TableInv /\ Spare
  BY InitInv, InitSpare
<1>2. TableInv /\ Spare /\ [Next]_vars => (TableInv /\ Spare)'
  BY NextKeeps, StutterKeeps
<1> QED
  BY <1>1, <1>2, PTL DEF Spec

-----------------------------------------------------------------------------
(* The properties.                                                         *)

\* A file that is settled holds what table says.
LEMMA SettledHolds ==
  ASSUME TableInv, Settled
  PROVE  /\ Typed /\ harmed = "no" /\ ~tainted
         /\ \E D0 : /\ D0 \in [1..cards.rows -> CellDescs] /\ Origs(D0, cards.rows, cards.zpcount)
                    /\ Content(cols, sect, cards.tiles, cards.pcount, sect, table, D0)
                    /\ CacheOK(cache, sect, table, D0, stale)
<1>1. ~tainted /\ harmed = "no"
  BY DEF Settled
<1>2. Typed /\ \E D0 : Holding(D0)
  BY <1>1, InvParts
<1>3. Intact
  <2>1. CASE call = Idle
    BY <2>1 DEF Intact
  <2>2. CASE call # Idle
    <3>1. CallOK(call) /\ cards.tiles = Tiles(cards.rows)
      BY <1>2, <2>2 DEF Typed
    <3>2. call.theap = Tiles(RowsAfter(call)) /\ call.cards = cards
      BY <1>2, <3>1, CallParts
    <3>3. call.op # "write" /\ (call.op = "setitem" \/ call.theap = cards.tiles)
      BY <2>2 DEF Settled
    <3>4. call.op = "setitem" => RowsAfter(call) = cards.rows
      BY <3>2 DEF RowsAfter
    <3>5. call.theap = cards.tiles
      BY <3>1, <3>2, <3>3, <3>4
    <3> QED
      BY <3>3, <3>5 DEF Intact
  <2> QED
    BY <2>1, <2>2
<1>4. PICK D0 : Holding(D0)
  BY <1>2
<1> QED
  BY <1>1, <1>2, <1>3, <1>4 DEF Holding

\* What a read of one row gets from the tiles f and b and the cell c.
RowRead(f, c, j) ==
    [ok |-> f.ok /\ ("v" \in cols => c.ok),
     f |-> IF f.ok THEN f.of[j] ELSE 0,
     v |-> IF c.ok THEN c.of ELSE <<>>]
CellRead(b, j) == IF b.ok THEN CellAt(b.of[j], cards.tiles) ELSE Wrong

RightRow(got, want) ==
    IF want.f = 0 \/ want.v = NoCell THEN ~got.ok ELSE got = [ok |-> TRUE, f |-> want.f, v |-> want.v]

\* Row r of the file is row r of table, or its read raises where nothing was written.
LEMMA RowFound ==
  ASSUME Typed, NEW D0 \in [1..cards.rows -> CellDescs],
         Content(cols, sect, cards.tiles, cards.pcount, sect, table, D0), NEW r \in 1..cards.rows
  PROVE  LET i == TileOfRow(r)
             j == PlaceOfRow(r)
             f == SlabAt(i, cards.rows, cards.tiles)
             c == CellRead(BlobAt(i, cards.rows, cards.tiles), j)
         IN  RightRow(RowRead(f, c, j), table[r])
<1> DEFINE n == cards.rows
           th == cards.tiles
           i == TileOfRow(r)
           j == PlaceOfRow(r)
           f == SlabAt(i, n, th)
           b == BlobAt(i, n, th)
           c == CellRead(b, j)
           want == table[r]
           df == sect[i].f
           dv == sect[i].v
           x == SlabOf(table, i)
           y == DescsOf(D0, i, n)
<1>1. n \in Nat /\ th \in Nat /\ th = Tiles(n) /\ table \in Seq(TableRows) /\ Len(table) = n /\ IsSeq(sect)
  BY DEF Typed, SectOK
<1>2. i \in 1..th /\ j \in 1..TileLen(i, n) /\ RowOf(i, j) = r
  BY <1>1, RowPlace
<1>3. want \in TableRows /\ D0[r] \in CellDescs
  BY <1>1, ElementOfSeq
<1> HIDE DEF i, j
<1>4. /\ f = Decoded(df, x) /\ b = Decoded(dv, y)
      /\ BlobSpells(cols, sect, th, cards.pcount, dv, i, table, D0)
      /\ SlabSpells(sect, th, cards.pcount, df, i, table)
  BY <1>1, <1>2, OldTiles
<1>5. x[j] = want.f /\ y[j] = D0[r]
  <2>1. x[j] = table[RowOf(i, j)].f /\ y[j] = D0[RowOf(i, j)]
    BY <1>1, <1>2 DEF SlabOf, DescsOf
  <2> QED
    BY <1>2, <2>1
<1> HIDE DEF f, b, x, y
<1>6. /\ df.n = 0 => f = Wrong /\ want.f = 0
      /\ df.n # 0 => f = Right(x) /\ want.f # 0
  <2>1. (df.n = 0 /\ table[RowOf(i, j)].f = 0) \/ (df.n # 0 /\ table[RowOf(i, j)].f # 0)
    BY <1>1, <1>2, <1>4 DEF SlabSpells
  <2> QED
    BY <1>2, <1>4, <2>1 DEF Decoded
<1>7. CASE dv.n = 0
  <2>1. c = Wrong /\ want.v = Blank(cols)
    <3>1. table[RowOf(i, j)].v = Blank(cols)
      BY <1>1, <1>2, <1>4, <1>7 DEF BlobSpells
    <3>2. b = Wrong
      BY <1>4, <1>7 DEF Decoded
    <3> QED
      BY <1>2, <3>1, <3>2 DEF CellRead, Wrong
  <2>2. CASE "v" \in cols
    <3>1. want.v = NoCell
      BY <2>1, <2>2 DEF Blank
    <3>2. ~c.ok
      BY <2>1 DEF Wrong
    <3>3. ~RowRead(f, c, j).ok
      BY <2>2, <3>2 DEF RowRead
    <3> QED
      BY <3>1, <3>3 DEF RightRow, n, th, f, b, i, j
  <2>3. CASE "v" \notin cols
    <3>1. want.v = <<>> /\ ~c.ok /\ <<>> # NoCell
      BY <2>1, <2>3 DEF Blank, Wrong, NoCell
    <3>2. CASE df.n = 0
      <4>1. want.f = 0 /\ ~f.ok
        BY <1>6, <3>2 DEF Wrong
      <4>2. ~RowRead(f, c, j).ok
        BY <4>1 DEF RowRead
      <4> QED
        BY <4>1, <4>2 DEF RightRow, n, th, f, b, i, j
    <3>3. CASE df.n # 0
      <4>1. want.f # 0 /\ f.ok = TRUE /\ f.of[j] = want.f
        BY <1>5, <1>6, <3>3 DEF Right
      <4> HIDE DEF c, want
      <4>2. RowRead(f, c, j) = [ok |-> TRUE, f |-> want.f, v |-> want.v]
        BY <2>3, <3>1, <4>1 DEF RowRead
      <4> QED
        BY <3>1, <4>1, <4>2 DEF RightRow, n, th, f, b, i, j, c, want
    <3> QED
      BY <3>2, <3>3
  <2> QED
    BY <2>2, <2>3
<1>8. CASE dv.n # 0
  <2>1. "v" \in cols /\ want.v # NoCell /\ CellLies(sect, th, cards.pcount, D0[r], want.v)
    <3>1. /\ "v" \in cols /\ table[RowOf(i, j)].v # NoCell
          /\ CellLies(sect, th, cards.pcount, D0[RowOf(i, j)], table[RowOf(i, j)].v)
      BY <1>1, <1>2, <1>4, <1>8 DEF BlobSpells
    <3> QED
      BY <1>2, <3>1
  <2>2. c = Right(want.v)
    <3>1. want.v \in Seq(Nat)
      BY <1>3 DEF TableRows
    <3>2. CellIn(sect, D0[r], th) = Right(want.v)
      BY <1>1, <1>3, <2>1, <3>1, CellFound
    <3>3. CellAt(D0[r], th) = CellIn(sect, D0[r], th)
      BY DEF CellAt, CellIn, Found, FoundIn
    <3>4. b = Right(y)
      BY <1>4, <1>8 DEF Decoded
    <3>5. b.ok /\ b.of[j] = D0[r]
      BY <1>5, <3>4 DEF Right
    <3> QED
      BY <3>2, <3>3, <3>5 DEF CellRead
  <2>3. CASE df.n = 0
    <3>1. want.f = 0 /\ ~f.ok
      BY <1>6, <2>3 DEF Wrong
    <3>2. ~RowRead(f, c, j).ok
      BY <3>1 DEF RowRead
    <3> QED
      BY <3>1, <3>2 DEF RightRow, n, th, f, b, i, j
  <2>4. CASE df.n # 0
    <3>1. want.f # 0 /\ f.ok = TRUE /\ f.of[j] = want.f
      BY <1>5, <1>6, <2>4 DEF Right
    <3>2. c.ok = TRUE /\ c.of = want.v
      BY <2>2 DEF Right
    <3> HIDE DEF c, want
    <3>3. RowRead(f, c, j) = [ok |-> TRUE, f |-> want.f, v |-> want.v]
      BY <3>1, <3>2 DEF RowRead
    <3> QED
      BY <2>1, <3>1, <3>3 DEF RightRow, n, th, f, b, i, j, c, want
  <2> QED
    BY <2>3, <2>4
<1> QED
  BY <1>7, <1>8

\* The invariant implies RowsReadBack.
LEMMA ReadsRight ==
  ASSUME TableInv
  PROVE  RowsReadBack
<1> SUFFICES ASSUME Settled PROVE ReadBack
  BY DEF RowsReadBack
<1>1. Typed
  BY SettledHolds
<1>2. PICK D0 : /\ D0 \in [1..cards.rows -> CellDescs]
                /\ Content(cols, sect, cards.tiles, cards.pcount, sect, table, D0)
  BY SettledHolds
<1> SUFFICES ASSUME NEW n \in 1..2, NEW rows \in [1..n -> 1..cards.rows], NEW k \in 1..n
             PROVE  RightRow(ReadRows(rows)[k], table[rows[k]])
  BY DEF ReadBack, RightRow
<1> DEFINE r == rows[k]
           i == TileOfRow(r)
           j == PlaceOfRow(r)
           q == [tile |-> i, row |-> j, out |-> k]
           P == CHOOSE p \in RowPlan(rows) : p.out = k
           f == SlabAt(i, cards.rows, cards.tiles)
           b == BlobAt(i, cards.rows, cards.tiles)
           c == CellRead(b, j)
<1>3. r \in 1..cards.rows /\ DOMAIN rows = 1..n
  OBVIOUS
<1>4. P = q
  <2>1. q \in RowPlan(rows) /\ q.out = k
    BY <1>3 DEF RowPlan
  <2>2. \A p \in RowPlan(rows) : p.out = k => p = q
    BY DEF RowPlan
  <2> HIDE DEF q
  <2> QED
    BY <2>1, <2>2
<1>5. P.tile = i /\ P.row = j
  <2> HIDE DEF P, i, j
  <2> QED
    BY <1>4
<1>6. ReadRows(rows)[k] = RowRead(f, c, j)
  <2>1. ReadRows(rows)[k] =
          LET g == SlabAt(P.tile, cards.rows, cards.tiles)
              h == BlobAt(P.tile, cards.rows, cards.tiles)
              d == IF h.ok THEN CellAt(h.of[P.row], cards.tiles) ELSE Wrong
          IN  [ok |-> g.ok /\ ("v" \in cols => d.ok),
               f |-> IF g.ok THEN g.of[P.row] ELSE 0,
               v |-> IF d.ok THEN d.of ELSE <<>>]
    BY <1>3 DEF ReadRows
  <2> HIDE DEF P, i, j
  <2> QED
    BY <1>5, <2>1 DEF RowRead, CellRead
<1>7. RightRow(RowRead(f, c, j), table[r])
  <2> HIDE DEF r
  <2> QED
    BY <1>1, <1>2, <1>3, RowFound
<1> QED
  BY <1>6, <1>7

\* The invariant implies OriginalHeapSound.
LEMMA OriginalsApart ==
  ASSUME TableInv
  PROVE  OriginalHeapSound
<1> SUFFICES ASSUME Settled, NEW x \in Originals, NEW y \in Originals
             PROVE  /\ x.d.orig + x.d.n <= cards.zpcount
                    /\ x.row # y.row => x.d.orig + x.d.n <= y.d.orig \/ y.d.orig + y.d.n <= x.d.orig
  BY DEF OriginalHeapSound
<1>1. Typed
  BY SettledHolds
<1>2. PICK D0 : /\ D0 \in [1..cards.rows -> CellDescs] /\ Origs(D0, cards.rows, cards.zpcount)
                /\ Content(cols, sect, cards.tiles, cards.pcount, sect, table, D0)
  BY SettledHolds
<1> DEFINE n == cards.rows
           th == cards.tiles
<1>3. n \in Nat /\ th \in Nat /\ th = Tiles(n)
  BY <1>1 DEF Typed
<1>4. ASSUME NEW z \in Originals
      PROVE  z.row \in 1..n /\ z.d = D0[z.row] /\ z.d.n > 0
  <2>1. PICK i \in 1..th : LET b == BlobAt(i, n, th)
                           IN  z \in {[row |-> RowOf(i, j), d |-> b.of[j]] : j \in {j \in DOMAIN b.of : b.of[j].n > 0}}
    BY <1>4 DEF Originals
  <2> DEFINE b == BlobAt(i, n, th)
             D == DescsOf(D0, i, n)
  <2>2. PICK j \in DOMAIN b.of : z = [row |-> RowOf(i, j), d |-> b.of[j]] /\ b.of[j].n > 0
    BY <2>1
  <2>3. b = Decoded(sect[i].v, D)
    BY <1>1, <1>2, <1>3, OldTiles
  <2> HIDE DEF b
  <2>4. DOMAIN <<>> = {}
    OBVIOUS
  <2>5. b # Wrong
    BY <2>2, <2>4 DEF Wrong
  <2>6. b.of = D
    BY <2>3, <2>5 DEF Decoded, Right
  <2>7. j \in 1..TileLen(i, n) /\ D[j] = D0[RowOf(i, j)]
    BY <2>2, <2>6 DEF DescsOf
  <2>8. RowOf(i, j) \in 1..n
    BY <1>3, <2>7, PlaceRow
  <2> HIDE DEF D
  <2> QED
    BY <2>2, <2>6, <2>7, <2>8
<1>5. /\ x.row \in 1..n /\ x.d = D0[x.row] /\ x.d.n > 0
      /\ y.row \in 1..n /\ y.d = D0[y.row] /\ y.d.n > 0
  BY <1>4
<1> QED
  BY <1>2, <1>5 DEF Origs

\* The invariant implies CacheCoherent.
LEMMA CacheRight ==
  ASSUME TableInv
  PROVE  CacheCoherent
<1> SUFFICES ASSUME Settled, ~stale, NEW key \in CachedKeys(cache)
             PROVE  LET got == TileAt(key[2], key[1], cards.rows, cards.tiles)
                    IN  IF got.ok THEN CachedEntry(cache, key).val = got.of
                        ELSE CachedEntry(cache, key).val = <<>> /\ sect[key[1]].v.n = 0
  BY DEF CacheCoherent
<1>1. Typed
  BY SettledHolds
<1>2. PICK D0 : /\ D0 \in [1..cards.rows -> CellDescs]
                /\ Content(cols, sect, cards.tiles, cards.pcount, sect, table, D0)
                /\ CacheOK(cache, sect, table, D0, stale)
  BY SettledHolds
<1>3. PICK E : Budget(E, cache) /\ \A e \in E : GoodEntry(sect, table, D0, e)
  BY <1>2 DEF CacheOK
<1> DEFINE n == cards.rows
           th == cards.tiles
           e == CachedEntry(cache, key)
<1>4. n \in Nat /\ th \in Nat /\ th = Tiles(n) /\ Len(table) = n
  BY <1>1 DEF Typed
<1>5. e \in E /\ e.key = key
  <2>1. Where(cache, key) \in DOMAIN cache.lru /\ cache.lru[Where(cache, key)].key = key
    BY DEF CachedKeys, Where
  <2>2. cache.lru \in Seq(E)
    BY <1>3 DEF Budget, Caches
  <2> QED
    BY <2>1, <2>2 DEF CachedEntry
<1> HIDE DEF e
<1>6. PICK i \in 1..th :
        \/ e.key = <<i, "f">> /\ sect[i].f.n # 0 /\ e.val = SlabOf(table, i)
        \/ e.key = <<i, "v">> /\ e.val = IF sect[i].v.n = 0 THEN <<>> ELSE DescsOf(D0, i, n)
  BY <1>3, <1>4, <1>5 DEF GoodEntry
<1>7. SlabAt(i, n, th) = Decoded(sect[i].f, SlabOf(table, i)) /\ BlobAt(i, n, th) = Decoded(sect[i].v, DescsOf(D0, i, n))
  BY <1>1, <1>2, <1>4, OldTiles
<1>8. CASE e.key = <<i, "f">> /\ sect[i].f.n # 0 /\ e.val = SlabOf(table, i)
  <2>1. key[1] = i /\ key[2] = "f"
    BY <1>5, <1>8
  <2>2. TileAt("f", i, n, th) = Right(SlabOf(table, i))
    BY <1>7, <1>8 DEF TileAt, Decoded
  <2> QED
    BY <1>8, <2>1, <2>2 DEF Right, e
<1>9. CASE e.key = <<i, "v">> /\ e.val = IF sect[i].v.n = 0 THEN <<>> ELSE DescsOf(D0, i, n)
  <2>1. key[1] = i /\ key[2] = "v"
    BY <1>5, <1>9
  <2>2. TileAt("v", i, n, th) = IF sect[i].v.n = 0 THEN Wrong ELSE Right(DescsOf(D0, i, n))
    BY <1>7 DEF TileAt, Decoded
  <2> QED
    BY <1>9, <2>1, <2>2 DEF Right, Wrong, e
<1> QED
  BY <1>6, <1>8, <1>9

\* The invariant implies TypeOK where nothing was harmed.
LEMMA TableTyped ==
  ASSUME TableInv, harmed = "no"
  PROVE  TypeOK
<1>1. Typed /\ Room /\ CacheFits(cache) /\ Flags
  BY DEF TableInv
<1> DEFINE n == cards.rows
           m == Len(pending.rows)
<1>2. n \in Nat /\ m \in Nat /\ cards.tiles = Tiles(n) /\ MaxRows \in Nat /\ Len(table) = n
  BY <1>1, TableAssumption DEF Typed
<1>3. n <= MaxRows
  <2> DEFINE a == IF call # Idle /\ call.op = "append" THEN Len(call.data) ELSE 0
  <2>1. a \in Nat
    BY <1>1, CallParts DEF Typed
  <2>2. n + a + m <= MaxRows
    BY <1>1 DEF Room
  <2> HIDE DEF a, m, n
  <2> QED
    BY <1>2, <2>1, <2>2
<1>4. Tiles(n) \in Nat /\ Tiles(MaxRows) \in Nat /\ Tiles(n) <= Tiles(MaxRows)
  BY <1>2, <1>3, TilesHold, TilesGrow
<1>5. cards \in [rows : 0..MaxRows, tiles : 0..Tiles(MaxRows), pcount : Nat, zpcount : Nat]
  <2>1. cards \in [rows : Nat, tiles : Nat, pcount : Nat, zpcount : Nat]
    BY <1>1 DEF Typed
  <2>2. cards.rows \in 0..MaxRows /\ cards.tiles \in 0..Tiles(MaxRows)
    BY <1>2, <1>3, <1>4
  <2> QED
    BY <2>1, <2>2
<1>6. \A p \in 1..cards.tiles : sect[p].t = "desc"
  BY <1>1 DEF Typed, SectOK, TileDescs
<1>7. WithinBudget(cache)
  <2>1. PICK E : Budget(E, cache) /\ cache.cur <= cache.cap
    BY <1>1 DEF CacheFits
  <2>2. Sized(E) /\ cache \in Caches(E)
    BY <2>1 DEF Budget
  <2> QED
    BY <2>1, <2>2, BudgetIs
<1>8. {tainted, stale, lost} \subseteq BOOLEAN /\ harmed \in {"no", "io", "value"}
  BY <1>1 DEF Flags, Typed
<1> QED
  BY <1>2, <1>5, <1>6, <1>7, <1>8 DEF TypeOK

\* As long as no call has raised after it moved or overwrote data, the cards, the table of
\* descriptors and the cache have the form that write_compressed_table_data,
\* append_compressed_table_data and setitem_compressed_cols take them to have.
THEOREM TableTypeCorrect == Spec => [](harmed = "no" => TypeOK)
<1>1. TableInv => (harmed = "no" => TypeOK)
  BY TableTyped
<1> QED
  BY <1>1, TableInvHolds, PTL

\* read_compressed_table finds every row that the calls that returned have written, after
\* any sequence of write, append, setitem, drains of the appending() buffer and repacks, in
\* place, staged or rebuilt, that have not copied a slab longer than a chunk over its own
\* end; for tiles, rows, chunks and caches of every size.
THEOREM TableReadsBack == Spec => []RowsReadBack
<1>1. TableInv => RowsReadBack
  BY ReadsRight
<1> QED
  BY <1>1, TableInvHolds, PTL

\* The second descriptor of every cell: no two cells share a place in the heap of the
\* uncompressed table, and all of them lie within ZPCOUNT.
THEOREM TableOriginalHeap == Spec => []OriginalHeapSound
<1>1. TableInv => OriginalHeapSound
  BY OriginalsApart
<1> QED
  BY <1>1, TableInvHolds, PTL

\* The ColumnTileCache: a tile in it is the tile of the file, unless write() has replaced
\* the data under it.
THEOREM TableCacheCoherent == Spec => []CacheCoherent
<1>1. TableInv => CacheCoherent
  BY CacheRight
<1> QED
  BY <1>1, TableInvHolds, PTL

=============================================================================
