------------------------- MODULE HeapRepackProofs -------------------------
(***************************************************************************)
(* Proofs about HeapRepack, for any number of rows and columns and cells   *)
(* of any length: the descriptors stay apart and inside the heap, a repack *)
(* leaves no orphan, and, where no copy runs over itself, every cell reads *)
(* back what was written last.                                             *)
(***************************************************************************)
EXTENDS HeapRepack, PrefixSumTheorems, SequenceTheorems, FiniteSetTheorems

-----------------------------------------------------------------------------
(* A plan cuts a stretch of the heap into cells, without gap or overlap.   *)

\* Lengths in n rows of m cells.
Grid(n, m) == [1..n -> [1..m -> Nat]]

\* A function on 1..n is a sequence of length n.
LEMMA FunIsSeq ==
  ASSUME NEW S, NEW n \in Nat, NEW f \in [1..n -> S]
  PROVE  f \in Seq(S) /\ Len(f) = n /\ DOMAIN f = 1..n
<1>1. f \in Seq(S)
  OBVIOUS
<1>2. Len(f) \in Nat /\ DOMAIN f = 1..Len(f) /\ DOMAIN f = 1..n
  BY <1>1, LenProperties
<1>3. Len(f) = n
  BY <1>2
<1> QED
  BY <1>1, <1>2, <1>3

\* The sizes of the rows of a grid, and their sum.
LEMMA GridFacts ==
  ASSUME NEW n \in Nat, NEW m \in Nat, NEW lens \in Grid(n, m)
  PROVE  /\ DOMAIN lens = 1..n /\ Len(lens) = n
         /\ \A i \in 1..n : /\ DOMAIN lens[i] = 1..m /\ Len(lens[i]) = m
                            /\ \A j \in 1..m : lens[i][j] \in Nat
                            /\ RowSizes(lens)[i] = SumTo(lens[i], m)
                            /\ RowSizes(lens)[i] \in Nat
         /\ Size(lens) = SumTo(RowSizes(lens), n) /\ Size(lens) \in Nat
<1>1. DOMAIN lens = 1..n /\ Len(lens) = n
  BY FunIsSeq DEF Grid
<1>2. ASSUME NEW i \in 1..n
      PROVE  /\ DOMAIN lens[i] = 1..m /\ Len(lens[i]) = m
             /\ \A j \in 1..m : lens[i][j] \in Nat
             /\ RowSizes(lens)[i] = SumTo(lens[i], m)
             /\ RowSizes(lens)[i] \in Nat
  <2>1. lens[i] \in [1..m -> Nat]
    BY DEF Grid
  <2>2. DOMAIN lens[i] = 1..m /\ Len(lens[i]) = m
    BY <2>1, FunIsSeq
  <2>3. \A j \in 1..m : lens[i][j] \in Nat
    BY <2>1
  <2>4. RowSizes(lens)[i] = SumTo(lens[i], m)
    BY <1>1, <2>2 DEF RowSizes
  <2>5. SumTo(lens[i], m) \in Nat
    <3>1. m \in 0..m
      OBVIOUS
    <3> QED
      BY <2>3, <3>1, SumToNat
  <2> QED
    BY <2>2, <2>3, <2>4, <2>5
<1>3. Size(lens) = SumTo(RowSizes(lens), n)
  BY <1>1 DEF Size
<1>4. SumTo(RowSizes(lens), n) \in Nat
  <2>1. n \in 0..n /\ \A i \in 1..n : RowSizes(lens)[i] \in Nat
    BY <1>2
  <2> QED
    BY <2>1, SumToNat
<1> QED
  BY <1>1, <1>2, <1>3, <1>4

\* Where a cell lies: in the stretch of its row, behind the cells before it.
LEMMA CellPlace ==
  ASSUME NEW n \in Nat, NEW m \in Nat, NEW lens \in Grid(n, m), NEW i \in 1..n, NEW j \in 1..m
  PROVE  /\ Before(lens, i, j) = SumTo(RowSizes(lens), i - 1) + SumTo(lens[i], j - 1)
         /\ SumTo(RowSizes(lens), i - 1) \in Nat /\ SumTo(lens[i], j - 1) \in Nat
         /\ Before(lens, i, j) \in Nat /\ lens[i][j] \in Nat
         /\ SumTo(lens[i], j - 1) + lens[i][j] <= RowSizes(lens)[i]
         /\ SumTo(RowSizes(lens), i - 1) + RowSizes(lens)[i] <= Size(lens)
         /\ Before(lens, i, j) + lens[i][j] <= Size(lens)
<1>1. /\ lens[i][j] \in Nat /\ RowSizes(lens)[i] = SumTo(lens[i], m)
      /\ RowSizes(lens)[i] \in Nat
      /\ Size(lens) = SumTo(RowSizes(lens), n) /\ Size(lens) \in Nat
  BY GridFacts
<1>2. \A k \in 1..n : RowSizes(lens)[k] \in Nat
  BY GridFacts
<1>3. \A l \in 1..m : lens[i][l] \in Nat
  BY GridFacts
<1>4. /\ i - 1 \in 0..n /\ i \in 0..n /\ n \in 0..n /\ i <= n
      /\ j - 1 \in 0..m /\ j \in 0..m /\ m \in 0..m /\ j <= m
  OBVIOUS
<1>5. /\ SumTo(RowSizes(lens), i - 1) \in Nat
      /\ SumTo(RowSizes(lens), i) = SumTo(RowSizes(lens), i - 1) + RowSizes(lens)[i]
      /\ SumTo(RowSizes(lens), i) <= SumTo(RowSizes(lens), n)
  BY <1>2, <1>4, SumToNat
<1>6. /\ SumTo(lens[i], j - 1) \in Nat
      /\ SumTo(lens[i], j) = SumTo(lens[i], j - 1) + lens[i][j]
      /\ SumTo(lens[i], j) <= SumTo(lens[i], m)
  BY <1>3, <1>4, SumToNat
<1>7. Before(lens, i, j) = SumTo(RowSizes(lens), i - 1) + SumTo(lens[i], j - 1)
  BY DEF Before
<1> QED
  BY <1>1, <1>5, <1>6, <1>7

\* Of two cells one ends before the other begins.
LEMMA CellsApart ==
  ASSUME NEW n \in Nat, NEW m \in Nat, NEW lens \in Grid(n, m),
         NEW i \in 1..n, NEW j \in 1..m, NEW k \in 1..n, NEW l \in 1..m,
         i < k \/ (i = k /\ j < l)
  PROVE  Before(lens, i, j) + lens[i][j] <= Before(lens, k, l)
<1>1. /\ Before(lens, i, j) = SumTo(RowSizes(lens), i - 1) + SumTo(lens[i], j - 1)
      /\ SumTo(RowSizes(lens), i - 1) \in Nat /\ SumTo(lens[i], j - 1) \in Nat
      /\ lens[i][j] \in Nat
      /\ SumTo(lens[i], j - 1) + lens[i][j] <= RowSizes(lens)[i]
  BY CellPlace
<1>2. /\ Before(lens, k, l) = SumTo(RowSizes(lens), k - 1) + SumTo(lens[k], l - 1)
      /\ SumTo(RowSizes(lens), k - 1) \in Nat /\ SumTo(lens[k], l - 1) \in Nat
  BY CellPlace
<1>3. CASE i < k
  <2>1. \A q \in 1..n : RowSizes(lens)[q] \in Nat
    BY GridFacts
  <2>2. i \in 0..n /\ k - 1 \in 0..n /\ i <= k - 1
    BY <1>3
  <2>3. /\ SumTo(RowSizes(lens), i) = SumTo(RowSizes(lens), i - 1) + RowSizes(lens)[i]
        /\ SumTo(RowSizes(lens), i) <= SumTo(RowSizes(lens), k - 1)
    BY <2>1, <2>2, SumToNat
  <2>4. RowSizes(lens)[i] \in Nat
    BY <2>1
  <2> QED
    BY <1>1, <1>2, <2>3, <2>4
<1>4. CASE i = k /\ j < l
  <2>1. \A q \in 1..m : lens[i][q] \in Nat
    BY GridFacts
  <2>2. j \in 0..m /\ l - 1 \in 0..m /\ j <= l - 1
    BY <1>4
  <2>3. /\ SumTo(lens[i], j) = SumTo(lens[i], j - 1) + lens[i][j]
        /\ SumTo(lens[i], j) <= SumTo(lens[i], l - 1)
    BY <2>1, <2>2, SumToNat
  <2> QED
    BY <1>1, <1>2, <1>4, <2>3
<1> QED
  BY <1>3, <1>4

\* Every byte is in some cell.
LEMMA CellsCover ==
  ASSUME NEW n \in Nat, NEW m \in Nat, NEW lens \in Grid(n, m), NEW p \in Nat, p < Size(lens)
  PROVE  \E i \in 1..n, j \in 1..m :
            Before(lens, i, j) <= p /\ p < Before(lens, i, j) + lens[i][j]
<1> DEFINE w == RowSizes(lens)
<1>1. /\ \A i \in 1..n : w[i] \in Nat
      /\ p < SumTo(w, n)
  BY GridFacts
<1>2. PICK i \in 1..n : SumTo(w, i - 1) <= p /\ p < SumTo(w, i - 1) + w[i]
  <2> HIDE DEF w
  <2> QED
    BY <1>1, SumToCovers
<1>3. SumTo(w, i - 1) \in Nat
  <2>1. i - 1 \in 0..n
    OBVIOUS
  <2> QED
    BY <1>1, <2>1, SumToNat
<1>4. w[i] = SumTo(lens[i], m) /\ w[i] \in Nat /\ \A j \in 1..m : lens[i][j] \in Nat
  BY GridFacts
<1> DEFINE q == p - SumTo(w, i - 1)
<1>5. q \in Nat /\ q < SumTo(lens[i], m)
  <2> HIDE DEF w
  <2> QED
    BY <1>2, <1>3, <1>4
<1>6. PICK j \in 1..m : SumTo(lens[i], j - 1) <= q /\ q < SumTo(lens[i], j - 1) + lens[i][j]
  <2> HIDE DEF q
  <2> QED
    BY <1>4, <1>5, SumToCovers
<1>7. /\ Before(lens, i, j) = SumTo(w, i - 1) + SumTo(lens[i], j - 1)
      /\ SumTo(lens[i], j - 1) \in Nat /\ lens[i][j] \in Nat
  BY CellPlace
<1> HIDE DEF w
<1>8. Before(lens, i, j) <= p
  BY <1>3, <1>6, <1>7
<1>9. p < Before(lens, i, j) + lens[i][j]
  BY <1>3, <1>6, <1>7
<1> QED
  BY <1>8, <1>9

\* A plan for these lengths: its cells lie between start and the end, apart, and leave
\* no byte out.
PlanOK(plan, lens, n, m, start) ==
    /\ DOMAIN plan = 1..n /\ Size(lens) \in Nat
    /\ \A i \in 1..n, j \in 1..m :
         /\ plan[i][j].off \in Nat /\ plan[i][j].len = lens[i][j] /\ lens[i][j] \in Nat
         /\ start <= plan[i][j].off /\ plan[i][j].off + lens[i][j] <= start + Size(lens)
    /\ \A i, k \in 1..n, j, l \in 1..m :
         <<i, j>> # <<k, l>> => Span(plan[i][j]) \cap Span(plan[k][l]) = {}
    /\ \A p \in start..(start + Size(lens) - 1) : \E i \in 1..n, j \in 1..m : p \in Span(plan[i][j])

\* plan_vla_heap_layout makes such a plan.
LEMMA PlanFacts ==
  ASSUME NEW n \in Nat, NEW m \in Nat, NEW lens \in Grid(n, m), NEW start \in Nat
  PROVE  PlanOK(PlanHeap(lens, start), lens, n, m, start)
<1> DEFINE plan == PlanHeap(lens, start)
<1>0. Size(lens) \in Nat
  BY GridFacts
<1>1. /\ DOMAIN plan = 1..n
      /\ \A i \in 1..n : DOMAIN plan[i] = 1..m
      /\ \A i \in 1..n, j \in 1..m : plan[i][j] = Cell(start + Before(lens, i, j), lens[i][j])
  BY GridFacts DEF PlanHeap
<1>2. ASSUME NEW i \in 1..n, NEW j \in 1..m
      PROVE  /\ plan[i][j].off = start + Before(lens, i, j) /\ plan[i][j].len = lens[i][j]
             /\ Before(lens, i, j) \in Nat /\ lens[i][j] \in Nat
             /\ Before(lens, i, j) + lens[i][j] <= Size(lens)
  <2>1. /\ Before(lens, i, j) \in Nat /\ lens[i][j] \in Nat
        /\ Before(lens, i, j) + lens[i][j] <= Size(lens)
    BY CellPlace
  <2> DEFINE o == start + Before(lens, i, j)
  <2> DEFINE z == lens[i][j]
  <2>2. plan[i][j] = Cell(o, z)
    BY <1>1
  <2> HIDE DEF plan, o, z
  <2>3. plan[i][j].off = o /\ plan[i][j].len = z
    BY <2>2 DEF Cell
  <2> QED
    BY <2>1, <2>3 DEF o, z
<1> HIDE DEF plan
<1>3. ASSUME NEW i \in 1..n, NEW k \in 1..n, NEW j \in 1..m, NEW l \in 1..m,
             i < k \/ (i = k /\ j < l)
      PROVE  plan[i][j].off + plan[i][j].len <= plan[k][l].off
  <2>1. Before(lens, i, j) + lens[i][j] <= Before(lens, k, l)
    BY <1>3, CellsApart
  <2> QED
    BY <1>2, <2>1
<1>4. ASSUME NEW i \in 1..n, NEW k \in 1..n, NEW j \in 1..m, NEW l \in 1..m,
             <<i, j>> # <<k, l>>
      PROVE  Span(plan[i][j]) \cap Span(plan[k][l]) = {}
  <2>1. i < k \/ k < i \/ (i = k /\ j < l) \/ (i = k /\ l < j)
    BY <1>4
  <2>2. /\ plan[i][j].off \in Nat /\ plan[i][j].len \in Nat
        /\ plan[k][l].off \in Nat /\ plan[k][l].len \in Nat
    BY <1>2
  <2>3. CASE i < k \/ (i = k /\ j < l)
    <3>1. plan[i][j].off + plan[i][j].len <= plan[k][l].off
      BY <1>3, <2>3
    <3> QED
      BY <2>2, <3>1 DEF Span
  <2>4. CASE k < i \/ (i = k /\ l < j)
    <3>1. plan[k][l].off + plan[k][l].len <= plan[i][j].off
      BY <1>3, <2>4
    <3> QED
      BY <2>2, <3>1 DEF Span
  <2> QED
    BY <2>1, <2>3, <2>4
<1>5. ASSUME NEW p \in start..(start + Size(lens) - 1)
      PROVE  \E i \in 1..n, j \in 1..m : p \in Span(plan[i][j])
  <2>1. p - start \in Nat /\ p - start < Size(lens) /\ p \in Nat
    BY <1>0
  <2>2. PICK i \in 1..n, j \in 1..m :
          Before(lens, i, j) <= p - start /\ p - start < Before(lens, i, j) + lens[i][j]
    BY <2>1, CellsCover
  <2>3. p \in Span(plan[i][j])
    BY <2>1, <2>2, <1>2 DEF Span
  <2> QED
    BY <2>3
<1>6. ASSUME NEW i \in 1..n, NEW j \in 1..m
      PROVE  /\ plan[i][j].off \in Nat /\ start <= plan[i][j].off
             /\ plan[i][j].off + lens[i][j] <= start + Size(lens)
  <2>1. /\ plan[i][j].off = start + Before(lens, i, j)
        /\ Before(lens, i, j) \in Nat /\ lens[i][j] \in Nat
        /\ Before(lens, i, j) + lens[i][j] <= Size(lens)
    BY <1>2
  <2> QED
    BY <1>0, <2>1
<1>7. \A i \in 1..n, j \in 1..m :
        /\ plan[i][j].off \in Nat /\ plan[i][j].len = lens[i][j] /\ lens[i][j] \in Nat
        /\ start <= plan[i][j].off /\ plan[i][j].off + lens[i][j] <= start + Size(lens)
  BY <1>1, <1>2, <1>6
<1>8. \A i, k \in 1..n, j, l \in 1..m :
        <<i, j>> # <<k, l>> => Span(plan[i][j]) \cap Span(plan[k][l]) = {}
  BY <1>4
<1>9. \A p \in start..(start + Size(lens) - 1) :
        \E i \in 1..n, j \in 1..m : p \in Span(plan[i][j])
  BY <1>5
<1>10. PlanOK(plan, lens, n, m, start)
  BY <1>0, <1>1, <1>7, <1>8, <1>9, Zenon DEF PlanOK
<1> QED
  BY <1>10 DEF plan

\* The lengths that a call is given.
LEMMA LensGrid ==
  ASSUME NEW n \in Nat, NEW m \in Nat, NEW lens \in Lens(n, m)
  PROVE  lens \in Grid(n, m) /\ \A i \in 1..n, j \in 1..m : lens[i][j] \in 0..MaxLen
<1>1. \A i \in 1..n : lens[i] \in [1..m -> 0..MaxLen]
  BY DEF Lens
<1>2. \A i \in 1..n : lens[i] \in [1..m -> Nat]
  BY <1>1, HeapBoundAssumption
<1>3. lens = [i \in 1..n |-> lens[i]]
  BY DEF Lens
<1> QED
  BY <1>1, <1>2, <1>3 DEF Grid

\* What is planned are descriptors.
LEMMA PlanTyped ==
  ASSUME NEW n \in Nat, NEW m \in Nat, NEW lens \in Lens(n, m), NEW start \in Nat
  PROVE  PlanHeap(lens, start) \in [1..n -> [1..m -> CellRec]]
<1>0. lens \in Grid(n, m)
  BY LensGrid
<1>1. /\ DOMAIN lens = 1..n
      /\ \A i \in 1..n : DOMAIN lens[i] = 1..m
  BY <1>0, GridFacts
<1>2. ASSUME NEW i \in 1..n, NEW j \in 1..m
      PROVE  Cell(start + Before(lens, i, j), lens[i][j]) \in CellRec
  <2>1. Before(lens, i, j) \in Nat
    BY <1>0, CellPlace
  <2>2. lens[i][j] \in 0..MaxLen
    BY LensGrid
  <2>3. start + Before(lens, i, j) \in Nat
    BY <2>1
  <2> QED
    BY <2>2, <2>3 DEF Cell, CellRec
<1>3. PlanHeap(lens, start)
      = [i \in 1..n |-> [j \in 1..m |-> Cell(start + Before(lens, i, j), lens[i][j])]]
  BY <1>1 DEF PlanHeap
<1> QED
  BY <1>2, <1>3

-----------------------------------------------------------------------------
(* The table and its plan.                                                 *)

\* The columns have different names, and every row one descriptor for each.
Shape ==
    /\ cols \in Seq(1..MaxCols) /\ \A c, d \in DOMAIN cols : cols[c] = cols[d] => c = d
    /\ rows \in Seq([DOMAIN cols -> CellRec]) /\ Len(rows) <= MaxRows
    /\ pcount \in 0..MaxHeap /\ tainted \in BOOLEAN

\* Rows, columns and lengths in numbers.
LEMMA TableFacts ==
  ASSUME Shape
  PROVE  /\ Len(rows) \in Nat /\ DOMAIN rows = 1..Len(rows)
         /\ Len(cols) \in Nat /\ DOMAIN cols = 1..Len(cols)
         /\ \A r \in DOMAIN rows : rows[r] \in [DOMAIN cols -> CellRec]
         /\ \A r \in DOMAIN rows, c \in DOMAIN cols :
              /\ rows[r][c] \in CellRec /\ rows[r][c].off \in Nat /\ rows[r][c].len \in Nat
              /\ rows[r][c].len <= MaxLen
         /\ LiveLens \in Lens(Len(rows), Len(cols))
         /\ \A r \in DOMAIN rows, c \in DOMAIN cols : LiveLens[r][c] = rows[r][c].len
         /\ pcount \in Nat
<1>1. /\ Len(rows) \in Nat /\ DOMAIN rows = 1..Len(rows)
      /\ \A r \in DOMAIN rows : rows[r] \in [DOMAIN cols -> CellRec]
  BY LenProperties DEF Shape
<1>2. Len(cols) \in Nat /\ DOMAIN cols = 1..Len(cols)
  BY LenProperties DEF Shape
<1>3. \A r \in DOMAIN rows, c \in DOMAIN cols :
        /\ rows[r][c] \in CellRec /\ rows[r][c].off \in Nat /\ rows[r][c].len \in Nat
        /\ rows[r][c].len <= MaxLen
  BY <1>1, HeapBoundAssumption DEF CellRec
<1>4. \A r \in DOMAIN rows : DOMAIN rows[r] = DOMAIN cols
  BY <1>1
<1>5. LiveLens \in [DOMAIN rows -> [DOMAIN cols -> 0..MaxLen]]
  BY <1>1, <1>4 DEF LiveLens, CellRec
<1>6. \A r \in DOMAIN rows, c \in DOMAIN cols : LiveLens[r][c] = rows[r][c].len
  BY <1>4 DEF LiveLens
<1>7. LiveLens \in Lens(Len(rows), Len(cols))
  BY <1>1, <1>2, <1>5 DEF Lens
<1>8. pcount \in Nat
  BY HeapBoundAssumption DEF Shape
<1> QED
  BY <1>1, <1>2, <1>3, <1>6, <1>7, <1>8

\* What a repack aims at: the same cells, packed from the start of the heap.
LEMMA PackFacts ==
  ASSUME Shape
  PROVE  /\ NewPcount \in Nat
         /\ NewRows \in Seq([DOMAIN cols -> CellRec])
         /\ DOMAIN NewRows = DOMAIN rows /\ Len(NewRows) = Len(rows)
         /\ \A r \in DOMAIN rows, c \in DOMAIN cols :
              /\ NewRows[r][c].off \in Nat /\ NewRows[r][c].len = rows[r][c].len
              /\ NewRows[r][c].off + rows[r][c].len <= NewPcount
         /\ \A r, s \in DOMAIN rows, c, d \in DOMAIN cols :
              <<r, c>> # <<s, d>> => Span(NewRows[r][c]) \cap Span(NewRows[s][d]) = {}
         /\ \A p \in 0..(NewPcount - 1) :
              \E r \in DOMAIN rows, c \in DOMAIN cols : p \in Span(NewRows[r][c])
<1> DEFINE R == Len(rows)
<1> DEFINE C == Len(cols)
<1> DEFINE L == LiveLens
<1> DEFINE plan == PlanHeap(L, 0)
<1>0. /\ R \in Nat /\ DOMAIN rows = 1..R /\ C \in Nat /\ DOMAIN cols = 1..C
      /\ L \in Lens(R, C) /\ 0 \in Nat
      /\ \A r \in DOMAIN rows, c \in DOMAIN cols : L[r][c] = rows[r][c].len
  BY TableFacts
<1>1. NewRows = plan /\ NewPcount = Size(L)
  BY DEF NewRows, NewPcount
<1> HIDE DEF R, C, L
<1>2. L \in Grid(R, C)
  BY <1>0, LensGrid
<1>3. PlanOK(plan, L, R, C, 0)
  BY <1>0, <1>2, PlanFacts
<1>4. plan \in [1..R -> [1..C -> CellRec]]
  BY <1>0, PlanTyped
<1> HIDE DEF plan
<1>5. plan \in Seq([DOMAIN cols -> CellRec]) /\ Len(plan) = R /\ DOMAIN plan = DOMAIN rows
  BY <1>0, <1>4, FunIsSeq
<1>6. Size(L) \in Nat
  BY <1>3 DEF PlanOK
<1>7. ASSUME NEW r \in DOMAIN rows, NEW c \in DOMAIN cols
      PROVE  /\ plan[r][c].off \in Nat /\ plan[r][c].len = rows[r][c].len
             /\ plan[r][c].off + rows[r][c].len <= Size(L)
  <2>1. /\ plan[r][c].off \in Nat /\ plan[r][c].len = L[r][c] /\ L[r][c] \in Nat
        /\ plan[r][c].off + L[r][c] <= 0 + Size(L)
    BY <1>0, <1>3 DEF PlanOK
  <2> QED
    BY <1>0, <1>6, <2>1
<1>8. \A r, s \in DOMAIN rows, c, d \in DOMAIN cols :
        <<r, c>> # <<s, d>> => Span(plan[r][c]) \cap Span(plan[s][d]) = {}
  BY <1>0, <1>3, Zenon DEF PlanOK
<1>9. ASSUME NEW p \in 0..(Size(L) - 1)
      PROVE  \E r \in DOMAIN rows, c \in DOMAIN cols : p \in Span(plan[r][c])
  <2>1. p \in 0..(0 + Size(L) - 1)
    BY <1>6
  <2> QED
    BY <1>0, <1>3, <2>1 DEF PlanOK
<1>10. /\ NewPcount \in Nat
       /\ NewRows \in Seq([DOMAIN cols -> CellRec])
       /\ DOMAIN NewRows = DOMAIN rows /\ Len(NewRows) = Len(rows)
  BY <1>1, <1>5, <1>6 DEF R
<1>11. \A r \in DOMAIN rows, c \in DOMAIN cols :
         /\ NewRows[r][c].off \in Nat /\ NewRows[r][c].len = rows[r][c].len
         /\ NewRows[r][c].off + rows[r][c].len <= NewPcount
  BY <1>1, <1>7
<1>12. \A r, s \in DOMAIN rows, c, d \in DOMAIN cols :
         <<r, c>> # <<s, d>> => Span(NewRows[r][c]) \cap Span(NewRows[s][d]) = {}
  BY <1>1, <1>8, Zenon
<1>13. \A p \in 0..(NewPcount - 1) :
         \E r \in DOMAIN rows, c \in DOMAIN cols : p \in Span(NewRows[r][c])
  BY <1>1, <1>9
<1> QED
  BY <1>10, <1>11, <1>12, <1>13

\* Live cells do not share bytes, so that all of them together fit into the heap.
LEMMA LiveBytes ==
  ASSUME Shape, HeapWellFormed
  PROVE  NewPcount <= pcount
<1> SUFFICES ASSUME pcount < NewPcount PROVE FALSE
  BY TableFacts, PackFacts
<1> DEFINE S == 0..(NewPcount - 1)
<1> DEFINE T == 0..(pcount - 1)
<1> DEFINE Home(p) == CHOOSE at \in (DOMAIN rows) \X (DOMAIN cols) :
                        p \in Span(NewRows[at[1]][at[2]])
<1> DEFINE Old(p) == rows[Home(p)[1]][Home(p)[2]].off + (p - NewRows[Home(p)[1]][Home(p)[2]].off)
<1> DEFINE f == [p \in S |-> Old(p)]
<1>1. /\ pcount \in Nat /\ NewPcount \in Nat
      /\ \A r \in DOMAIN rows, c \in DOMAIN cols :
           /\ rows[r][c].off \in Nat /\ rows[r][c].len \in Nat
           /\ rows[r][c].off + rows[r][c].len <= pcount
           /\ NewRows[r][c].off \in Nat /\ NewRows[r][c].len = rows[r][c].len
  BY TableFacts, PackFacts DEF HeapWellFormed, Refused
<1>2. ASSUME NEW p \in S
      PROVE  /\ Home(p) \in (DOMAIN rows) \X (DOMAIN cols)
             /\ p \in Span(NewRows[Home(p)[1]][Home(p)[2]])
  <2>1. PICK r \in DOMAIN rows, c \in DOMAIN cols : p \in Span(NewRows[r][c])
    BY PackFacts
  <2>2. <<r, c>> \in (DOMAIN rows) \X (DOMAIN cols) /\ p \in Span(NewRows[<<r, c>>[1]][<<r, c>>[2]])
    BY <2>1
  <2> QED
    BY <2>2
<1>3. ASSUME NEW p \in S
      PROVE  \E r \in DOMAIN rows, c \in DOMAIN cols :
               /\ Home(p) = <<r, c>> /\ p \in Span(NewRows[r][c])
               /\ Old(p) = rows[r][c].off + (p - NewRows[r][c].off)
               /\ Old(p) \in Span(rows[r][c]) /\ Old(p) \in T
  <2>1. PICK r \in DOMAIN rows, c \in DOMAIN cols : Home(p) = <<r, c>>
    BY <1>2
  <2>2. p \in Span(NewRows[r][c])
    BY <1>2, <2>1
  <2> HIDE DEF Home
  <2>3. Old(p) = rows[r][c].off + (p - NewRows[r][c].off)
    BY <2>1
  <2> HIDE DEF Old
  <2>4. /\ rows[r][c].off \in Nat /\ rows[r][c].len \in Nat
        /\ rows[r][c].off + rows[r][c].len <= pcount
        /\ NewRows[r][c].off \in Nat /\ NewRows[r][c].len = rows[r][c].len
    BY <1>1
  <2>5. Old(p) \in Span(rows[r][c]) /\ Old(p) \in T
    BY <1>1, <2>2, <2>3, <2>4 DEF Span
  <2> QED
    BY <2>1, <2>2, <2>3, <2>5
<1> HIDE DEF Old, Home
<1>4. f \in [S -> T]
  BY <1>3
<1>5. IsFiniteSet(S) /\ IsFiniteSet(T) /\ Cardinality(T) < Cardinality(S)
  <2>1. /\ IsFiniteSet(S) /\ IsFiniteSet(T)
        /\ Cardinality(S) = IF 0 > NewPcount - 1 THEN 0 ELSE NewPcount - 1 - 0 + 1
        /\ Cardinality(T) = IF 0 > pcount - 1 THEN 0 ELSE pcount - 1 - 0 + 1
    BY <1>1, FS_Interval
  <2> QED
    BY <1>1, <2>1
<1>6. PICK p \in S, q \in S : p # q /\ f[p] = f[q]
  <2> HIDE DEF f, S, T
  <2> QED
    BY <1>4, <1>5, FS_PigeonHole
<1>7. Old(p) = Old(q)
  BY <1>6
<1>8. PICK r \in DOMAIN rows, c \in DOMAIN cols :
        /\ Home(p) = <<r, c>> /\ p \in Span(NewRows[r][c])
        /\ Old(p) = rows[r][c].off + (p - NewRows[r][c].off) /\ Old(p) \in Span(rows[r][c])
  BY <1>3
<1>9. PICK s \in DOMAIN rows, d \in DOMAIN cols :
        /\ Home(q) = <<s, d>> /\ q \in Span(NewRows[s][d])
        /\ Old(q) = rows[s][d].off + (q - NewRows[s][d].off) /\ Old(q) \in Span(rows[s][d])
  BY <1>3
<1>10. r = s /\ c = d
  BY <1>7, <1>8, <1>9 DEF HeapWellFormed
<1> HIDE DEF S, T
<1> QED
  <2>1. p \in Int /\ q \in Int /\ rows[r][c].off \in Nat /\ NewRows[r][c].off \in Nat
    BY <1>1 DEF S
  <2>2. rows[r][c].off + (p - NewRows[r][c].off) = rows[r][c].off + (q - NewRows[r][c].off)
    BY <1>7, <1>8, <1>9, <1>10
  <2>3. p # q
    BY <1>6
  <2> QED
    BY <2>1, <2>2, <2>3

-----------------------------------------------------------------------------
(* What a write does to the heap.                                          *)

\* Every cell holds what was written to it last.
Intact ==
    \A r \in DOMAIN rows, c \in DOMAIN cols :
      \A p \in Span(rows[r][c]) : heap[p] = Byte(<<r, cols[c]>>, p - rows[r][c].off)

\* Between repacks the heap is as long as PCOUNT says.
HeapTyped == heap \in [0..(pcount - 1) -> ByteRec]

\* After the write, cell (r, c) is one that was there and is not written.
Kept(r, c, rs, cs, start) ==
    /\ start = pcount /\ r \in DOMAIN rows
    /\ \E d \in DOMAIN cols : cols'[c] = cols[d] /\ rows'[r][c] = rows[r][d]
    /\ ~(r \in ToSet(rs) /\ cols'[c] \in ToSet(cs))

\* Cell (r, c) is one of those that are written, the last for its row.
Fresh(r, c, rs, cs, lens, start) ==
    \E i \in DOMAIN rs, j \in DOMAIN cs :
      /\ rs[i] = r /\ cs[j] = cols'[c] /\ rows'[r][c] = PlanHeap(lens, start)[i][j]
      /\ \A k \in DOMAIN rs : k > i => rs[k] # rs[i]

\* What the six writes have in common: new values for some rows and some columns, each
\* row and column named by its number, and every other cell as it was.
Updates(n, m, rs, cs, lens, start) ==
    /\ n \in Nat /\ m \in Nat /\ start \in {0, pcount} /\ lens \in Lens(n, m)
    /\ rs \in [1..n -> 1..MaxRows] /\ cs \in [1..m -> 1..MaxCols]
    /\ WriteHeap(rs, cs, lens, start)
    /\ \A c, d \in DOMAIN cols' : cols'[c] = cols'[d] => c = d
    /\ \A r \in DOMAIN rows', c \in DOMAIN cols' :
         Kept(r, c, rs, cs, start) \/ Fresh(r, c, rs, cs, lens, start)

\* The plan of a write.
LEMMA UpdatePlan ==
  ASSUME Shape, NEW n, NEW m, NEW rs, NEW cs, NEW lens, NEW start,
         Updates(n, m, rs, cs, lens, start)
  PROVE  /\ PlanOK(PlanHeap(lens, start), lens, n, m, start)
         /\ start \in Nat /\ pcount \in Nat /\ Size(lens) \in Nat
         /\ pcount' = start + Size(lens) /\ pcount' \in Nat
         /\ DOMAIN rs = 1..n /\ DOMAIN cs = 1..m
         /\ \A i \in 1..n, j \in 1..m : lens[i][j] \in Nat /\ lens[i][j] <= MaxLen
<1>1. /\ n \in Nat /\ m \in Nat /\ lens \in Lens(n, m) /\ pcount' = start + Size(lens)
      /\ DOMAIN rs = 1..n /\ DOMAIN cs = 1..m
  BY DEF Updates, WriteHeap
<1>2. start \in Nat /\ pcount \in Nat
  BY TableFacts DEF Updates
<1>3. lens \in Grid(n, m)
  BY <1>1, LensGrid
<1>4. PlanOK(PlanHeap(lens, start), lens, n, m, start)
  BY <1>1, <1>2, <1>3, PlanFacts
<1>5. Size(lens) \in Nat
  BY <1>4 DEF PlanOK
<1>6. \A i \in 1..n, j \in 1..m : lens[i][j] \in Nat /\ lens[i][j] <= MaxLen
  BY <1>1, LensGrid, HeapBoundAssumption
<1> QED
  BY <1>1, <1>2, <1>4, <1>5, <1>6

\* A write puts new cells behind the old ones, and beside each other.
LEMMA WrittenApart ==
  ASSUME Shape, HeapWellFormed, NEW n, NEW m, NEW rs, NEW cs, NEW lens, NEW start,
         Updates(n, m, rs, cs, lens, start)
  PROVE  HeapWellFormed'
<1> DEFINE plan == PlanHeap(lens, start)
<1>0. /\ PlanOK(plan, lens, n, m, start)
      /\ start \in Nat /\ pcount \in Nat /\ Size(lens) \in Nat
      /\ pcount' = start + Size(lens) /\ pcount' \in Nat
      /\ DOMAIN rs = 1..n /\ DOMAIN cs = 1..m
  BY UpdatePlan
<1>1. /\ \A c, d \in DOMAIN cols' : cols'[c] = cols'[d] => c = d
      /\ \A r \in DOMAIN rows', c \in DOMAIN cols' :
           Kept(r, c, rs, cs, start) \/ Fresh(r, c, rs, cs, lens, start)
  BY DEF Updates
<1> HIDE DEF plan
<1>2. ASSUME NEW i \in 1..n, NEW j \in 1..m
      PROVE  /\ plan[i][j].off \in Nat /\ plan[i][j].len \in Nat /\ start <= plan[i][j].off
             /\ plan[i][j].off + plan[i][j].len <= start + Size(lens)
  BY <1>0 DEF PlanOK
<1>3. ASSUME NEW r \in DOMAIN rows, NEW d \in DOMAIN cols
      PROVE  /\ rows[r][d].off \in Nat /\ rows[r][d].len \in Nat
             /\ rows[r][d].off + rows[r][d].len <= pcount
  BY TableFacts DEF HeapWellFormed, Refused
<1>4. ASSUME NEW r \in DOMAIN rows', NEW c \in DOMAIN cols'
      PROVE  ~(rows'[r][c].off + rows'[r][c].len > pcount')
  <2>1. CASE Kept(r, c, rs, cs, start)
    <3>1. PICK d \in DOMAIN cols : rows'[r][c] = rows[r][d] /\ r \in DOMAIN rows /\ start = pcount
      BY <2>1 DEF Kept
    <3> QED
      BY <1>0, <1>3, <3>1
  <2>2. CASE Fresh(r, c, rs, cs, lens, start)
    <3>1. PICK i \in 1..n, j \in 1..m : rows'[r][c] = plan[i][j]
      BY <1>0, <2>2 DEF Fresh, plan
    <3> QED
      BY <1>0, <1>2, <3>1
  <2> QED
    BY <1>1, <2>1, <2>2
<1>5. ASSUME NEW r \in DOMAIN rows, NEW d \in DOMAIN cols, NEW i \in 1..n, NEW j \in 1..m,
             start = pcount
      PROVE  Span(rows[r][d]) \cap Span(plan[i][j]) = {}
  <2>1. /\ plan[i][j].off \in Nat /\ plan[i][j].len \in Nat
        /\ rows[r][d].off \in Nat /\ rows[r][d].len \in Nat
        /\ rows[r][d].off + rows[r][d].len <= plan[i][j].off
    <3>1. rows[r][d].off + rows[r][d].len <= pcount /\ pcount <= plan[i][j].off
      BY <1>2, <1>3, <1>5
    <3>2. /\ plan[i][j].off \in Nat /\ plan[i][j].len \in Nat
          /\ rows[r][d].off \in Nat /\ rows[r][d].len \in Nat
      BY <1>2, <1>3
    <3> QED
      BY <1>0, <3>1, <3>2
  <2> QED
    BY <2>1 DEF Span
<1>6. ASSUME NEW r \in DOMAIN rows', NEW s \in DOMAIN rows', NEW c \in DOMAIN cols',
             NEW d \in DOMAIN cols', <<r, c>> # <<s, d>>
      PROVE  Span(rows'[r][c]) \cap Span(rows'[s][d]) = {}
  <2>0. r # s \/ cols'[c] # cols'[d]
    BY <1>1, <1>6
  <2>1. CASE Kept(r, c, rs, cs, start) /\ Kept(s, d, rs, cs, start)
    <3>1. PICK e \in DOMAIN cols : cols'[c] = cols[e] /\ rows'[r][c] = rows[r][e] /\ r \in DOMAIN rows
      BY <2>1 DEF Kept
    <3>2. PICK f \in DOMAIN cols : cols'[d] = cols[f] /\ rows'[s][d] = rows[s][f] /\ s \in DOMAIN rows
      BY <2>1 DEF Kept
    <3>3. <<r, e>> # <<s, f>>
      BY <2>0, <3>1, <3>2
    <3> QED
      BY <3>1, <3>2, <3>3 DEF HeapWellFormed
  <2>2. CASE Kept(r, c, rs, cs, start) /\ Fresh(s, d, rs, cs, lens, start)
    <3>1. PICK e \in DOMAIN cols : rows'[r][c] = rows[r][e] /\ r \in DOMAIN rows /\ start = pcount
      BY <2>2 DEF Kept
    <3>2. PICK i \in 1..n, j \in 1..m : rows'[s][d] = plan[i][j]
      BY <1>0, <2>2 DEF Fresh, plan
    <3> QED
      BY <1>5, <3>1, <3>2
  <2>3. CASE Fresh(r, c, rs, cs, lens, start) /\ Kept(s, d, rs, cs, start)
    <3>1. PICK e \in DOMAIN cols : rows'[s][d] = rows[s][e] /\ s \in DOMAIN rows /\ start = pcount
      BY <2>3 DEF Kept
    <3>2. PICK i \in 1..n, j \in 1..m : rows'[r][c] = plan[i][j]
      BY <1>0, <2>3 DEF Fresh, plan
    <3> QED
      BY <1>5, <3>1, <3>2
  <2>4. CASE Fresh(r, c, rs, cs, lens, start) /\ Fresh(s, d, rs, cs, lens, start)
    <3>1. PICK i \in 1..n, j \in 1..m : rows'[r][c] = plan[i][j] /\ rs[i] = r /\ cs[j] = cols'[c]
      BY <1>0, <2>4 DEF Fresh, plan
    <3>2. PICK k \in 1..n, l \in 1..m : rows'[s][d] = plan[k][l] /\ rs[k] = s /\ cs[l] = cols'[d]
      BY <1>0, <2>4 DEF Fresh, plan
    <3>3. <<i, j>> # <<k, l>>
      BY <2>0, <3>1, <3>2
    <3>4. Span(plan[i][j]) \cap Span(plan[k][l]) = {}
      BY <1>0, <3>3, Zenon DEF PlanOK
    <3> QED
      BY <3>1, <3>2, <3>4
  <2> QED
    BY <1>1, <2>1, <2>2, <2>3, <2>4
<1> QED
  BY <1>4, <1>6 DEF HeapWellFormed, Refused

\* The bytes after a write: the new values where they are planned, and before them what
\* was there, without the values that are replaced.
BytesAfter(n, m, rs, cs, plan, start) ==
    /\ \A i \in 1..n, j \in 1..m : \A p \in Span(plan[i][j]) :
         /\ p \in 0..(pcount' - 1)
         /\ heap'[p] = IF \E k \in DOMAIN rs : k > i /\ rs[k] = rs[i] THEN Junk
                       ELSE Byte(<<rs[i], cs[j]>>, p - plan[i][j].off)
    /\ \A p \in 0..(start - 1) :
         /\ p \in 0..(pcount' - 1)
         /\ heap'[p] = IF heap[p].who[1] \in ToSet(rs) /\ heap[p].who[2] \in ToSet(cs)
                       THEN Junk ELSE heap[p]
    /\ \A p \in 0..(pcount' - 1) :
         \/ p \in 0..(start - 1)
         \/ \E i \in 1..n, j \in 1..m : p \in Span(plan[i][j])
    /\ heap' = [p \in 0..(pcount' - 1) |-> heap'[p]]

\* HeapWith leaves the heap like that.
LEMMA WrittenBytes ==
  ASSUME Shape, NEW n, NEW m, NEW rs, NEW cs, NEW lens, NEW start,
         Updates(n, m, rs, cs, lens, start)
  PROVE  BytesAfter(n, m, rs, cs, PlanHeap(lens, start), start)
<1> DEFINE plan == PlanHeap(lens, start)
<1>0. /\ PlanOK(plan, lens, n, m, start)
      /\ start \in Nat /\ pcount \in Nat /\ Size(lens) \in Nat
      /\ pcount' = start + Size(lens) /\ pcount' \in Nat
      /\ DOMAIN rs = 1..n /\ DOMAIN cs = 1..m
  BY UpdatePlan
<1>1. heap' = HeapWith(rs, cs, plan, pcount')
  BY <1>0 DEF Updates, WriteHeap
<1> HIDE DEF plan
<1> DEFINE Here(p) == \E i \in DOMAIN rs, j \in DOMAIN cs : p \in Span(plan[i][j])
<1> DEFINE Home(p) == CHOOSE at \in (DOMAIN rs) \X (DOMAIN cs) : p \in Span(plan[at[1]][at[2]])
<1> DEFINE New(p) == IF \E k \in DOMAIN rs : k > Home(p)[1] /\ rs[k] = rs[Home(p)[1]] THEN Junk
                     ELSE Byte(<<rs[Home(p)[1]], cs[Home(p)[2]]>>,
                               p - plan[Home(p)[1]][Home(p)[2]].off)
<1> DEFINE Old(p) == IF heap[p].who[1] \in ToSet(rs) /\ heap[p].who[2] \in ToSet(cs) THEN Junk
                     ELSE heap[p]
<1>2. heap' = [p \in 0..(pcount' - 1) |-> IF Here(p) THEN New(p) ELSE Old(p)]
  BY <1>1 DEF HeapWith
<1>3. ASSUME NEW i \in 1..n, NEW j \in 1..m, NEW p \in Span(plan[i][j])
      PROVE  Home(p) = <<i, j>>
  <2>1. <<i, j>> \in (DOMAIN rs) \X (DOMAIN cs) /\ p \in Span(plan[<<i, j>>[1]][<<i, j>>[2]])
    BY <1>0, <1>3
  <2>2. Home(p) \in (DOMAIN rs) \X (DOMAIN cs) /\ p \in Span(plan[Home(p)[1]][Home(p)[2]])
    BY <2>1
  <2> HIDE DEF Home
  <2>3. PICK k \in 1..n, l \in 1..m : Home(p) = <<k, l>>
    BY <1>0, <2>2
  <2>4. p \in Span(plan[k][l])
    BY <2>2, <2>3
  <2>5. <<i, j>> # <<k, l>> => Span(plan[i][j]) \cap Span(plan[k][l]) = {}
    BY <1>0, Zenon DEF PlanOK
  <2> QED
    BY <2>3, <2>4, <2>5
<1> HIDE DEF Home
<1>4. ASSUME NEW i \in 1..n, NEW j \in 1..m, NEW p \in Span(plan[i][j])
      PROVE  p \in 0..(pcount' - 1) /\ p >= start /\ Here(p)
  <2>1. /\ plan[i][j].off \in Nat /\ plan[i][j].len \in Nat /\ start <= plan[i][j].off
        /\ plan[i][j].off + plan[i][j].len <= start + Size(lens)
    BY <1>0 DEF PlanOK
  <2>2. p \in Nat /\ plan[i][j].off <= p /\ p < plan[i][j].off + plan[i][j].len
    BY <2>1 DEF Span
  <2>3. p \in 0..(pcount' - 1) /\ p >= start
    BY <1>0, <2>1, <2>2
  <2>4. Here(p)
    BY <1>0
  <2> QED
    BY <2>3, <2>4
<1>5. ASSUME NEW i \in 1..n, NEW j \in 1..m, NEW p \in Span(plan[i][j])
      PROVE  heap'[p] = IF \E k \in DOMAIN rs : k > i /\ rs[k] = rs[i] THEN Junk
                        ELSE Byte(<<rs[i], cs[j]>>, p - plan[i][j].off)
  <2>1. heap'[p] = New(p)
    BY <1>2, <1>4
  <2>2. Home(p) = <<i, j>>
    BY <1>3
  <2> QED
    BY <2>1, <2>2
<1>6. ASSUME NEW p \in 0..(start - 1)
      PROVE  p \in 0..(pcount' - 1) /\ heap'[p] = Old(p)
  <2>1. p \in 0..(pcount' - 1)
    BY <1>0
  <2>2. ~Here(p)
    <3> SUFFICES ASSUME NEW i \in 1..n, NEW j \in 1..m, p \in Span(plan[i][j]) PROVE FALSE
      BY <1>0
    <3>1. p >= start
      BY <1>4
    <3> QED
      BY <1>0, <3>1
  <2> QED
    BY <1>2, <2>1, <2>2
<1>7. ASSUME NEW p \in 0..(pcount' - 1), ~(p \in 0..(start - 1))
      PROVE  \E i \in 1..n, j \in 1..m : p \in Span(plan[i][j])
  <2>1. p \in start..(start + Size(lens) - 1)
    BY <1>0, <1>7
  <2> QED
    BY <1>0, <2>1 DEF PlanOK
<1>8. heap' = [p \in 0..(pcount' - 1) |-> heap'[p]]
  BY <1>2
<1> HIDE DEF Here, New
<1>9. \A i \in 1..n, j \in 1..m : \A p \in Span(plan[i][j]) :
        /\ p \in 0..(pcount' - 1)
        /\ heap'[p] = IF \E k \in DOMAIN rs : k > i /\ rs[k] = rs[i] THEN Junk
                      ELSE Byte(<<rs[i], cs[j]>>, p - plan[i][j].off)
  BY <1>4, <1>5
<1>10. \A p \in 0..(start - 1) :
         /\ p \in 0..(pcount' - 1)
         /\ heap'[p] = IF heap[p].who[1] \in ToSet(rs) /\ heap[p].who[2] \in ToSet(cs)
                       THEN Junk ELSE heap[p]
  BY <1>6
<1>11. \A p \in 0..(pcount' - 1) :
         \/ p \in 0..(start - 1)
         \/ \E i \in 1..n, j \in 1..m : p \in Span(plan[i][j])
  BY <1>7
<1>12. BytesAfter(n, m, rs, cs, plan, start)
  BY <1>8, <1>9, <1>10, <1>11, Zenon DEF BytesAfter
<1> QED
  BY <1>12 DEF plan

\* Every byte is again one of a cell, or junk.
LEMMA WrittenTyped ==
  ASSUME Shape, HeapTyped, NEW n, NEW m, NEW rs, NEW cs, NEW lens, NEW start,
         Updates(n, m, rs, cs, lens, start)
  PROVE  HeapTyped'
<1> DEFINE plan == PlanHeap(lens, start)
<1>0. /\ PlanOK(plan, lens, n, m, start)
      /\ start \in Nat /\ pcount \in Nat /\ pcount' \in Nat
      /\ \A i \in 1..n, j \in 1..m : lens[i][j] \in Nat /\ lens[i][j] <= MaxLen
  BY UpdatePlan
<1>1. /\ \A i \in 1..n, j \in 1..m : \A p \in Span(plan[i][j]) :
           heap'[p] = IF \E k \in DOMAIN rs : k > i /\ rs[k] = rs[i] THEN Junk
                      ELSE Byte(<<rs[i], cs[j]>>, p - plan[i][j].off)
      /\ \A p \in 0..(start - 1) :
           heap'[p] = IF heap[p].who[1] \in ToSet(rs) /\ heap[p].who[2] \in ToSet(cs)
                      THEN Junk ELSE heap[p]
      /\ \A p \in 0..(pcount' - 1) :
           \/ p \in 0..(start - 1)
           \/ \E i \in 1..n, j \in 1..m : p \in Span(plan[i][j])
      /\ heap' = [p \in 0..(pcount' - 1) |-> heap'[p]]
  <2>1. BytesAfter(n, m, rs, cs, plan, start)
    BY WrittenBytes
  <2> HIDE DEF plan
  <2> QED
    BY <2>1, Zenon DEF BytesAfter
<1> HIDE DEF plan
<1>2. Junk \in ByteRec
  BY HeapBoundAssumption DEF Junk, Byte, ByteRec
<1>3. ASSUME NEW p \in 0..(start - 1) PROVE heap'[p] \in ByteRec
  <2>1. start \in {0, pcount}
    BY DEF Updates
  <2>2. p \in 0..(pcount - 1)
    BY <1>0, <2>1
  <2>3. heap[p] \in ByteRec
    BY <2>2 DEF HeapTyped
  <2> QED
    BY <1>1, <1>2, <2>3
<1>4. ASSUME NEW i \in 1..n, NEW j \in 1..m, NEW p \in Span(plan[i][j]) PROVE heap'[p] \in ByteRec
  <2>1. /\ plan[i][j].off \in Nat /\ plan[i][j].len \in Nat /\ plan[i][j].len <= MaxLen
    BY <1>0 DEF PlanOK
  <2>2. p - plan[i][j].off \in 0..MaxLen
    <3>1. p \in plan[i][j].off..(plan[i][j].off + plan[i][j].len - 1)
      BY DEF Span
    <3> QED
      BY <2>1, <3>1, HeapBoundAssumption
  <2>3. rs[i] \in 0..MaxRows /\ cs[j] \in 0..MaxCols
    BY HeapBoundAssumption DEF Updates
  <2>4. Byte(<<rs[i], cs[j]>>, p - plan[i][j].off) \in ByteRec
    BY <2>2, <2>3 DEF Byte, ByteRec
  <2> QED
    BY <1>1, <1>2, <2>4
<1>5. \A p \in 0..(pcount' - 1) : heap'[p] \in ByteRec
  BY <1>1, <1>3, <1>4
<1> QED
  BY <1>1, <1>5 DEF HeapTyped

\* Every cell reads back the value it was given last.
LEMMA WrittenIntact ==
  ASSUME Shape, HeapWellFormed, Intact, NEW n, NEW m, NEW rs, NEW cs, NEW lens, NEW start,
         Updates(n, m, rs, cs, lens, start)
  PROVE  Intact'
<1> DEFINE plan == PlanHeap(lens, start)
<1>0. /\ PlanOK(plan, lens, n, m, start)
      /\ start \in Nat /\ pcount \in Nat /\ pcount' \in Nat
      /\ DOMAIN rs = 1..n /\ DOMAIN cs = 1..m
  BY UpdatePlan
<1>1. /\ \A i \in 1..n, j \in 1..m : \A p \in Span(plan[i][j]) :
           heap'[p] = IF \E k \in DOMAIN rs : k > i /\ rs[k] = rs[i] THEN Junk
                      ELSE Byte(<<rs[i], cs[j]>>, p - plan[i][j].off)
      /\ \A p \in 0..(start - 1) :
           heap'[p] = IF heap[p].who[1] \in ToSet(rs) /\ heap[p].who[2] \in ToSet(cs)
                      THEN Junk ELSE heap[p]
  <2>1. BytesAfter(n, m, rs, cs, plan, start)
    BY WrittenBytes
  <2> HIDE DEF plan
  <2> QED
    BY <2>1, Zenon DEF BytesAfter
<1> HIDE DEF plan
<1>2. ASSUME NEW r \in DOMAIN rows', NEW c \in DOMAIN cols', NEW p \in Span(rows'[r][c])
      PROVE  heap'[p] = Byte(<<r, cols'[c]>>, p - rows'[r][c].off)
  <2>1. CASE Kept(r, c, rs, cs, start)
    <3>1. PICK d \in DOMAIN cols : /\ cols'[c] = cols[d] /\ rows'[r][c] = rows[r][d]
                                   /\ r \in DOMAIN rows /\ start = pcount
                                   /\ ~(r \in ToSet(rs) /\ cols'[c] \in ToSet(cs))
      BY <2>1 DEF Kept
    <3>2. heap[p] = Byte(<<r, cols[d]>>, p - rows[r][d].off)
      BY <1>2, <3>1 DEF Intact
    <3>3. p \in 0..(start - 1)
      <4>1. /\ rows[r][d].off \in Nat /\ rows[r][d].len \in Nat
            /\ rows[r][d].off + rows[r][d].len <= pcount
        BY <3>1, TableFacts DEF HeapWellFormed, Refused
      <4> QED
        BY <1>0, <1>2, <3>1, <4>1 DEF Span
    <3>4. heap[p].who[1] = r /\ heap[p].who[2] = cols'[c]
      BY <3>1, <3>2 DEF Byte
    <3>5. heap'[p] = heap[p]
      BY <1>1, <3>1, <3>3, <3>4
    <3> QED
      BY <3>1, <3>2, <3>5
  <2>2. CASE Fresh(r, c, rs, cs, lens, start)
    <3>1. PICK i \in 1..n, j \in 1..m :
            /\ rs[i] = r /\ cs[j] = cols'[c] /\ rows'[r][c] = plan[i][j]
            /\ \A k \in DOMAIN rs : k > i => rs[k] # rs[i]
      BY <1>0, <2>2 DEF Fresh, plan
    <3>2. p \in Span(plan[i][j])
      BY <1>2, <3>1
    <3>3. heap'[p] = Byte(<<rs[i], cs[j]>>, p - plan[i][j].off)
      BY <1>1, <3>1, <3>2
    <3> QED
      BY <3>1, <3>3
  <2> QED
    BY <2>1, <2>2 DEF Updates
<1> QED
  BY <1>2 DEF Intact

-----------------------------------------------------------------------------
(* The sequences that the writes make.                                     *)

\* Taking one element out of a sequence.
LEMMA TakenOut ==
  ASSUME NEW E, NEW s \in Seq(E), NEW p \in DOMAIN s
  PROVE  /\ RemoveAt(s, p) \in [1..(Len(s) - 1) -> E] /\ Len(s) - 1 \in Nat
         /\ \A i \in 1..(Len(s) - 1) :
              RemoveAt(s, p)[i] = IF i < p THEN s[i] ELSE s[i + 1]
<1> DEFINE a == SubSeq(s, 1, p - 1)
           b == SubSeq(s, p + 1, Len(s))
           d == RemoveAt(s, p)
<1>0. Len(s) \in Nat /\ p \in 1..Len(s) /\ \A i \in 1..Len(s) : s[i] \in E
  OBVIOUS
<1>1. a \in Seq(E) /\ Len(a) = p - 1 /\ \A i \in 1..(p - 1) : a[i] = s[i]
  <2>1. /\ a \in Seq(E) /\ Len(a) = IF 1 <= p - 1 THEN (p - 1) - 1 + 1 ELSE 0
        /\ \A i \in 1..((p - 1) - 1 + 1) : a[i] = s[1 + i - 1]
    BY <1>0, SubSeqProperties
  <2> QED
    BY <1>0, <2>1
<1>2. b \in Seq(E) /\ Len(b) = Len(s) - p /\ \A i \in 1..(Len(s) - p) : b[i] = s[p + i]
  <2>1. /\ b \in Seq(E) /\ Len(b) = IF p + 1 <= Len(s) THEN Len(s) - (p + 1) + 1 ELSE 0
        /\ \A i \in 1..(Len(s) - (p + 1) + 1) : b[i] = s[(p + 1) + i - 1]
    BY <1>0, SubSeqProperties
  <2> QED
    BY <1>0, <2>1
<1>3. d = a \o b
  BY DEF RemoveAt
<1> HIDE DEF a, b, d
<1>4. /\ d \in Seq(E) /\ Len(d) = Len(a) + Len(b)
      /\ \A i \in 1..(Len(a) + Len(b)) : d[i] = IF i <= Len(a) THEN a[i] ELSE b[i - Len(a)]
  BY <1>1, <1>2, <1>3, ConcatProperties
<1>5. Len(a) = p - 1 /\ Len(a) + Len(b) = Len(s) - 1 /\ Len(s) - 1 \in Nat
  BY <1>0, <1>1, <1>2
<1>6. d \in [1..(Len(s) - 1) -> E]
  BY <1>4, <1>5, LenProperties
<1>7. ASSUME NEW i \in 1..(Len(s) - 1) PROVE d[i] = IF i < p THEN s[i] ELSE s[i + 1]
  <2>0. d[i] = IF i <= p - 1 THEN a[i] ELSE b[i - (p - 1)]
    BY <1>4, <1>5
  <2>1. CASE i < p
    <3>1. i <= p - 1 /\ i \in 1..(p - 1)
      BY <1>0, <2>1
    <3> QED
      BY <1>1, <2>0, <2>1, <3>1
  <2>2. CASE ~(i < p)
    <3>1. i - (p - 1) \in 1..(Len(s) - p) /\ p + (i - (p - 1)) = i + 1 /\ ~(i <= p - 1)
      BY <1>0, <2>2
    <3>2. b[i - (p - 1)] = s[i + 1]
      BY <1>2, <3>1
    <3> QED
      BY <2>0, <2>2, <3>1, <3>2
  <2> QED
    BY <2>1, <2>2
<1>8. /\ d \in [1..(Len(s) - 1) -> E] /\ Len(s) - 1 \in Nat
      /\ \A i \in 1..(Len(s) - 1) : d[i] = IF i < p THEN s[i] ELSE s[i + 1]
  BY <1>5, <1>6, <1>7
<1> QED
  BY <1>8 DEF d

\* Putting one element into a sequence.
LEMMA PutIn ==
  ASSUME NEW E, NEW s \in Seq(E), NEW e \in E, NEW p \in 1..(Len(s) + 1)
  PROVE  /\ InsertAt(s, p, e) \in [1..(Len(s) + 1) -> E]
         /\ \A i \in 1..(Len(s) + 1) :
              InsertAt(s, p, e)[i] = IF i < p THEN s[i] ELSE IF i = p THEN e ELSE s[i - 1]
<1> DEFINE a == SubSeq(s, 1, p - 1)
           b == SubSeq(s, p, Len(s))
           o == <<e>>
           h == a \o o
           d == InsertAt(s, p, e)
<1>0. Len(s) \in Nat /\ p \in 1..(Len(s) + 1) /\ \A i \in 1..Len(s) : s[i] \in E
  OBVIOUS
<1>1. a \in Seq(E) /\ Len(a) = p - 1 /\ \A i \in 1..(p - 1) : a[i] = s[i]
  <2>1. \A i \in 1..(p - 1) : s[i] \in E
    BY <1>0
  <2>2. /\ a \in Seq(E) /\ Len(a) = IF 1 <= p - 1 THEN (p - 1) - 1 + 1 ELSE 0
        /\ \A i \in 1..((p - 1) - 1 + 1) : a[i] = s[1 + i - 1]
    BY <1>0, <2>1, SubSeqProperties
  <2> QED
    BY <1>0, <2>2
<1>2. b \in Seq(E) /\ Len(b) = Len(s) - p + 1 /\ \A i \in 1..(Len(s) - p + 1) : b[i] = s[p - 1 + i]
  <2>1. /\ b \in Seq(E) /\ Len(b) = IF p <= Len(s) THEN Len(s) - p + 1 ELSE 0
        /\ \A i \in 1..(Len(s) - p + 1) : b[i] = s[p + i - 1]
    BY <1>0, SubSeqProperties
  <2> QED
    BY <1>0, <2>1
<1>3. d = h \o b
  BY DEF InsertAt
<1>4. o \in Seq(E) /\ Len(o) = 1 /\ o[1] = e
  OBVIOUS
<1> HIDE DEF a, b, d, o
<1>5. /\ h \in Seq(E) /\ Len(h) = Len(a) + Len(o)
      /\ \A i \in 1..(Len(a) + Len(o)) : h[i] = IF i <= Len(a) THEN a[i] ELSE o[i - Len(a)]
  BY <1>1, <1>4, ConcatProperties
<1> HIDE DEF h
<1>6. Len(h) = p /\ \A i \in 1..p : h[i] = IF i < p THEN s[i] ELSE e
  <2>1. Len(a) = p - 1 /\ Len(o) = 1 /\ Len(a) + Len(o) = p
    BY <1>0, <1>1, <1>4
  <2>2. ASSUME NEW i \in 1..p PROVE h[i] = IF i < p THEN s[i] ELSE e
    <3>1. h[i] = IF i <= p - 1 THEN a[i] ELSE o[i - (p - 1)]
      BY <1>5, <2>1
    <3>2. CASE i < p
      <4>1. i <= p - 1 /\ i \in 1..(p - 1)
        BY <1>0, <3>2
      <4> QED
        BY <1>1, <3>1, <3>2, <4>1
    <3>3. CASE ~(i < p)
      <4>1. i - (p - 1) = 1 /\ ~(i <= p - 1)
        BY <1>0, <3>3
      <4> QED
        BY <1>4, <3>1, <3>3, <4>1
    <3> QED
      BY <3>2, <3>3
  <2> QED
    BY <1>5, <2>1, <2>2
<1>7. /\ d \in Seq(E) /\ Len(d) = Len(h) + Len(b)
      /\ \A i \in 1..(Len(h) + Len(b)) : d[i] = IF i <= Len(h) THEN h[i] ELSE b[i - Len(h)]
  <2>1. h \in Seq(E) /\ b \in Seq(E)
    BY <1>2, <1>5
  <2>2. /\ h \o b \in Seq(E) /\ Len(h \o b) = Len(h) + Len(b)
        /\ \A i \in 1..(Len(h) + Len(b)) :
             (h \o b)[i] = IF i <= Len(h) THEN h[i] ELSE b[i - Len(h)]
    BY <2>1, ConcatProperties
  <2> QED
    BY <1>3, <2>2
<1>8. Len(h) + Len(b) = Len(s) + 1
  BY <1>0, <1>2, <1>6
<1>9. d \in [1..(Len(s) + 1) -> E]
  BY <1>7, <1>8, LenProperties
<1>10. ASSUME NEW i \in 1..(Len(s) + 1)
       PROVE  d[i] = IF i < p THEN s[i] ELSE IF i = p THEN e ELSE s[i - 1]
  <2>0. d[i] = IF i <= p THEN h[i] ELSE b[i - p]
    BY <1>6, <1>7, <1>8
  <2>1. CASE i <= p
    <3>1. i \in 1..p
      BY <1>0, <2>1
    <3>2. h[i] = IF i < p THEN s[i] ELSE e
      BY <1>6, <3>1
    <3>3. ~(i < p) => i = p
      BY <1>0, <2>1
    <3> QED
      BY <2>0, <2>1, <3>2, <3>3
  <2>2. CASE ~(i <= p)
    <3>1. i - p \in 1..(Len(s) - p + 1) /\ p - 1 + (i - p) = i - 1 /\ ~(i < p) /\ i # p
      BY <1>0, <2>2
    <3>2. b[i - p] = s[i - 1]
      BY <1>2, <3>1
    <3> QED
      BY <2>0, <2>2, <3>1, <3>2
  <2> QED
    BY <2>1, <2>2
<1>11. /\ d \in [1..(Len(s) + 1) -> E]
       /\ \A i \in 1..(Len(s) + 1) : d[i] = IF i < p THEN s[i] ELSE IF i = p THEN e ELSE s[i - 1]
  BY <1>9, <1>10
<1> QED
  BY <1>11, Zenon DEF d

-----------------------------------------------------------------------------
(* Every write is such an update.                                          *)

\* The size of the heap after a write, and what a write leaves alone.
LEMMA WriteShape ==
  ASSUME Shape, NEW n, NEW m, NEW rs, NEW cs, NEW lens, NEW start,
         Updates(n, m, rs, cs, lens, start),
         cols' \in Seq(1..MaxCols), rows' \in Seq([DOMAIN cols' -> CellRec]), Len(rows') <= MaxRows
  PROVE  Shape'
<1>1. pcount' = start + Size(lens) /\ pcount' \in Nat
  BY UpdatePlan
<1>2. pcount' <= MaxHeap /\ tainted' \in BOOLEAN
  BY <1>1 DEF Updates, WriteHeap, Shape
<1>3. \A c, d \in DOMAIN cols' : cols'[c] = cols'[d] => c = d
  BY DEF Updates
<1>4. pcount' \in 0..MaxHeap
  BY <1>1, <1>2, HeapBoundAssumption
<1> QED
  BY <1>2, <1>3, <1>4 DEF Shape

\* All rows, as a sequence.
LEMMA AllRowsFacts ==
  ASSUME Shape
  PROVE  /\ AllRows \in [1..Len(rows) -> 1..MaxRows]
         /\ \A r \in DOMAIN rows : AllRows[r] = r /\ r \in ToSet(AllRows)
<1>1. Len(rows) \in Nat /\ DOMAIN rows = 1..Len(rows) /\ Len(rows) <= MaxRows
  BY TableFacts DEF Shape
<1>2. AllRows = [r \in 1..Len(rows) |-> r]
  BY <1>1 DEF AllRows
<1>3. \A r \in 1..Len(rows) : r \in 1..MaxRows
  BY <1>1, HeapBoundAssumption
<1> QED
  BY <1>1, <1>2, <1>3 DEF ToSet

\* write_vla_aware.
LEMMA WriteAllUpdates ==
  ASSUME Shape, NEW lens \in Lens(Len(rows), Len(cols)), WriteAll(lens)
  PROVE  Updates(Len(rows), Len(cols), AllRows, cols, lens, 0) /\ Shape'
<1>0. /\ Len(rows) \in Nat /\ DOMAIN rows = 1..Len(rows) /\ Len(rows) <= MaxRows
      /\ Len(cols) \in Nat /\ DOMAIN cols = 1..Len(cols)
      /\ cols \in [1..Len(cols) -> 1..MaxCols] /\ cols \in Seq(1..MaxCols)
  BY TableFacts, LenProperties DEF Shape
<1>1. /\ cols' = cols /\ rows' = PlanHeap(lens, 0) /\ WriteHeap(AllRows, cols, lens, 0)
  BY DEF WriteAll
<1>2. rows' \in [1..Len(rows) -> [DOMAIN cols' -> CellRec]]
  BY <1>0, <1>1, PlanTyped
<1>3. rows' \in Seq([DOMAIN cols' -> CellRec]) /\ Len(rows') = Len(rows) /\ DOMAIN rows' = 1..Len(rows)
  BY <1>0, <1>2, FunIsSeq
<1>4. ASSUME NEW r \in DOMAIN rows', NEW c \in DOMAIN cols'
      PROVE  Fresh(r, c, AllRows, cols, lens, 0)
  <2>1. /\ r \in DOMAIN AllRows /\ c \in DOMAIN cols /\ AllRows[r] = r /\ cols[c] = cols'[c]
        /\ rows'[r][c] = PlanHeap(lens, 0)[r][c]
    BY <1>0, <1>1, <1>3, AllRowsFacts
  <2>2. ASSUME NEW k \in DOMAIN AllRows, k > r PROVE AllRows[k] # AllRows[r]
    <3>1. k \in DOMAIN rows /\ r \in DOMAIN rows /\ k \in Nat /\ r \in Nat
      BY <1>0, <1>3, AllRowsFacts
    <3>2. AllRows[k] = k /\ AllRows[r] = r
      BY <3>1, AllRowsFacts
    <3> QED
      BY <2>2, <3>1, <3>2
  <2> QED
    BY <2>1, <2>2 DEF Fresh
<1>5. Updates(Len(rows), Len(cols), AllRows, cols, lens, 0)
  <2>1. /\ \A c, d \in DOMAIN cols' : cols'[c] = cols'[d] => c = d
        /\ AllRows \in [1..Len(rows) -> 1..MaxRows]
    BY <1>1, AllRowsFacts DEF Shape
  <2> QED
    BY <1>0, <1>1, <1>4, <2>1 DEF Updates
<1>6. cols' \in Seq(1..MaxCols) /\ Len(rows') <= MaxRows
  BY <1>0, <1>1, <1>3
<1> QED
  BY <1>3, <1>5, <1>6, WriteShape

\* append_vla_aware.
LEMMA AppendRowUpdates ==
  ASSUME Shape, NEW lens \in Lens(1, Len(cols)), AppendRow(lens)
  PROVE  Updates(1, Len(cols), <<Len(rows) + 1>>, cols, lens, pcount) /\ Shape'
<1> DEFINE R == Len(rows)
           rs == <<R + 1>>
           new == PlanHeap(lens, pcount)[1]
<1>0. /\ R \in Nat /\ DOMAIN rows = 1..R /\ R < MaxRows
      /\ Len(cols) \in Nat /\ DOMAIN cols = 1..Len(cols) /\ pcount \in Nat
      /\ cols \in [1..Len(cols) -> 1..MaxCols] /\ cols \in Seq(1..MaxCols)
      /\ rows \in Seq([DOMAIN cols -> CellRec])
  BY TableFacts, LenProperties DEF Shape, AppendRow
<1>1. /\ cols' = cols /\ rows' = Append(rows, new) /\ WriteHeap(rs, cols, lens, pcount)
  BY DEF AppendRow
<1>2. new \in [DOMAIN cols -> CellRec]
  <2>1. PlanHeap(lens, pcount) \in [1..1 -> [1..Len(cols) -> CellRec]]
    BY <1>0, PlanTyped
  <2> QED
    BY <1>0, <2>1
<1>2a. rs \in [1..1 -> 1..MaxRows] /\ rs[1] = R + 1
  BY <1>0, HeapBoundAssumption
<1> HIDE DEF R, rs, new
<1>3. /\ rows' \in Seq([DOMAIN cols -> CellRec]) /\ Len(rows') = R + 1 /\ DOMAIN rows' = 1..(R + 1)
      /\ \A r \in 1..R : rows'[r] = rows[r]
      /\ rows'[R + 1] = new
  BY <1>0, <1>1, <1>2, AppendProperties, LenProperties DEF R
<1>4. ASSUME NEW r \in DOMAIN rows', NEW c \in DOMAIN cols'
      PROVE  Kept(r, c, rs, cols, pcount) \/ Fresh(r, c, rs, cols, lens, pcount)
  <2>1. CASE r \in 1..R
    <3>1. r \notin ToSet(rs)
      BY <1>0, <1>2a, <2>1 DEF ToSet
    <3>2. r \in DOMAIN rows /\ rows'[r][c] = rows[r][c] /\ cols'[c] = cols[c] /\ c \in DOMAIN cols
      BY <1>0, <1>1, <1>3, <2>1
    <3> QED
      BY <3>1, <3>2 DEF Kept
  <2>2. CASE r = R + 1
    <3>1. /\ 1 \in DOMAIN rs /\ rs[1] = r /\ c \in DOMAIN cols /\ cols[c] = cols'[c]
          /\ rows'[r][c] = PlanHeap(lens, pcount)[1][c]
      BY <1>1, <1>2a, <1>3, <2>2 DEF new
    <3>2. \A k \in DOMAIN rs : k > 1 => rs[k] # rs[1]
      BY <1>2a
    <3> QED
      BY <3>1, <3>2 DEF Fresh
  <2> QED
    BY <1>0, <1>3, <2>1, <2>2
<1>5. Updates(1, Len(cols), rs, cols, lens, pcount)
  <2>1. /\ \A c, d \in DOMAIN cols' : cols'[c] = cols'[d] => c = d
    BY <1>1 DEF Shape
  <2> QED
    BY <1>0, <1>1, <1>2a, <1>4, <2>1 DEF Updates
<1>6. cols' \in Seq(1..MaxCols) /\ Len(rows') <= MaxRows /\ rows' \in Seq([DOMAIN cols' -> CellRec])
  BY <1>0, <1>1, <1>3, HeapBoundAssumption
<1>7. Shape'
  BY <1>5, <1>6, WriteShape
<1> QED
  BY <1>5, <1>7 DEF rs, R

\* setitem_cell_vla.
LEMMA SetCellUpdates ==
  ASSUME Shape, NEW r \in DOMAIN rows, NEW c \in DOMAIN cols, NEW lens \in Lens(1, 1),
         SetCell(r, c, lens)
  PROVE  Updates(1, 1, <<r>>, <<cols[c]>>, lens, pcount) /\ Shape'
<1> DEFINE rs == <<r>>
           cs == <<cols[c]>>
           new == PlanHeap(lens, pcount)[1][1]
<1>0. /\ DOMAIN rows = 1..Len(rows) /\ Len(rows) \in Nat /\ Len(rows) <= MaxRows
      /\ DOMAIN cols = 1..Len(cols) /\ Len(cols) \in Nat /\ pcount \in Nat
      /\ cols \in Seq(1..MaxCols) /\ rows \in Seq([DOMAIN cols -> CellRec])
      /\ \A s \in DOMAIN rows : rows[s] \in [DOMAIN cols -> CellRec]
      /\ \A d, e \in DOMAIN cols : cols[d] = cols[e] => d = e
  BY TableFacts DEF Shape
<1>1. /\ cols' = cols /\ rows' = [rows EXCEPT ![r][c] = new] /\ WriteHeap(rs, cs, lens, pcount)
  BY DEF SetCell
<1>2. new \in CellRec
  <2>1. PlanHeap(lens, pcount) \in [1..1 -> [1..1 -> CellRec]]
    BY <1>0, PlanTyped
  <2> QED
    BY <2>1
<1>3. /\ rs \in [1..1 -> 1..MaxRows] /\ rs[1] = r /\ cs \in [1..1 -> 1..MaxCols] /\ cs[1] = cols[c]
  BY <1>0, HeapBoundAssumption
<1>4. ToSet(rs) = {r} /\ ToSet(cs) = {cols[c]}
  BY <1>3 DEF ToSet
<1> HIDE DEF rs, cs, new
<1>5. /\ DOMAIN rows' = DOMAIN rows
      /\ \A s \in DOMAIN rows : rows'[s] \in [DOMAIN cols -> CellRec]
      /\ \A s \in DOMAIN rows, d \in DOMAIN cols :
           rows'[s][d] = IF s = r /\ d = c THEN new ELSE rows[s][d]
  BY <1>0, <1>1, <1>2
<1>6. rows' \in Seq([DOMAIN cols' -> CellRec]) /\ Len(rows') = Len(rows)
  <2>1. rows' = [s \in 1..Len(rows) |-> rows'[s]]
    BY <1>0, <1>1
  <2>2. rows' \in [1..Len(rows) -> [DOMAIN cols' -> CellRec]]
    BY <1>0, <1>1, <1>5, <2>1
  <2> QED
    BY <1>0, <2>2, FunIsSeq
<1>7. ASSUME NEW s \in DOMAIN rows', NEW d \in DOMAIN cols'
      PROVE  Kept(s, d, rs, cs, pcount) \/ Fresh(s, d, rs, cs, lens, pcount)
  <2>1. CASE s = r /\ d = c
    <3>1. /\ 1 \in DOMAIN rs /\ rs[1] = s /\ 1 \in DOMAIN cs /\ cs[1] = cols'[d]
          /\ rows'[s][d] = PlanHeap(lens, pcount)[1][1]
      BY <1>1, <1>3, <1>5, <2>1 DEF new
    <3>2. \A k \in DOMAIN rs : k > 1 => rs[k] # rs[1]
      BY <1>3
    <3> QED
      BY <3>1, <3>2 DEF Fresh
  <2>2. CASE ~(s = r /\ d = c)
    <3>1. s \in DOMAIN rows /\ d \in DOMAIN cols /\ cols'[d] = cols[d] /\ rows'[s][d] = rows[s][d]
      BY <1>1, <1>5, <2>2
    <3>2. ~(s \in ToSet(rs) /\ cols'[d] \in ToSet(cs))
      BY <1>0, <1>4, <2>2, <3>1
    <3> QED
      BY <3>1, <3>2 DEF Kept
  <2> QED
    BY <2>1, <2>2
<1>8. Updates(1, 1, rs, cs, lens, pcount)
  BY <1>0, <1>1, <1>3, <1>7 DEF Updates
<1>9. Shape'
  BY <1>0, <1>1, <1>6, <1>8, WriteShape
<1> QED
  BY <1>8, <1>9 DEF rs, cs

\* setitem_single_column_vla.
LEMMA SetColumnUpdates ==
  ASSUME Shape, NEW c \in DOMAIN cols, NEW lens \in Lens(Len(rows), 1), SetColumn(c, lens)
  PROVE  Updates(Len(rows), 1, AllRows, <<cols[c]>>, lens, pcount) /\ Shape'
<1> DEFINE rs == AllRows
           cs == <<cols[c]>>
           new == PlanHeap(lens, pcount)
<1>0. /\ DOMAIN rows = 1..Len(rows) /\ Len(rows) \in Nat /\ Len(rows) <= MaxRows
      /\ DOMAIN cols = 1..Len(cols) /\ Len(cols) \in Nat /\ pcount \in Nat
      /\ cols \in Seq(1..MaxCols)
      /\ \A s \in DOMAIN rows : rows[s] \in [DOMAIN cols -> CellRec]
      /\ \A d, e \in DOMAIN cols : cols[d] = cols[e] => d = e
  BY TableFacts DEF Shape
<1>1. /\ cols' = cols /\ rows' = [s \in DOMAIN rows |-> [rows[s] EXCEPT ![c] = new[s][1]]]
      /\ WriteHeap(rs, cs, lens, pcount)
  BY DEF SetColumn
<1>2. \A s \in DOMAIN rows : new[s][1] \in CellRec
  <2>1. new \in [1..Len(rows) -> [1..1 -> CellRec]]
    BY <1>0, PlanTyped
  <2> QED
    BY <1>0, <2>1
<1>3. /\ rs \in [1..Len(rows) -> 1..MaxRows] /\ \A s \in DOMAIN rows : rs[s] = s
      /\ cs \in [1..1 -> 1..MaxCols] /\ cs[1] = cols[c]
  <2>1. rs \in [1..Len(rows) -> 1..MaxRows] /\ \A s \in DOMAIN rows : rs[s] = s
    BY AllRowsFacts
  <2>2. cs \in [1..1 -> 1..MaxCols] /\ cs[1] = cols[c]
    BY <1>0, HeapBoundAssumption
  <2> QED
    BY <2>1, <2>2
<1>4. ToSet(cs) = {cols[c]}
  BY <1>3 DEF ToSet
<1> HIDE DEF rs, cs, new
<1>5. /\ DOMAIN rows' = DOMAIN rows
      /\ \A s \in DOMAIN rows : rows'[s] \in [DOMAIN cols -> CellRec]
      /\ \A s \in DOMAIN rows, d \in DOMAIN cols :
           rows'[s][d] = IF d = c THEN new[s][1] ELSE rows[s][d]
  BY <1>0, <1>1, <1>2
<1>6. rows' \in Seq([DOMAIN cols' -> CellRec]) /\ Len(rows') = Len(rows)
  <2>1. rows' = [s \in DOMAIN rows |-> rows'[s]]
    BY <1>1, Zenon
  <2>2. rows' \in [1..Len(rows) -> [DOMAIN cols' -> CellRec]]
    BY <1>0, <1>1, <1>5, <2>1
  <2> QED
    BY <1>0, <2>2, FunIsSeq
<1>7. ASSUME NEW s \in DOMAIN rows', NEW d \in DOMAIN cols'
      PROVE  Kept(s, d, rs, cs, pcount) \/ Fresh(s, d, rs, cs, lens, pcount)
  <2>1. CASE d = c
    <3>1. /\ s \in DOMAIN rs /\ rs[s] = s /\ 1 \in DOMAIN cs /\ cs[1] = cols'[d]
          /\ rows'[s][d] = PlanHeap(lens, pcount)[s][1]
      BY <1>0, <1>1, <1>3, <1>5, <2>1 DEF new
    <3>2. \A k \in DOMAIN rs : k > s => rs[k] # rs[s]
      BY <1>0, <1>3, <1>5
    <3> QED
      BY <3>1, <3>2 DEF Fresh
  <2>2. CASE ~(d = c)
    <3>1. s \in DOMAIN rows /\ d \in DOMAIN cols /\ cols'[d] = cols[d] /\ rows'[s][d] = rows[s][d]
      BY <1>1, <1>5, <2>2
    <3>2. cols'[d] \notin ToSet(cs)
      BY <1>0, <1>4, <2>2, <3>1
    <3> QED
      BY <3>1, <3>2 DEF Kept
  <2> QED
    BY <2>1, <2>2
<1>8. Updates(Len(rows), 1, rs, cs, lens, pcount)
  BY <1>0, <1>1, <1>3, <1>7 DEF Updates
<1>9. Shape'
  BY <1>0, <1>1, <1>6, <1>8, WriteShape
<1> QED
  BY <1>8, <1>9 DEF rs, cs

\* setitem_rows_vla_aware_inner: of a row that is named twice, the second record counts.
LEMMA SetTwoRowsUpdates ==
  ASSUME Shape, NEW r \in DOMAIN rows, NEW s \in DOMAIN rows, NEW lens \in Lens(2, Len(cols)),
         SetTwoRows(r, s, lens)
  PROVE  Updates(2, Len(cols), <<r, s>>, cols, lens, pcount) /\ Shape'
<1> DEFINE rs == <<r, s>>
           new == PlanHeap(lens, pcount)
<1>0. /\ DOMAIN rows = 1..Len(rows) /\ Len(rows) \in Nat /\ Len(rows) <= MaxRows
      /\ DOMAIN cols = 1..Len(cols) /\ Len(cols) \in Nat /\ pcount \in Nat
      /\ cols \in Seq(1..MaxCols) /\ cols \in [1..Len(cols) -> 1..MaxCols]
      /\ \A q \in DOMAIN rows : rows[q] \in [DOMAIN cols -> CellRec]
      /\ \A d, e \in DOMAIN cols : cols[d] = cols[e] => d = e
  BY TableFacts, LenProperties DEF Shape
<1>1. /\ cols' = cols /\ rows' = [rows EXCEPT ![r] = new[1], ![s] = new[2]]
      /\ WriteHeap(rs, cols, lens, pcount)
  BY DEF SetTwoRows
<1>2. new[1] \in [DOMAIN cols -> CellRec] /\ new[2] \in [DOMAIN cols -> CellRec]
  <2>1. new \in [1..2 -> [1..Len(cols) -> CellRec]]
    BY <1>0, PlanTyped
  <2> QED
    BY <1>0, <2>1
<1>3. /\ rs \in [1..2 -> 1..MaxRows] /\ rs[1] = r /\ rs[2] = s
  BY <1>0, HeapBoundAssumption
<1>4. ToSet(rs) = {r, s}
  BY <1>3 DEF ToSet
<1> HIDE DEF rs, new
<1>5. /\ DOMAIN rows' = DOMAIN rows
      /\ \A q \in DOMAIN rows : rows'[q] \in [DOMAIN cols -> CellRec]
      /\ \A q \in DOMAIN rows : rows'[q] = IF q = s THEN new[2] ELSE IF q = r THEN new[1] ELSE rows[q]
  BY <1>0, <1>1, <1>2
<1>6. rows' \in Seq([DOMAIN cols' -> CellRec]) /\ Len(rows') = Len(rows)
  <2>1. rows' = [q \in 1..Len(rows) |-> rows'[q]]
    BY <1>0, <1>1
  <2>2. rows' \in [1..Len(rows) -> [DOMAIN cols' -> CellRec]]
    BY <1>0, <1>1, <1>5, <2>1
  <2> QED
    BY <1>0, <2>2, FunIsSeq
<1>7. ASSUME NEW q \in DOMAIN rows', NEW d \in DOMAIN cols'
      PROVE  Kept(q, d, rs, cols, pcount) \/ Fresh(q, d, rs, cols, lens, pcount)
  <2>1. CASE q = s
    <3>1. /\ 2 \in DOMAIN rs /\ rs[2] = q /\ d \in DOMAIN cols /\ cols[d] = cols'[d]
          /\ rows'[q][d] = PlanHeap(lens, pcount)[2][d]
      BY <1>1, <1>3, <1>5, <2>1 DEF new
    <3>2. \A k \in DOMAIN rs : k > 2 => rs[k] # rs[2]
      BY <1>3
    <3> QED
      BY <3>1, <3>2 DEF Fresh
  <2>2. CASE q = r /\ q # s
    <3>1. /\ 1 \in DOMAIN rs /\ rs[1] = q /\ d \in DOMAIN cols /\ cols[d] = cols'[d]
          /\ rows'[q][d] = PlanHeap(lens, pcount)[1][d]
      BY <1>1, <1>3, <1>5, <2>2 DEF new
    <3>2. \A k \in DOMAIN rs : k > 1 => rs[k] # rs[1]
      <4>1. DOMAIN rs = {1, 2}
        BY <1>3
      <4> QED
        BY <1>3, <2>2, <4>1
    <3> QED
      BY <3>1, <3>2 DEF Fresh
  <2>3. CASE q # r /\ q # s
    <3>1. q \in DOMAIN rows /\ d \in DOMAIN cols /\ cols'[d] = cols[d] /\ rows'[q][d] = rows[q][d]
      BY <1>1, <1>5, <2>3
    <3>2. q \notin ToSet(rs)
      BY <1>4, <2>3
    <3> QED
      BY <3>1, <3>2 DEF Kept
  <2> QED
    BY <2>1, <2>2, <2>3
<1>8. Updates(2, Len(cols), rs, cols, lens, pcount)
  BY <1>0, <1>1, <1>3, <1>7 DEF Updates
<1>9. Shape'
  BY <1>0, <1>1, <1>6, <1>8, WriteShape
<1> QED
  BY <1>8, <1>9 DEF rs

\* insert_vla_column_impl.
LEMMA InsertColumnUpdates ==
  ASSUME Shape, NEW c \in 1..MaxCols, NEW name \in 1..MaxCols, NEW lens \in Lens(Len(rows), 1),
         InsertColumn(c, name, lens)
  PROVE  Updates(Len(rows), 1, AllRows, <<name>>, lens, pcount) /\ Shape'
<1> DEFINE rs == AllRows
           cs == <<name>>
           new == PlanHeap(lens, pcount)
           C == Len(cols)
<1>0. /\ DOMAIN rows = 1..Len(rows) /\ Len(rows) \in Nat /\ Len(rows) <= MaxRows
      /\ DOMAIN cols = 1..C /\ C \in Nat /\ pcount \in Nat /\ cols \in Seq(1..MaxCols)
      /\ \A s \in DOMAIN rows : rows[s] \in [DOMAIN cols -> CellRec]
      /\ \A d, e \in DOMAIN cols : cols[d] = cols[e] => d = e
  BY TableFacts DEF Shape
<1>1. /\ cols' = InsertAt(cols, c, name)
      /\ rows' = [s \in DOMAIN rows |-> InsertAt(rows[s], c, new[s][1])]
      /\ WriteHeap(rs, cs, lens, pcount)
      /\ name \notin ToSet(cols) /\ c \in 1..(C + 1)
  BY <1>0 DEF InsertColumn
<1>2. \A s \in DOMAIN rows : new[s][1] \in CellRec
  <2>1. new \in [1..Len(rows) -> [1..1 -> CellRec]]
    BY <1>0, PlanTyped
  <2> QED
    BY <1>0, <2>1
<1>3. /\ rs \in [1..Len(rows) -> 1..MaxRows] /\ \A s \in DOMAIN rows : rs[s] = s
      /\ cs \in [1..1 -> 1..MaxCols] /\ cs[1] = name
  <2>1. rs \in [1..Len(rows) -> 1..MaxRows] /\ \A s \in DOMAIN rows : rs[s] = s
    BY AllRowsFacts
  <2>2. cs \in [1..1 -> 1..MaxCols] /\ cs[1] = name
    BY HeapBoundAssumption
  <2> QED
    BY <2>1, <2>2
<1>4. ToSet(cs) = {name} /\ \A d \in DOMAIN cols : cols[d] # name
  BY <1>1, <1>3 DEF ToSet
<1> HIDE DEF rs, cs, new
<1>5. /\ cols' \in [1..(C + 1) -> 1..MaxCols]
      /\ \A i \in 1..(C + 1) : cols'[i] = IF i < c THEN cols[i] ELSE IF i = c THEN name ELSE cols[i - 1]
  <2> DEFINE E == 1..MaxCols
  <2>1. cols \in Seq(E) /\ name \in E /\ c \in 1..(Len(cols) + 1)
    BY <1>0, <1>1
  <2> HIDE DEF E
  <2>2. /\ InsertAt(cols, c, name) \in [1..(Len(cols) + 1) -> E]
        /\ \A i \in 1..(Len(cols) + 1) :
             InsertAt(cols, c, name)[i]
             = IF i < c THEN cols[i] ELSE IF i = c THEN name ELSE cols[i - 1]
    BY <2>1, PutIn
  <2> QED
    BY <1>1, <2>2 DEF E
<1>6. cols' \in Seq(1..MaxCols) /\ DOMAIN cols' = 1..(C + 1)
  <2> DEFINE E == 1..MaxCols
  <2> DEFINE N == C + 1
  <2>1. N \in Nat /\ cols' \in [1..N -> E]
    BY <1>0, <1>5
  <2> HIDE DEF E, N
  <2>2. cols' \in Seq(E) /\ DOMAIN cols' = 1..N
    BY <2>1, FunIsSeq
  <2> QED
    BY <2>2 DEF E, N
<1>7. ASSUME NEW s \in DOMAIN rows
      PROVE  /\ rows'[s] \in [1..(C + 1) -> CellRec]
             /\ \A i \in 1..(C + 1) :
                  rows'[s][i] = IF i < c THEN rows[s][i] ELSE IF i = c THEN new[s][1] ELSE rows[s][i - 1]
  <2> DEFINE row == rows[s]
  <2> DEFINE e == new[s][1]
  <2>1. rows'[s] = InsertAt(row, c, e)
    BY <1>1
  <2>2. row \in Seq(CellRec) /\ Len(row) = C /\ e \in CellRec
    BY <1>0, <1>2, FunIsSeq
  <2> HIDE DEF row, e
  <2>3. /\ InsertAt(row, c, e) \in [1..(Len(row) + 1) -> CellRec]
        /\ \A i \in 1..(Len(row) + 1) :
             InsertAt(row, c, e)[i] = IF i < c THEN row[i] ELSE IF i = c THEN e ELSE row[i - 1]
    BY <1>1, <2>2, PutIn
  <2> QED
    BY <2>1, <2>2, <2>3 DEF row, e
<1>8. rows' \in Seq([DOMAIN cols' -> CellRec]) /\ Len(rows') = Len(rows) /\ DOMAIN rows' = DOMAIN rows
  <2>1. rows' = [s \in DOMAIN rows |-> rows'[s]]
    BY <1>1, Zenon
  <2>2. rows' \in [1..Len(rows) -> [DOMAIN cols' -> CellRec]]
    BY <1>0, <1>6, <1>7, <2>1
  <2> QED
    BY <1>0, <2>2, FunIsSeq
<1>9. ASSUME NEW d \in DOMAIN cols', d # c
      PROVE  \E e \in DOMAIN cols :
               /\ e = IF d < c THEN d ELSE d - 1
               /\ cols'[d] = cols[e] /\ \A s \in DOMAIN rows : rows'[s][d] = rows[s][e]
  <2>1. CASE d < c
    <3>1. d \in DOMAIN cols /\ d \in 1..(C + 1)
      BY <1>0, <1>1, <1>6, <2>1
    <3> QED
      BY <1>5, <1>7, <2>1, <3>1
  <2>2. CASE ~(d < c)
    <3>1. d - 1 \in DOMAIN cols /\ d \in 1..(C + 1)
      BY <1>0, <1>1, <1>6, <1>9, <2>2
    <3> QED
      BY <1>5, <1>7, <1>9, <2>2, <3>1
  <2> QED
    BY <2>1, <2>2
<1>10. c \in DOMAIN cols' /\ cols'[c] = name /\ \A s \in DOMAIN rows : rows'[s][c] = new[s][1]
  BY <1>1, <1>5, <1>6, <1>7
<1>11. ASSUME NEW d \in DOMAIN cols', NEW e \in DOMAIN cols', cols'[d] = cols'[e]
       PROVE  d = e
  <2>1. CASE d = c
    <3>1. e # c => cols'[e] # name
      BY <1>4, <1>9
    <3> QED
      BY <1>10, <1>11, <2>1, <3>1
  <2>2. CASE d # c /\ e = c
    BY <1>4, <1>9, <1>10, <1>11, <2>2
  <2>3. CASE d # c /\ e # c
    <3>1. PICK f \in DOMAIN cols : f = (IF d < c THEN d ELSE d - 1) /\ cols'[d] = cols[f]
      BY <1>9, <2>3
    <3>2. PICK g \in DOMAIN cols : g = (IF e < c THEN e ELSE e - 1) /\ cols'[e] = cols[g]
      BY <1>9, <2>3
    <3>3. f = g
      BY <1>0, <1>11, <3>1, <3>2
    <3>4. d \in Int /\ e \in Int /\ c \in Int
      BY <1>6
    <3> QED
      BY <2>3, <3>1, <3>2, <3>3, <3>4
  <2> QED
    BY <2>1, <2>2, <2>3
<1>12. ASSUME NEW s \in DOMAIN rows', NEW d \in DOMAIN cols'
       PROVE  Kept(s, d, rs, cs, pcount) \/ Fresh(s, d, rs, cs, lens, pcount)
  <2>1. CASE d = c
    <3>1. /\ s \in DOMAIN rs /\ rs[s] = s /\ 1 \in DOMAIN cs /\ cs[1] = cols'[d]
          /\ rows'[s][d] = PlanHeap(lens, pcount)[s][1]
      BY <1>0, <1>3, <1>8, <1>10, <2>1 DEF new
    <3>2. \A k \in DOMAIN rs : k > s => rs[k] # rs[s]
      BY <1>0, <1>3, <1>8
    <3> QED
      BY <3>1, <3>2 DEF Fresh
  <2>2. CASE d # c
    <3>1. PICK e \in DOMAIN cols : cols'[d] = cols[e] /\ \A q \in DOMAIN rows : rows'[q][d] = rows[q][e]
      BY <1>9, <2>2
    <3>2. s \in DOMAIN rows /\ rows'[s][d] = rows[s][e]
      BY <1>8, <3>1
    <3>3. cols'[d] \notin ToSet(cs)
      BY <1>4, <3>1
    <3> QED
      BY <3>1, <3>2, <3>3 DEF Kept
  <2> QED
    BY <2>1, <2>2
<1>13. Updates(Len(rows), 1, rs, cs, lens, pcount)
  BY <1>0, <1>1, <1>3, <1>11, <1>12 DEF Updates
<1>14. Shape'
  BY <1>0, <1>6, <1>8, <1>13, WriteShape
<1> QED
  BY <1>13, <1>14 DEF rs, cs

\* delete_column_impl: the cells that are left are as they were.
LEMMA DeleteColumnFacts ==
  ASSUME Shape, NEW c \in DOMAIN cols, DeleteColumn(c)
  PROVE  /\ Shape' /\ pcount' = pcount /\ DOMAIN rows' = DOMAIN rows
         /\ \A d \in DOMAIN cols' : \E e \in DOMAIN cols :
              e # c /\ cols'[d] = cols[e] /\ \A s \in DOMAIN rows : rows'[s][d] = rows[s][e]
         /\ \A d, e \in DOMAIN cols' : cols'[d] = cols'[e] => d = e
<1> DEFINE C == Len(cols)
<1>0. /\ DOMAIN rows = 1..Len(rows) /\ Len(rows) \in Nat /\ Len(rows) <= MaxRows
      /\ DOMAIN cols = 1..C /\ C \in Nat /\ pcount \in 0..MaxHeap /\ cols \in Seq(1..MaxCols)
      /\ \A s \in DOMAIN rows : rows[s] \in [DOMAIN cols -> CellRec]
      /\ \A d, e \in DOMAIN cols : cols[d] = cols[e] => d = e
      /\ tainted \in BOOLEAN
  BY TableFacts DEF Shape
<1>1. /\ cols' = RemoveAt(cols, c) /\ rows' = [s \in DOMAIN rows |-> RemoveAt(rows[s], c)]
      /\ pcount' = pcount /\ tainted' = tainted
  BY DEF DeleteColumn
<1>2. /\ cols' \in [1..(C - 1) -> 1..MaxCols] /\ C - 1 \in Nat
      /\ \A i \in 1..(C - 1) : cols'[i] = IF i < c THEN cols[i] ELSE cols[i + 1]
  <2> DEFINE E == 1..MaxCols
  <2>1. cols \in Seq(E) /\ c \in DOMAIN cols
    BY <1>0
  <2> HIDE DEF E
  <2>2. /\ RemoveAt(cols, c) \in [1..(Len(cols) - 1) -> E] /\ Len(cols) - 1 \in Nat
        /\ \A i \in 1..(Len(cols) - 1) :
             RemoveAt(cols, c)[i] = IF i < c THEN cols[i] ELSE cols[i + 1]
    BY <2>1, TakenOut
  <2> QED
    BY <1>1, <2>2 DEF E
<1>3. cols' \in Seq(1..MaxCols) /\ DOMAIN cols' = 1..(C - 1)
  BY <1>2, FunIsSeq
<1>4. ASSUME NEW s \in DOMAIN rows
      PROVE  /\ rows'[s] \in [1..(C - 1) -> CellRec]
             /\ \A i \in 1..(C - 1) : rows'[s][i] = IF i < c THEN rows[s][i] ELSE rows[s][i + 1]
  <2> DEFINE row == rows[s]
  <2>1. rows'[s] = RemoveAt(row, c)
    BY <1>1
  <2>2. row \in Seq(CellRec) /\ Len(row) = C /\ c \in DOMAIN row
    BY <1>0, FunIsSeq
  <2> HIDE DEF row
  <2>3. /\ RemoveAt(row, c) \in [1..(Len(row) - 1) -> CellRec]
        /\ \A i \in 1..(Len(row) - 1) : RemoveAt(row, c)[i] = IF i < c THEN row[i] ELSE row[i + 1]
    BY <2>2, TakenOut
  <2> QED
    BY <2>1, <2>2, <2>3 DEF row
<1>5. rows' \in Seq([DOMAIN cols' -> CellRec]) /\ Len(rows') = Len(rows) /\ DOMAIN rows' = DOMAIN rows
  <2>1. rows' = [s \in DOMAIN rows |-> rows'[s]]
    BY <1>1, Zenon
  <2>2. rows' \in [1..Len(rows) -> [DOMAIN cols' -> CellRec]]
    BY <1>0, <1>3, <1>4, <2>1
  <2> QED
    BY <1>0, <2>2, FunIsSeq
<1>6. ASSUME NEW d \in DOMAIN cols'
      PROVE  \E e \in DOMAIN cols :
               /\ e = IF d < c THEN d ELSE d + 1
               /\ cols'[d] = cols[e] /\ \A s \in DOMAIN rows : rows'[s][d] = rows[s][e]
  <2>1. CASE d < c
    <3>1. d \in DOMAIN cols /\ d \in 1..(C - 1)
      BY <1>0, <1>3
    <3> QED
      BY <1>2, <1>4, <2>1, <3>1
  <2>2. CASE ~(d < c)
    <3>1. d + 1 \in DOMAIN cols /\ d \in 1..(C - 1)
      BY <1>0, <1>3
    <3> QED
      BY <1>2, <1>4, <2>2, <3>1
  <2> QED
    BY <2>1, <2>2
<1>7. ASSUME NEW d \in DOMAIN cols', NEW e \in DOMAIN cols', cols'[d] = cols'[e]
      PROVE  d = e
  <2>1. PICK f \in DOMAIN cols : f = (IF d < c THEN d ELSE d + 1) /\ cols'[d] = cols[f]
    BY <1>6
  <2>2. PICK g \in DOMAIN cols : g = (IF e < c THEN e ELSE e + 1) /\ cols'[e] = cols[g]
    BY <1>6
  <2>3. f = g
    BY <1>0, <1>7, <2>1, <2>2
  <2>4. d \in Int /\ e \in Int /\ c \in Int
    BY <1>0, <1>3
  <2> QED
    BY <2>1, <2>2, <2>3, <2>4
<1>8. Shape'
  BY <1>0, <1>1, <1>3, <1>5, <1>7 DEF Shape
<1>9. ASSUME NEW d \in DOMAIN cols'
      PROVE  \E e \in DOMAIN cols :
               e # c /\ cols'[d] = cols[e] /\ \A s \in DOMAIN rows : rows'[s][d] = rows[s][e]
  <2>1. PICK e \in DOMAIN cols : /\ e = IF d < c THEN d ELSE d + 1
                                 /\ cols'[d] = cols[e]
                                 /\ \A s \in DOMAIN rows : rows'[s][d] = rows[s][e]
    BY <1>6
  <2>2. d \in Int /\ c \in Int
    BY <1>0, <1>3
  <2>3. e # c
    BY <2>1, <2>2
  <2> QED
    BY <2>1, <2>3
<1> QED
  BY <1>1, <1>5, <1>7, <1>8, <1>9

\* The cells of the other columns stay where they are, apart and with their values.
LEMMA DeleteColumnKeeps ==
  ASSUME Shape, HeapWellFormed, HeapTyped, NEW c \in DOMAIN cols, DeleteColumn(c)
  PROVE  HeapWellFormed' /\ HeapTyped' /\ (Intact => Intact')
<1>1. /\ pcount' = pcount /\ DOMAIN rows' = DOMAIN rows
      /\ \A d \in DOMAIN cols' : \E e \in DOMAIN cols :
           e # c /\ cols'[d] = cols[e] /\ \A s \in DOMAIN rows : rows'[s][d] = rows[s][e]
      /\ \A d, e \in DOMAIN cols' : cols'[d] = cols'[e] => d = e
  BY DeleteColumnFacts
<1>2. heap' = [p \in DOMAIN heap |-> IF heap[p].who[2] = cols[c] THEN Junk ELSE heap[p]]
  BY DEF DeleteColumn
<1>3. ASSUME NEW r \in DOMAIN rows', NEW d \in DOMAIN cols'
      PROVE  ~(rows'[r][d].off + rows'[r][d].len > pcount')
  <2>1. PICK e \in DOMAIN cols : \A s \in DOMAIN rows : rows'[s][d] = rows[s][e]
    BY <1>1
  <2> QED
    BY <1>1, <2>1 DEF HeapWellFormed, Refused
<1>4. ASSUME NEW r \in DOMAIN rows', NEW s \in DOMAIN rows', NEW d \in DOMAIN cols',
             NEW e \in DOMAIN cols', <<r, d>> # <<s, e>>
      PROVE  Span(rows'[r][d]) \cap Span(rows'[s][e]) = {}
  <2>1. PICK f \in DOMAIN cols : cols'[d] = cols[f] /\ \A q \in DOMAIN rows : rows'[q][d] = rows[q][f]
    BY <1>1
  <2>2. PICK g \in DOMAIN cols : cols'[e] = cols[g] /\ \A q \in DOMAIN rows : rows'[q][e] = rows[q][g]
    BY <1>1
  <2>3. <<r, f>> # <<s, g>>
    BY <1>1, <1>4, <2>1, <2>2
  <2> QED
    BY <1>1, <2>1, <2>2, <2>3 DEF HeapWellFormed
<1>5. HeapWellFormed'
  BY <1>3, <1>4 DEF HeapWellFormed, Refused
<1>6. HeapTyped'
  <2>1. Junk \in ByteRec
    BY HeapBoundAssumption DEF Junk, Byte, ByteRec
  <2> QED
    BY <1>1, <1>2, <2>1 DEF HeapTyped
<1>7. ASSUME Intact, NEW r \in DOMAIN rows', NEW d \in DOMAIN cols', NEW p \in Span(rows'[r][d])
      PROVE  heap'[p] = Byte(<<r, cols'[d]>>, p - rows'[r][d].off)
  <2>1. PICK e \in DOMAIN cols : /\ e # c /\ cols'[d] = cols[e]
                                 /\ \A s \in DOMAIN rows : rows'[s][d] = rows[s][e]
    BY <1>1
  <2>2. rows'[r][d] = rows[r][e] /\ r \in DOMAIN rows
    BY <1>1, <2>1
  <2>3. heap[p] = Byte(<<r, cols[e]>>, p - rows[r][e].off)
    BY <1>7, <2>2 DEF Intact
  <2>4. heap[p].who[2] = cols[e] /\ cols[e] # cols[c]
    BY <2>1, <2>3 DEF Byte, Shape
  <2>5. p \in DOMAIN heap
    <3>1. /\ rows[r][e].off \in Nat /\ rows[r][e].len \in Nat /\ pcount \in Nat
          /\ rows[r][e].off + rows[r][e].len <= pcount
      BY <2>2, TableFacts DEF HeapWellFormed, Refused
    <3>2. p \in 0..(pcount - 1)
      BY <1>7, <2>2, <3>1 DEF Span
    <3> QED
      BY <3>2 DEF HeapTyped
  <2> QED
    BY <1>2, <2>1, <2>2, <2>3, <2>4, <2>5
<1>8. Intact => Intact'
  BY <1>7 DEF Intact
<1> QED
  BY <1>5, <1>6, <1>8

-----------------------------------------------------------------------------
(* A running repack.                                                       *)

\* The old place, the new place and the length of a cell.
OldAt(r, c) == rows[r][c].off
NewAt(r, c) == NewRows[r][c].off
LenAt(r, c) == rows[r][c].len

\* What is left of a copy of len bytes when d of them are made.
PartOf(cp, turn, from, to, len) ==
    \E d \in 0..(len - 1) : cp = Copy(turn, from + d, to + d, len - d)

\* The copy moves cell (r, c) inside the heap, out of it, or back into it.
Slides(cp, r, c) == PartOf(cp, OldAt(r, c), OldAt(r, c), NewAt(r, c), LenAt(r, c))
Goes(cp, r, c) == PartOf(cp, OldAt(r, c), OldAt(r, c), pcount + NewAt(r, c), LenAt(r, c))
Comes(cp, r, c) == PartOf(cp, pcount + OldAt(r, c), pcount + NewAt(r, c), NewAt(r, c), LenAt(r, c))

\* The copy is one of the plan, or the end of one.
Planned(cp) ==
    \E r \in DOMAIN rows, c \in DOMAIN cols :
      /\ LenAt(r, c) > 0
      /\ IF FastPathSafe THEN Slides(cp, r, c) ELSE Goes(cp, r, c) \/ Comes(cp, r, c)

\* The bytes a copy has still to read, and those that some copy has.
Source(cp) == cp.from..(cp.from + cp.len - 1)
Pending(p) == \E cp \in repacking.copies : p \in Source(cp)

\* The end of the staging area.
Top == IF FastPathSafe THEN pcount ELSE pcount + NewPcount

\* The invariant of a running repack: what is written at its end is the plan of the
\* present table, every pending copy is the end of a planned one, no two have bytes to
\* read in common, and as long as one goes out, none of those that come back has begun.
Running ==
    /\ repacking = [copies |-> repacking.copies, rows |-> NewRows, pcount |-> NewPcount]
    /\ heap \in [0..(Top - 1) -> ByteRec]
    /\ \A cp \in repacking.copies : Planned(cp)
    /\ \A a, b \in repacking.copies : a # b => Source(a) \cap Source(b) = {}
    /\ (~FastPathSafe /\ \E cp \in repacking.copies : cp.turn < pcount)
         => Back \subseteq repacking.copies

\* Where byte i of cell (r, c) is: still in its old place, in the staging area, or in
\* its new place.
Seat(r, c, i) ==
    IF Pending(OldAt(r, c) + i) THEN OldAt(r, c) + i
    ELSE IF Pending(pcount + NewAt(r, c) + i) THEN pcount + NewAt(r, c) + i
    ELSE NewAt(r, c) + i

\* Every byte of every cell is in its seat.
Seated ==
    \A r \in DOMAIN rows, c \in DOMAIN cols : \A i \in 0..(LenAt(r, c) - 1) :
      heap[Seat(r, c, i)] = Byte(<<r, cols[c]>>, i)

\* A step that leaves table and PCOUNT alone leaves the plan alone.
LEMMA PlanStays ==
  ASSUME cols' = cols, rows' = rows, pcount' = pcount
  PROVE  /\ NewRows' = NewRows /\ NewPcount' = NewPcount /\ Back' = Back
         /\ (FastPathSafe' <=> FastPathSafe) /\ Top' = Top
         /\ \A cp : Planned(cp)' <=> Planned(cp)
         /\ \A r, c : OldAt(r, c)' = OldAt(r, c) /\ NewAt(r, c)' = NewAt(r, c)
                      /\ LenAt(r, c)' = LenAt(r, c)
<1>1. LiveLens' = LiveLens
  BY DEF LiveLens
<1>2. NewRows' = NewRows /\ NewPcount' = NewPcount
  BY <1>1 DEF NewRows, NewPcount
<1>3. Moves' = Moves
  BY <1>2 DEF Moves, Move, Live
<1>4. Back' = Back /\ (FastPathSafe' <=> FastPathSafe)
  BY <1>3 DEF Back, FastPathSafe
<1>5. Top' = Top
  BY <1>2, <1>4 DEF Top
<1>6. \A r, c : OldAt(r, c)' = OldAt(r, c) /\ NewAt(r, c)' = NewAt(r, c) /\ LenAt(r, c)' = LenAt(r, c)
  BY <1>2 DEF OldAt, NewAt, LenAt
<1>7. \A cp : Planned(cp)' <=> Planned(cp)
  BY <1>2, <1>4 DEF Planned, Slides, Goes, Comes, OldAt, NewAt, LenAt
<1> QED
  BY <1>2, <1>4, <1>5, <1>6, <1>7

\* Old and new places in numbers: both apart, both inside the heap.
Laid ==
    /\ pcount \in Nat /\ NewPcount \in Nat /\ NewPcount <= pcount
    /\ \A r \in DOMAIN rows, c \in DOMAIN cols :
         /\ OldAt(r, c) \in Nat /\ NewAt(r, c) \in Nat /\ LenAt(r, c) \in Nat
         /\ OldAt(r, c) + LenAt(r, c) <= pcount /\ NewAt(r, c) + LenAt(r, c) <= NewPcount
    /\ \A r, s \in DOMAIN rows, c, d \in DOMAIN cols :
         <<r, c>> # <<s, d>> /\ LenAt(r, c) > 0 /\ LenAt(s, d) > 0 =>
           /\ OldAt(r, c) + LenAt(r, c) <= OldAt(s, d) \/ OldAt(s, d) + LenAt(s, d) <= OldAt(r, c)
           /\ NewAt(r, c) + LenAt(r, c) <= NewAt(s, d) \/ NewAt(s, d) + LenAt(s, d) <= NewAt(r, c)

\* A well-formed heap has its old and its new places apart.
LEMMA LaidOut ==
  ASSUME Shape, HeapWellFormed
  PROVE  Laid
<1>1. pcount \in Nat /\ NewPcount \in Nat /\ NewPcount <= pcount
  BY TableFacts, PackFacts, LiveBytes
<1>2. ASSUME NEW r \in DOMAIN rows, NEW c \in DOMAIN cols
      PROVE  /\ OldAt(r, c) \in Nat /\ NewAt(r, c) \in Nat /\ LenAt(r, c) \in Nat
             /\ OldAt(r, c) + LenAt(r, c) <= pcount /\ NewAt(r, c) + LenAt(r, c) <= NewPcount
             /\ Span(rows[r][c]) = OldAt(r, c)..(OldAt(r, c) + LenAt(r, c) - 1)
             /\ Span(NewRows[r][c]) = NewAt(r, c)..(NewAt(r, c) + LenAt(r, c) - 1)
  <2>1. /\ rows[r][c].off \in Nat /\ rows[r][c].len \in Nat
        /\ ~(rows[r][c].off + rows[r][c].len > pcount)
    BY TableFacts DEF HeapWellFormed, Refused
  <2>2. /\ NewRows[r][c].off \in Nat /\ NewRows[r][c].len = rows[r][c].len
        /\ NewRows[r][c].off + rows[r][c].len <= NewPcount
    BY PackFacts
  <2> QED
    BY <1>1, <2>1, <2>2 DEF OldAt, NewAt, LenAt, Span
<1>3. \A a, b, k, l \in Nat :
        k > 0 /\ l > 0 /\ (a..(a + k - 1)) \cap (b..(b + l - 1)) = {} => a + k <= b \/ b + l <= a
  <2> SUFFICES ASSUME NEW a \in Nat, NEW b \in Nat, NEW k \in Nat, NEW l \in Nat, k > 0, l > 0,
                      (a..(a + k - 1)) \cap (b..(b + l - 1)) = {}, ~(a + k <= b), ~(b + l <= a)
               PROVE  FALSE
    OBVIOUS
  <2>1. a <= b => b \in (a..(a + k - 1)) \cap (b..(b + l - 1))
    OBVIOUS
  <2>2. b <= a => a \in (a..(a + k - 1)) \cap (b..(b + l - 1))
    OBVIOUS
  <2> QED
    BY <2>1, <2>2
<1>4. ASSUME NEW r \in DOMAIN rows, NEW s \in DOMAIN rows, NEW c \in DOMAIN cols,
             NEW d \in DOMAIN cols, <<r, c>> # <<s, d>>, LenAt(r, c) > 0, LenAt(s, d) > 0
      PROVE  /\ OldAt(r, c) + LenAt(r, c) <= OldAt(s, d) \/ OldAt(s, d) + LenAt(s, d) <= OldAt(r, c)
             /\ NewAt(r, c) + LenAt(r, c) <= NewAt(s, d) \/ NewAt(s, d) + LenAt(s, d) <= NewAt(r, c)
  <2>1. Span(rows[r][c]) \cap Span(rows[s][d]) = {}
    BY <1>4 DEF HeapWellFormed
  <2>2. Span(NewRows[r][c]) \cap Span(NewRows[s][d]) = {}
    BY <1>4, PackFacts
  <2>3. OldAt(r, c) + LenAt(r, c) <= OldAt(s, d) \/ OldAt(s, d) + LenAt(s, d) <= OldAt(r, c)
    BY <1>2, <1>3, <1>4, <2>1
  <2>4. NewAt(r, c) + LenAt(r, c) <= NewAt(s, d) \/ NewAt(s, d) + LenAt(s, d) <= NewAt(r, c)
    BY <1>2, <1>3, <1>4, <2>2
  <2> QED
    BY <2>3, <2>4
<1> QED
  BY <1>1, <1>2, <1>4 DEF Laid

\* A part of a copy in numbers.
Left(cp, turn, from, to, len) ==
    \E d \in 0..(len - 1) :
      /\ cp.turn = turn /\ cp.from = from + d /\ cp.to = to + d /\ cp.len = len - d
      /\ cp = Copy(cp.turn, cp.from, cp.to, cp.len)
      /\ Source(cp) = (from + d)..(from + len - 1)

\* A part of a copy is the end of it.
LEMMA PartFacts ==
  ASSUME NEW turn \in Nat, NEW from \in Nat, NEW to \in Nat, NEW len \in Nat,
         NEW cp, PartOf(cp, turn, from, to, len)
  PROVE  Left(cp, turn, from, to, len)
<1>1. PICK d \in 0..(len - 1) : cp = Copy(turn, from + d, to + d, len - d)
  BY DEF PartOf
<1> DEFINE f == from + d
           t == to + d
           k == len - d
<1>2. f \in Nat /\ t \in Nat /\ k \in Nat /\ f + k = from + len
  OBVIOUS
<1>3. cp = Copy(turn, f, t, k)
  BY <1>1
<1> HIDE DEF f, t, k
<1>4. cp.turn = turn /\ cp.from = f /\ cp.to = t /\ cp.len = k
  BY <1>3 DEF Copy
<1>5. cp = Copy(cp.turn, cp.from, cp.to, cp.len)
  BY <1>3, <1>4
<1>6. Source(cp) = f..(from + len - 1)
  BY <1>2, <1>4 DEF Source
<1> QED
  BY <1>4, <1>5, <1>6 DEF f, t, k, Left

\* What is left of the copies of cell (r, c).
LEMMA SlideFacts ==
  ASSUME Laid, NEW r \in DOMAIN rows, NEW c \in DOMAIN cols, NEW cp, Slides(cp, r, c)
  PROVE  Left(cp, OldAt(r, c), OldAt(r, c), NewAt(r, c), LenAt(r, c))
<1>1. OldAt(r, c) \in Nat /\ NewAt(r, c) \in Nat /\ LenAt(r, c) \in Nat
  BY DEF Laid
<1> QED
  BY <1>1, PartFacts DEF Slides

\* On the way out.
LEMMA GoFacts ==
  ASSUME Laid, NEW r \in DOMAIN rows, NEW c \in DOMAIN cols, NEW cp, Goes(cp, r, c)
  PROVE  Left(cp, OldAt(r, c), OldAt(r, c), pcount + NewAt(r, c), LenAt(r, c))
<1>1. OldAt(r, c) \in Nat /\ pcount + NewAt(r, c) \in Nat /\ LenAt(r, c) \in Nat
  BY DEF Laid
<1> QED
  BY <1>1, PartFacts DEF Goes

\* On the way back.
LEMMA ComeFacts ==
  ASSUME Laid, NEW r \in DOMAIN rows, NEW c \in DOMAIN cols, NEW cp, Comes(cp, r, c)
  PROVE  Left(cp, pcount + OldAt(r, c), pcount + NewAt(r, c), NewAt(r, c), LenAt(r, c))
<1>1. pcount + OldAt(r, c) \in Nat /\ pcount + NewAt(r, c) \in Nat /\ NewAt(r, c) \in Nat
      /\ LenAt(r, c) \in Nat
  BY DEF Laid
<1> QED
  BY <1>1, PartFacts DEF Comes

\* A planned copy stays inside the heap and its staging area.
CopyOK(cp) ==
    /\ cp.turn \in Nat /\ cp.from \in Nat /\ cp.to \in Nat /\ cp.len \in Nat \ {0}
    /\ cp.from + cp.len <= Top /\ cp.to + cp.len <= Top
    /\ cp = Copy(cp.turn, cp.from, cp.to, cp.len)

\* Every planned copy is such a copy.
LEMMA PlannedFacts ==
  ASSUME Laid, NEW cp, Planned(cp)
  PROVE  CopyOK(cp) /\ Top \in Nat /\ pcount <= Top
<1>1. PICK r \in DOMAIN rows, c \in DOMAIN cols :
        IF FastPathSafe THEN Slides(cp, r, c) ELSE Goes(cp, r, c) \/ Comes(cp, r, c)
  BY DEF Planned
<1>2. /\ pcount \in Nat /\ NewPcount \in Nat /\ NewPcount <= pcount
      /\ OldAt(r, c) \in Nat /\ NewAt(r, c) \in Nat /\ LenAt(r, c) \in Nat
      /\ OldAt(r, c) + LenAt(r, c) <= pcount /\ NewAt(r, c) + LenAt(r, c) <= NewPcount
  BY DEF Laid
<1>3. Top \in Nat /\ pcount <= Top /\ (~FastPathSafe => Top = pcount + NewPcount)
  BY <1>2 DEF Top
<1>4. CASE FastPathSafe /\ Slides(cp, r, c)
  <2>1. PICK d \in 0..(LenAt(r, c) - 1) :
          /\ cp.turn = OldAt(r, c) /\ cp.from = OldAt(r, c) + d /\ cp.to = NewAt(r, c) + d
          /\ cp.len = LenAt(r, c) - d
          /\ cp = Copy(cp.turn, cp.from, cp.to, cp.len)
    BY <1>4, SlideFacts DEF Left
  <2> QED
    BY <1>2, <1>3, <2>1 DEF CopyOK
<1>5. CASE ~FastPathSafe /\ Goes(cp, r, c)
  <2>1. PICK d \in 0..(LenAt(r, c) - 1) :
          /\ cp.turn = OldAt(r, c) /\ cp.from = OldAt(r, c) + d /\ cp.to = pcount + NewAt(r, c) + d
          /\ cp.len = LenAt(r, c) - d
          /\ cp = Copy(cp.turn, cp.from, cp.to, cp.len)
    BY <1>5, GoFacts DEF Left
  <2> QED
    BY <1>2, <1>3, <1>5, <2>1 DEF CopyOK
<1>6. CASE ~FastPathSafe /\ Comes(cp, r, c)
  <2>1. PICK d \in 0..(LenAt(r, c) - 1) :
          /\ cp.turn = pcount + OldAt(r, c) /\ cp.from = pcount + NewAt(r, c) + d
          /\ cp.to = NewAt(r, c) + d /\ cp.len = LenAt(r, c) - d
          /\ cp = Copy(cp.turn, cp.from, cp.to, cp.len)
    BY <1>6, ComeFacts DEF Left
  <2> QED
    BY <1>2, <1>3, <1>6, <2>1 DEF CopyOK
<1> QED
  BY <1>1, <1>4, <1>5, <1>6

\* The cells behind the moves.
LEMMA MoveCells ==
  ASSUME Laid, NEW m \in Moves
  PROVE  \E r \in DOMAIN rows, c \in DOMAIN cols :
           /\ m.old = OldAt(r, c) /\ m.new = NewAt(r, c) /\ m.len = LenAt(r, c) /\ LenAt(r, c) > 0
<1>1. PICK at \in Live : m = Move(at[1], at[2])
  BY DEF Moves
<1>2. PICK r \in DOMAIN rows, c \in DOMAIN cols : at = <<r, c>> /\ rows[r][c].len > 0
  BY DEF Live
<1>3. m = Move(r, c)
  BY <1>1, <1>2
<1> DEFINE o == rows[r][c].off
           n == NewRows[r][c].off
           l == rows[r][c].len
<1>4. m = [old |-> o, new |-> n, len |-> l]
  BY <1>3 DEF Move
<1> HIDE DEF o, n, l
<1>5. m.old = o /\ m.new = n /\ m.len = l
  BY <1>4
<1> QED
  BY <1>2, <1>5 DEF OldAt, NewAt, LenAt, o, n, l

\* And the move of a cell.
LEMMA CellMoves ==
  ASSUME Laid, NEW r \in DOMAIN rows, NEW c \in DOMAIN cols, LenAt(r, c) > 0
  PROVE  \E m \in Moves : m.old = OldAt(r, c) /\ m.new = NewAt(r, c) /\ m.len = LenAt(r, c)
<1>1. <<r, c>> \in Live
  BY DEF Live, LenAt
<1>2. Move(<<r, c>>[1], <<r, c>>[2]) \in Moves
  BY <1>1 DEF Moves
<1>3. Move(r, c) \in Moves
  BY <1>2
<1> DEFINE o == rows[r][c].off
           n == NewRows[r][c].off
           l == rows[r][c].len
<1> DEFINE m == Move(r, c)
<1>4. m = [old |-> o, new |-> n, len |-> l]
  BY DEF Move
<1> HIDE DEF o, n, l, m
<1>5. m.old = o /\ m.new = n /\ m.len = l
  BY <1>4
<1> QED
  BY <1>3, <1>5 DEF OldAt, NewAt, LenAt, o, n, l, m

\* On the fast path a cell's new place ends before the old place of any later cell.
LEMMA SafeFacts ==
  ASSUME Laid, FastPathSafe, NEW r \in DOMAIN rows, NEW s \in DOMAIN rows, NEW c \in DOMAIN cols,
         NEW d \in DOMAIN cols, LenAt(r, c) > 0, LenAt(s, d) > 0, OldAt(r, c) < OldAt(s, d)
  PROVE  NewAt(r, c) + LenAt(r, c) <= OldAt(s, d)
<1>1. PICK m \in Moves : m.old = OldAt(r, c) /\ m.new = NewAt(r, c) /\ m.len = LenAt(r, c)
  BY CellMoves
<1>2. PICK n \in Moves : n.old = OldAt(s, d) /\ n.new = NewAt(s, d) /\ n.len = LenAt(s, d)
  BY CellMoves
<1> QED
  BY <1>1, <1>2 DEF FastPathSafe

\* The copies that a repack starts with.
Begun == IF FastPathSafe THEN InPlace ELSE Staged

\* Which cell each of them is for.
LEMMA BegunCells ==
  ASSUME Laid
  PROVE  /\ \A cp \in InPlace : \E r \in DOMAIN rows, c \in DOMAIN cols :
              /\ LenAt(r, c) > 0 /\ cp = Copy(OldAt(r, c), OldAt(r, c), NewAt(r, c), LenAt(r, c))
         /\ \A cp \in Out : \E r \in DOMAIN rows, c \in DOMAIN cols :
              /\ LenAt(r, c) > 0
              /\ cp = Copy(OldAt(r, c), OldAt(r, c), pcount + NewAt(r, c), LenAt(r, c))
         /\ \A cp \in Back : \E r \in DOMAIN rows, c \in DOMAIN cols :
              /\ LenAt(r, c) > 0
              /\ cp = Copy(pcount + OldAt(r, c), pcount + NewAt(r, c), NewAt(r, c), LenAt(r, c))
<1>1. ASSUME NEW cp \in InPlace
      PROVE  \E r \in DOMAIN rows, c \in DOMAIN cols :
               LenAt(r, c) > 0 /\ cp = Copy(OldAt(r, c), OldAt(r, c), NewAt(r, c), LenAt(r, c))
  <2>1. PICK m \in Moves : cp = Copy(m.old, m.old, m.new, m.len)
    BY DEF InPlace
  <2> QED
    BY <2>1, MoveCells
<1>2. ASSUME NEW cp \in Out
      PROVE  \E r \in DOMAIN rows, c \in DOMAIN cols :
               /\ LenAt(r, c) > 0
               /\ cp = Copy(OldAt(r, c), OldAt(r, c), pcount + NewAt(r, c), LenAt(r, c))
  <2>1. PICK m \in Moves : cp = Copy(m.old, m.old, pcount + m.new, m.len)
    BY DEF Out
  <2> QED
    BY <2>1, MoveCells
<1>3. ASSUME NEW cp \in Back
      PROVE  \E r \in DOMAIN rows, c \in DOMAIN cols :
               /\ LenAt(r, c) > 0
               /\ cp = Copy(pcount + OldAt(r, c), pcount + NewAt(r, c), NewAt(r, c), LenAt(r, c))
  <2>1. PICK m \in Moves : cp = Copy(pcount + m.old, pcount + m.new, m.new, m.len)
    BY DEF Back
  <2> QED
    BY <2>1, MoveCells
<1> QED
  BY <1>1, <1>2, <1>3

\* A copy from its beginning.
LEMMA WholeCopy ==
  ASSUME NEW turn \in Nat, NEW from \in Nat, NEW to \in Nat, NEW len \in Nat, len > 0,
         NEW cp, cp = Copy(turn, from, to, len)
  PROVE  PartOf(cp, turn, from, to, len) /\ Source(cp) = from..(from + len - 1)
<1>1. 0 \in 0..(len - 1) /\ from + 0 = from /\ to + 0 = to /\ len - 0 = len
  OBVIOUS
<1>2. PartOf(cp, turn, from, to, len)
  BY <1>1 DEF PartOf
<1>3. cp.from = from /\ cp.len = len
  BY DEF Copy
<1> QED
  BY <1>2, <1>3 DEF Source

\* They move live cells and read different bytes.
LEMMA BegunPlanned ==
  ASSUME Laid
  PROVE  /\ \A cp \in Begun : Planned(cp)
         /\ \A a, b \in Begun : a # b => Source(a) \cap Source(b) = {}
<1> DEFINE In(cp, r, c) == /\ LenAt(r, c) > 0
                           /\ cp = Copy(OldAt(r, c), OldAt(r, c), NewAt(r, c), LenAt(r, c))
           Go(cp, r, c) == /\ LenAt(r, c) > 0
                           /\ cp = Copy(OldAt(r, c), OldAt(r, c), pcount + NewAt(r, c), LenAt(r, c))
           Co(cp, r, c) == /\ LenAt(r, c) > 0
                           /\ cp = Copy(pcount + OldAt(r, c), pcount + NewAt(r, c), NewAt(r, c), LenAt(r, c))
<1>0. /\ pcount \in Nat /\ NewPcount \in Nat /\ NewPcount <= pcount
      /\ \A r \in DOMAIN rows, c \in DOMAIN cols :
           /\ OldAt(r, c) \in Nat /\ NewAt(r, c) \in Nat /\ LenAt(r, c) \in Nat
           /\ pcount + OldAt(r, c) \in Nat /\ pcount + NewAt(r, c) \in Nat
           /\ OldAt(r, c) + LenAt(r, c) <= pcount /\ NewAt(r, c) + LenAt(r, c) <= NewPcount
  BY DEF Laid
<1>1. ASSUME NEW cp, NEW r \in DOMAIN rows, NEW c \in DOMAIN cols, In(cp, r, c)
      PROVE  /\ Slides(cp, r, c) /\ LenAt(r, c) > 0
             /\ Source(cp) = OldAt(r, c)..(OldAt(r, c) + LenAt(r, c) - 1)
  <2>1. PartOf(cp, OldAt(r, c), OldAt(r, c), NewAt(r, c), LenAt(r, c))
        /\ Source(cp) = OldAt(r, c)..(OldAt(r, c) + LenAt(r, c) - 1)
    <3> DEFINE turn == OldAt(r, c)
               from == OldAt(r, c)
               to == NewAt(r, c)
               len == LenAt(r, c)
    <3>1. turn \in Nat /\ from \in Nat /\ to \in Nat /\ len \in Nat /\ len > 0
      BY <1>0, <1>1
    <3>2. cp = Copy(turn, from, to, len)
      BY <1>1
    <3> HIDE DEF turn, from, to, len
    <3>3. PartOf(cp, turn, from, to, len) /\ Source(cp) = from..(from + len - 1)
      BY <3>1, <3>2, WholeCopy
    <3> QED
      BY <3>3 DEF turn, from, to, len
  <2> QED
    BY <1>1, <2>1 DEF Slides
<1>2. ASSUME NEW cp, NEW r \in DOMAIN rows, NEW c \in DOMAIN cols, Go(cp, r, c)
      PROVE  /\ Goes(cp, r, c) /\ LenAt(r, c) > 0
             /\ Source(cp) = OldAt(r, c)..(OldAt(r, c) + LenAt(r, c) - 1)
  <2>1. PartOf(cp, OldAt(r, c), OldAt(r, c), pcount + NewAt(r, c), LenAt(r, c))
        /\ Source(cp) = OldAt(r, c)..(OldAt(r, c) + LenAt(r, c) - 1)
    <3> DEFINE turn == OldAt(r, c)
               from == OldAt(r, c)
               to == pcount + NewAt(r, c)
               len == LenAt(r, c)
    <3>1. turn \in Nat /\ from \in Nat /\ to \in Nat /\ len \in Nat /\ len > 0
      BY <1>0, <1>2
    <3>2. cp = Copy(turn, from, to, len)
      BY <1>2
    <3> HIDE DEF turn, from, to, len
    <3>3. PartOf(cp, turn, from, to, len) /\ Source(cp) = from..(from + len - 1)
      BY <3>1, <3>2, WholeCopy
    <3> QED
      BY <3>3 DEF turn, from, to, len
  <2> QED
    BY <1>2, <2>1 DEF Goes
<1>3. ASSUME NEW cp, NEW r \in DOMAIN rows, NEW c \in DOMAIN cols, Co(cp, r, c)
      PROVE  /\ Comes(cp, r, c) /\ LenAt(r, c) > 0
             /\ Source(cp) = (pcount + NewAt(r, c))..(pcount + NewAt(r, c) + LenAt(r, c) - 1)
  <2>1. PartOf(cp, pcount + OldAt(r, c), pcount + NewAt(r, c), NewAt(r, c), LenAt(r, c))
        /\ Source(cp) = (pcount + NewAt(r, c))..(pcount + NewAt(r, c) + LenAt(r, c) - 1)
    <3> DEFINE turn == pcount + OldAt(r, c)
               from == pcount + NewAt(r, c)
               to == NewAt(r, c)
               len == LenAt(r, c)
    <3>1. turn \in Nat /\ from \in Nat /\ to \in Nat /\ len \in Nat /\ len > 0
      BY <1>0, <1>3
    <3>2. cp = Copy(turn, from, to, len)
      BY <1>3
    <3> HIDE DEF turn, from, to, len
    <3>3. PartOf(cp, turn, from, to, len) /\ Source(cp) = from..(from + len - 1)
      BY <3>1, <3>2, WholeCopy
    <3> QED
      BY <3>3 DEF turn, from, to, len
  <2> QED
    BY <1>3, <2>1 DEF Comes
<1>4. /\ \A cp \in InPlace : \E r \in DOMAIN rows, c \in DOMAIN cols : In(cp, r, c)
      /\ \A cp \in Out : \E r \in DOMAIN rows, c \in DOMAIN cols : Go(cp, r, c)
      /\ \A cp \in Back : \E r \in DOMAIN rows, c \in DOMAIN cols : Co(cp, r, c)
  BY BegunCells
<1>5. \A cp \in Begun : Planned(cp)
  <2> HIDE DEF In, Go, Co
  <2> QED
    BY <1>1, <1>2, <1>3, <1>4 DEF Begun, Staged, Planned
<1>6. ASSUME NEW r \in DOMAIN rows, NEW s \in DOMAIN rows, NEW c \in DOMAIN cols,
             NEW d \in DOMAIN cols, <<r, c>> # <<s, d>>, LenAt(r, c) > 0, LenAt(s, d) > 0
      PROVE  /\ (OldAt(r, c)..(OldAt(r, c) + LenAt(r, c) - 1))
                  \cap (OldAt(s, d)..(OldAt(s, d) + LenAt(s, d) - 1)) = {}
             /\ ((pcount + NewAt(r, c))..(pcount + NewAt(r, c) + LenAt(r, c) - 1))
                  \cap ((pcount + NewAt(s, d))..(pcount + NewAt(s, d) + LenAt(s, d) - 1)) = {}
  <2>1. /\ OldAt(r, c) + LenAt(r, c) <= OldAt(s, d) \/ OldAt(s, d) + LenAt(s, d) <= OldAt(r, c)
        /\ NewAt(r, c) + LenAt(r, c) <= NewAt(s, d) \/ NewAt(s, d) + LenAt(s, d) <= NewAt(r, c)
    BY <1>6 DEF Laid
  <2>2. (OldAt(r, c)..(OldAt(r, c) + LenAt(r, c) - 1))
          \cap (OldAt(s, d)..(OldAt(s, d) + LenAt(s, d) - 1)) = {}
    BY <1>0, <2>1
  <2>3. ((pcount + NewAt(r, c))..(pcount + NewAt(r, c) + LenAt(r, c) - 1))
          \cap ((pcount + NewAt(s, d))..(pcount + NewAt(s, d) + LenAt(s, d) - 1)) = {}
    BY <1>0, <2>1
  <2> QED
    BY <2>2, <2>3
<1>7. ASSUME NEW r \in DOMAIN rows, NEW s \in DOMAIN rows, NEW c \in DOMAIN cols, NEW d \in DOMAIN cols
      PROVE  (OldAt(r, c)..(OldAt(r, c) + LenAt(r, c) - 1))
               \cap ((pcount + NewAt(s, d))..(pcount + NewAt(s, d) + LenAt(s, d) - 1)) = {}
  BY <1>0
<1>8. ASSUME NEW a \in InPlace, NEW b \in InPlace, a # b
      PROVE  Source(a) \cap Source(b) = {}
  <2>1. PICK r \in DOMAIN rows, c \in DOMAIN cols : In(a, r, c)
    BY <1>4
  <2>2. PICK s \in DOMAIN rows, d \in DOMAIN cols : In(b, s, d)
    BY <1>4
  <2>3. <<r, c>> # <<s, d>>
    BY <1>8, <2>1, <2>2
  <2> HIDE DEF In
  <2>4. LenAt(r, c) > 0 /\ Source(a) = OldAt(r, c)..(OldAt(r, c) + LenAt(r, c) - 1)
    BY <1>1, <2>1
  <2>5. LenAt(s, d) > 0 /\ Source(b) = OldAt(s, d)..(OldAt(s, d) + LenAt(s, d) - 1)
    BY <1>1, <2>2
  <2> QED
    BY <1>6, <2>3, <2>4, <2>5
<1>9. ASSUME NEW a \in Out, NEW b \in Out, a # b
      PROVE  Source(a) \cap Source(b) = {}
  <2>1. PICK r \in DOMAIN rows, c \in DOMAIN cols : Go(a, r, c)
    BY <1>4
  <2>2. PICK s \in DOMAIN rows, d \in DOMAIN cols : Go(b, s, d)
    BY <1>4
  <2>3. <<r, c>> # <<s, d>>
    BY <1>9, <2>1, <2>2
  <2> HIDE DEF Go
  <2>4. LenAt(r, c) > 0 /\ Source(a) = OldAt(r, c)..(OldAt(r, c) + LenAt(r, c) - 1)
    BY <1>2, <2>1
  <2>5. LenAt(s, d) > 0 /\ Source(b) = OldAt(s, d)..(OldAt(s, d) + LenAt(s, d) - 1)
    BY <1>2, <2>2
  <2> QED
    BY <1>6, <2>3, <2>4, <2>5
<1>10. ASSUME NEW a \in Back, NEW b \in Back, a # b
       PROVE  Source(a) \cap Source(b) = {}
  <2>1. PICK r \in DOMAIN rows, c \in DOMAIN cols : Co(a, r, c)
    BY <1>4
  <2>2. PICK s \in DOMAIN rows, d \in DOMAIN cols : Co(b, s, d)
    BY <1>4
  <2>3. <<r, c>> # <<s, d>>
    BY <1>10, <2>1, <2>2
  <2> HIDE DEF Co
  <2>4. LenAt(r, c) > 0 /\ Source(a) = (pcount + NewAt(r, c))..(pcount + NewAt(r, c) + LenAt(r, c) - 1)
    BY <1>3, <2>1
  <2>5. LenAt(s, d) > 0 /\ Source(b) = (pcount + NewAt(s, d))..(pcount + NewAt(s, d) + LenAt(s, d) - 1)
    BY <1>3, <2>2
  <2> QED
    BY <1>6, <2>3, <2>4, <2>5
<1>11. ASSUME NEW a \in Out, NEW b \in Back
       PROVE  Source(a) \cap Source(b) = {}
  <2>1. PICK r \in DOMAIN rows, c \in DOMAIN cols : Go(a, r, c)
    BY <1>4
  <2>2. PICK s \in DOMAIN rows, d \in DOMAIN cols : Co(b, s, d)
    BY <1>4
  <2> HIDE DEF Go, Co
  <2>3. Source(a) = OldAt(r, c)..(OldAt(r, c) + LenAt(r, c) - 1)
    BY <1>2, <2>1
  <2>4. Source(b) = (pcount + NewAt(s, d))..(pcount + NewAt(s, d) + LenAt(s, d) - 1)
    BY <1>3, <2>2
  <2> QED
    BY <1>7, <2>3, <2>4
<1>12. \A a, b \in Begun : a # b => Source(a) \cap Source(b) = {}
  BY <1>8, <1>9, <1>10, <1>11 DEF Begun, Staged
<1> QED
  BY <1>5, <1>12

\* Every live cell that has to move is read by one of them; none of those that slide
\* reads behind the heap.
LEMMA BegunReads ==
  ASSUME Laid
  PROVE  /\ \A r \in DOMAIN rows, c \in DOMAIN cols : \A i \in 0..(LenAt(r, c) - 1) :
              /\ NewAt(r, c) # OldAt(r, c) \/ ~FastPathSafe =>
                   \E cp \in Begun : OldAt(r, c) + i \in Source(cp)
              /\ \E cp \in Back : pcount + NewAt(r, c) + i \in Source(cp)
         /\ FastPathSafe => \A cp \in Begun : \A p \in Source(cp) : p < pcount
<1>0. ASSUME NEW r \in DOMAIN rows, NEW c \in DOMAIN cols
      PROVE  /\ pcount \in Nat
             /\ OldAt(r, c) \in Nat /\ NewAt(r, c) \in Nat /\ LenAt(r, c) \in Nat
             /\ OldAt(r, c) + LenAt(r, c) <= pcount
  BY DEF Laid
<1>1. ASSUME NEW r \in DOMAIN rows, NEW c \in DOMAIN cols, NEW i \in 0..(LenAt(r, c) - 1)
      PROVE  /\ NewAt(r, c) # OldAt(r, c) \/ ~FastPathSafe =>
                  \E cp \in Begun : OldAt(r, c) + i \in Source(cp)
             /\ \E cp \in Back : pcount + NewAt(r, c) + i \in Source(cp)
  <2>0. /\ OldAt(r, c) \in Nat /\ NewAt(r, c) \in Nat /\ LenAt(r, c) \in Nat /\ pcount \in Nat
        /\ LenAt(r, c) > 0
    BY <1>0
  <2>1. PICK m \in Moves : m.old = OldAt(r, c) /\ m.new = NewAt(r, c) /\ m.len = LenAt(r, c)
    BY <2>0, CellMoves
  <2>2. ASSUME NEW cp, cp.from = OldAt(r, c), cp.len = LenAt(r, c)
        PROVE  OldAt(r, c) + i \in Source(cp)
    BY <2>0, <2>2 DEF Source
  <2>3. ASSUME FastPathSafe, NewAt(r, c) # OldAt(r, c)
        PROVE  \E cp \in Begun : OldAt(r, c) + i \in Source(cp)
    <3> DEFINE cp == Copy(m.old, m.old, m.new, m.len)
    <3>1. cp \in Begun
      BY <2>1, <2>3 DEF Begun, InPlace
    <3>2. cp.from = m.old /\ cp.len = m.len
      BY DEF Copy
    <3> HIDE DEF cp
    <3> QED
      BY <2>1, <2>2, <3>1, <3>2
  <2>4. ASSUME ~FastPathSafe
        PROVE  \E cp \in Begun : OldAt(r, c) + i \in Source(cp)
    <3> DEFINE cp == Copy(m.old, m.old, pcount + m.new, m.len)
    <3>1. cp \in Begun
      BY <2>4 DEF Begun, Staged, Out
    <3>2. cp.from = m.old /\ cp.len = m.len
      BY DEF Copy
    <3> HIDE DEF cp
    <3> QED
      BY <2>1, <2>2, <3>1, <3>2
  <2>5. \E cp \in Back : pcount + NewAt(r, c) + i \in Source(cp)
    <3> DEFINE cp == Copy(pcount + m.old, pcount + m.new, m.new, m.len)
    <3>1. cp \in Back
      BY DEF Back
    <3>2. cp.from = pcount + m.new /\ cp.len = m.len
      BY DEF Copy
    <3> HIDE DEF cp
    <3>3. pcount + NewAt(r, c) + i \in Source(cp)
      BY <2>0, <2>1, <3>2 DEF Source
    <3> QED
      BY <3>1, <3>3
  <2> QED
    BY <2>3, <2>4, <2>5
<1>2. ASSUME FastPathSafe, NEW cp \in Begun, NEW p \in Source(cp)
      PROVE  p < pcount
  <2>1. cp \in InPlace
    BY <1>2 DEF Begun
  <2>2. PICK r \in DOMAIN rows, c \in DOMAIN cols :
          cp = Copy(OldAt(r, c), OldAt(r, c), NewAt(r, c), LenAt(r, c))
    BY <2>1, BegunCells
  <2>3. cp.from = OldAt(r, c) /\ cp.len = LenAt(r, c)
    BY <2>2 DEF Copy
  <2> QED
    BY <1>0, <1>2, <2>3 DEF Source
<1> QED
  BY <1>1, <1>2

\* StartRepack plans the copies; nothing has moved yet.
LEMMA Started ==
  ASSUME Shape, HeapWellFormed, HeapTyped, StartRepack
  PROVE  repacking' # Idle /\ Running' /\ (Intact => Seated')
<1>0. Laid
  BY LaidOut
<1>1. /\ pcount \in Nat /\ NewPcount \in Nat /\ NewPcount <= pcount
      /\ \A r \in DOMAIN rows, c \in DOMAIN cols :
           /\ OldAt(r, c) \in Nat /\ NewAt(r, c) \in Nat /\ LenAt(r, c) \in Nat
           /\ OldAt(r, c) + LenAt(r, c) <= pcount /\ NewAt(r, c) + LenAt(r, c) <= NewPcount
  BY <1>0 DEF Laid
<1>2. /\ repacking' = [copies |-> Begun, rows |-> NewRows, pcount |-> NewPcount]
      /\ cols' = cols /\ rows' = rows /\ pcount' = pcount
      /\ heap' = IF FastPathSafe THEN heap
                 ELSE [p \in 0..(pcount + NewPcount - 1) |-> IF p < pcount THEN heap[p] ELSE Junk]
  BY DEF StartRepack, Begun
<1>3. /\ NewRows' = NewRows /\ NewPcount' = NewPcount /\ Back' = Back
      /\ (FastPathSafe' <=> FastPathSafe) /\ Top' = Top
      /\ \A cp : Planned(cp)' <=> Planned(cp)
      /\ \A r, c : OldAt(r, c)' = OldAt(r, c) /\ NewAt(r, c)' = NewAt(r, c)
                   /\ LenAt(r, c)' = LenAt(r, c)
  BY <1>2, PlanStays
<1>4. repacking'.copies = Begun /\ repacking'.rows = NewRows /\ repacking'.pcount = NewPcount
  BY <1>2
<1>5. repacking' # Idle
  <2>1. Idle.pcount = -1
    BY DEF Idle
  <2> QED
    BY <1>1, <1>4, <2>1
<1>6. heap' \in [0..(Top - 1) -> ByteRec]
  <2>1. Junk \in ByteRec
    BY HeapBoundAssumption DEF Junk, Byte, ByteRec
  <2>2. CASE FastPathSafe
    BY <1>2, <2>2 DEF Top, HeapTyped
  <2>3. CASE ~FastPathSafe
    <3> DEFINE D == 0..(pcount + NewPcount - 1)
               f(p) == IF p < pcount THEN heap[p] ELSE Junk
    <3>1. \A p \in D : p < pcount => heap[p] \in ByteRec
      BY <1>1 DEF HeapTyped
    <3>2. \A p \in D : f(p) \in ByteRec
      BY <2>1, <3>1
    <3>3. heap' = [p \in D |-> f(p)]
      BY <1>2, <2>3, Zenon
    <3>4. 0..(Top - 1) = D
      <4>1. Top = pcount + NewPcount
        BY <2>3 DEF Top
      <4> QED
        BY <1>1, <4>1
    <3> HIDE DEF D, f
    <3> QED
      BY <3>2, <3>3, <3>4
  <2> QED
    BY <2>2, <2>3
<1>7. Running'
  <2>1. repacking' = [copies |-> repacking'.copies, rows |-> NewRows', pcount |-> NewPcount']
    BY <1>2, <1>3, <1>4
  <2>2. heap' \in [0..(Top' - 1) -> ByteRec]
    BY <1>3, <1>6
  <2>3. \A cp \in repacking'.copies : Planned(cp)'
    BY <1>0, <1>3, <1>4, BegunPlanned
  <2>4. \A a, b \in repacking'.copies : a # b => Source(a) \cap Source(b) = {}
    BY <1>0, <1>4, BegunPlanned
  <2>5. ~FastPathSafe' => Back' \subseteq repacking'.copies
    BY <1>3, <1>4 DEF Begun, Staged
  <2> QED
    BY <2>1, <2>2, <2>3, <2>4, <2>5 DEF Running
<1>8. ASSUME Intact, NEW r \in DOMAIN rows', NEW c \in DOMAIN cols', NEW i \in 0..(LenAt(r, c)' - 1)
      PROVE  heap'[Seat(r, c, i)'] = Byte(<<r, cols'[c]>>, i)
  <2>1. r \in DOMAIN rows /\ c \in DOMAIN cols /\ i \in 0..(LenAt(r, c) - 1) /\ cols'[c] = cols[c]
    BY <1>2, <1>3, <1>8
  <2>2. heap[OldAt(r, c) + i] = Byte(<<r, cols[c]>>, i)
    <3> DEFINE p == OldAt(r, c) + i
    <3>1. p \in Span(rows[r][c]) /\ p - OldAt(r, c) = i
      BY <1>1, <2>1 DEF Span, OldAt, LenAt
    <3> HIDE DEF p
    <3>2. heap[p] = Byte(<<r, cols[c]>>, p - OldAt(r, c))
      BY <1>8, <2>1, <3>1 DEF Intact, OldAt
    <3> QED
      BY <3>1, <3>2 DEF p
  <2>3. heap'[OldAt(r, c) + i] = heap[OldAt(r, c) + i]
    <3>1. /\ OldAt(r, c) + i \in 0..(pcount + NewPcount - 1)
          /\ OldAt(r, c) + i < pcount
      BY <1>1, <2>1
    <3> QED
      BY <1>2, <3>1
  <2>4. Seat(r, c, i)' = OldAt(r, c) + i
    <3>0. /\ Pending(OldAt(r, c) + i)' <=> \E cp \in Begun : OldAt(r, c) + i \in Source(cp)
          /\ Pending(pcount + NewAt(r, c) + i)' <=>
               \E cp \in Begun : pcount + NewAt(r, c) + i \in Source(cp)
      BY <1>2, <1>3, <1>4 DEF Pending
    <3>1. CASE NewAt(r, c) # OldAt(r, c) \/ ~FastPathSafe
      <4>1. Pending(OldAt(r, c) + i)'
        BY <1>0, <2>1, <3>0, <3>1, BegunReads
      <4> QED
        BY <1>3, <4>1 DEF Seat
    <3>2. CASE NewAt(r, c) = OldAt(r, c) /\ FastPathSafe
      <4>1. ~(pcount + NewAt(r, c) + i < pcount)
        BY <1>1, <2>1
      <4>2. ~Pending(pcount + NewAt(r, c) + i)'
        BY <1>0, <3>0, <3>2, <4>1, BegunReads
      <4> QED
        BY <1>2, <1>3, <3>2, <4>2 DEF Seat
    <3> QED
      BY <3>1, <3>2
  <2> QED
    BY <2>1, <2>2, <2>3, <2>4
<1>9. Intact => Seated'
  BY <1>8 DEF Seated
<1> QED
  BY <1>5, <1>7, <1>9

\* One chunk of k bytes of the copy cp, the one whose turn it is.
Steps(cp, k) ==
    /\ cp \in repacking.copies /\ \A b \in repacking.copies : cp.turn <= b.turn
    /\ k \in 1..cp.len /\ (k = cp.len \/ (k = CHUNK /\ cp.len > CHUNK))
    /\ heap' = Copied(cp, k)
    /\ repacking'.copies = (repacking.copies \ {cp}) \cup Rest(cp, k)
    /\ repacking' = [copies |-> repacking'.copies, rows |-> NewRows, pcount |-> NewPcount]
    /\ cols' = cols /\ rows' = rows /\ pcount' = pcount

\* There is a copy whose turn it is.
LEMMA ChunkSteps ==
  ASSUME Laid, Running, StreamChunk
  PROVE  \E cp, k : Steps(cp, k)
<1> DEFINE cp == Current
           k == ChunkOf(cp)
           cs == repacking.copies
<1>1. \A b \in cs : b.turn \in Nat /\ b.len \in Nat \ {0}
  BY PlannedFacts DEF Running, CopyOK
<1>2. cs # {}
  BY DEF StreamChunk
<1>3. cp \in cs /\ \A b \in cs : cp.turn <= b.turn
  <2> DEFINE T == {b.turn : b \in cs}
  <2>1. T \subseteq Nat /\ T # {}
    BY <1>1, <1>2
  <2>2. PICK m \in T : \A n \in T : m <= n
    <3> HIDE DEF T
    <3> QED
      BY <2>1, LeastElement
  <2>3. \E a \in cs : \A b \in cs : a.turn <= b.turn
    BY <2>2
  <2> QED
    BY <2>3 DEF Current
<1> HIDE DEF cp
<1>4. k \in 1..cp.len /\ (k = cp.len \/ (k = CHUNK /\ cp.len > CHUNK))
  BY <1>1, <1>3, ChunkAssumption DEF ChunkOf
<1>5. /\ heap' = Copied(cp, k)
      /\ repacking' = [repacking EXCEPT !.copies = (@ \ {cp}) \cup Rest(cp, k)]
      /\ cols' = cols /\ rows' = rows /\ pcount' = pcount
  BY DEF StreamChunk, cp
<1> DEFINE new == (cs \ {cp}) \cup Rest(cp, k)
<1>6. /\ repacking = [copies |-> cs, rows |-> NewRows, pcount |-> NewPcount]
      /\ repacking' = [repacking EXCEPT !.copies = new]
  BY <1>5 DEF Running
<1> HIDE DEF cs, new
<1>7. repacking' = [copies |-> new, rows |-> NewRows, pcount |-> NewPcount]
  BY <1>6
<1>8. repacking'.copies = new
  BY <1>7
<1>9. Steps(cp, k)
  <2>1. repacking' = [copies |-> repacking'.copies, rows |-> NewRows, pcount |-> NewPcount]
    BY <1>7, <1>8
  <2> HIDE DEF k
  <2> QED
    BY <1>3, <1>4, <1>5, <1>8, <2>1, Zenon DEF Steps, cs, new
<1> QED
  BY <1>9

\* A chunk does not end the repack.
LEMMA StillRepacking ==
  ASSUME Laid, NEW cp, NEW k, Steps(cp, k)
  PROVE  repacking' # Idle
<1> DEFINE cs == repacking'.copies
           pl == NewRows
           pc == NewPcount
<1>1. repacking' = [copies |-> cs, rows |-> pl, pcount |-> pc] /\ pc \in Nat
  BY DEF Steps, Laid
<1> HIDE DEF cs, pl, pc
<1>2. repacking'.pcount # -1
  BY <1>1
<1>3. Idle.pcount = -1
  BY DEF Idle
<1> QED
  BY <1>2, <1>3

\* What is left of a copy is a part of it.
LEMMA RestFacts ==
  ASSUME Laid, NEW cp, CopyOK(cp), NEW k \in 1..cp.len, NEW b \in Rest(cp, k)
  PROVE  /\ k < cp.len /\ b = Copy(cp.turn, cp.from + k, cp.to + k, cp.len - k)
         /\ b.turn = cp.turn
         /\ Source(b) = (cp.from + k)..(cp.from + cp.len - 1)
         /\ Source(cp) = cp.from..(cp.from + cp.len - 1)
         /\ \A turn, from, to, len \in Nat :
              PartOf(cp, turn, from, to, len) => PartOf(b, turn, from, to, len)
<1>0. cp.turn \in Nat /\ cp.from \in Nat /\ cp.to \in Nat /\ cp.len \in Nat
  BY DEF CopyOK
<1>1. k < cp.len /\ b = Copy(cp.turn, cp.from + k, cp.to + k, cp.len - k)
  BY <1>0 DEF Rest
<1> DEFINE f == cp.from + k
           t == cp.to + k
           l == cp.len - k
           u == cp.turn
<1>2. f \in Nat /\ t \in Nat /\ l \in Nat /\ f + l = cp.from + cp.len
  BY <1>0, <1>1
<1>3. b = Copy(u, f, t, l)
  BY <1>1
<1> HIDE DEF f, t, l, u
<1>4. b.turn = u /\ b.from = f /\ b.len = l
  BY <1>3 DEF Copy
<1>5. Source(b) = f..(cp.from + cp.len - 1)
  BY <1>0, <1>2, <1>4 DEF Source
<1>6. ASSUME NEW turn \in Nat, NEW from \in Nat, NEW to \in Nat, NEW len \in Nat,
             PartOf(cp, turn, from, to, len)
      PROVE  PartOf(b, turn, from, to, len)
  <2>1. PICK d \in 0..(len - 1) :
          cp.turn = turn /\ cp.from = from + d /\ cp.to = to + d /\ cp.len = len - d
    BY <1>6, PartFacts DEF Left
  <2>2. /\ d + k \in 0..(len - 1) /\ f = from + (d + k) /\ t = to + (d + k) /\ l = len - (d + k)
        /\ u = turn
    BY <1>0, <1>1, <2>1 DEF f, t, l, u
  <2> QED
    BY <1>3, <2>2 DEF PartOf
<1> QED
  BY <1>1, <1>4, <1>5, <1>6 DEF Source, f, u

\* A chunk keeps the rest of the plan.
LEMMA ChunkRunning ==
  ASSUME Laid, Running, NEW cp, NEW k, Steps(cp, k)
  PROVE  Running'
<1> DEFINE cs == repacking.copies
<1>0. /\ cp \in cs /\ \A b \in cs : cp.turn <= b.turn
      /\ k \in 1..cp.len
      /\ heap' = Copied(cp, k)
      /\ repacking'.copies = (cs \ {cp}) \cup Rest(cp, k)
      /\ repacking' = [copies |-> repacking'.copies, rows |-> NewRows, pcount |-> NewPcount]
      /\ cols' = cols /\ rows' = rows /\ pcount' = pcount
  BY DEF Steps
<1>1. /\ NewRows' = NewRows /\ NewPcount' = NewPcount /\ Back' = Back
      /\ (FastPathSafe' <=> FastPathSafe) /\ Top' = Top
      /\ \A b : Planned(b)' <=> Planned(b)
  BY <1>0, PlanStays
<1>2. /\ heap \in [0..(Top - 1) -> ByteRec] /\ Planned(cp)
      /\ \A b \in cs : Planned(b)
      /\ \A a, b \in cs : a # b => Source(a) \cap Source(b) = {}
      /\ (~FastPathSafe /\ \E b \in cs : b.turn < pcount) => Back \subseteq cs
  BY <1>0 DEF Running
<1>3. CopyOK(cp) /\ Top \in Nat
  BY <1>2, PlannedFacts
<1>4. heap' \in [0..(Top' - 1) -> ByteRec]
  <2>0. /\ cp.from \in Nat /\ cp.to \in Nat /\ cp.len \in Nat
        /\ cp.from + cp.len <= Top
    BY <1>3 DEF CopyOK
  <2> DEFINE g(p) == IF p \in cp.to..(cp.to + k - 1) THEN heap[p - cp.to + cp.from] ELSE heap[p]
  <2>1. ASSUME NEW p \in 0..(Top - 1), p \in cp.to..(cp.to + k - 1)
        PROVE  heap[p - cp.to + cp.from] \in ByteRec
    <3>1. p - cp.to + cp.from \in 0..(Top - 1)
      BY <1>0, <1>3, <2>0, <2>1
    <3> QED
      BY <1>2, <3>1
  <2>2. \A p \in 0..(Top - 1) : g(p) \in ByteRec
    BY <1>2, <2>1
  <2>3. heap' = [p \in 0..(Top - 1) |-> g(p)]
    BY <1>0, <1>2 DEF Copied
  <2> HIDE DEF g
  <2> QED
    BY <1>1, <2>2, <2>3
<1>5. ASSUME NEW b \in Rest(cp, k) PROVE Planned(b)
  <2>1. PICK r \in DOMAIN rows, c \in DOMAIN cols :
          /\ LenAt(r, c) > 0
          /\ IF FastPathSafe THEN Slides(cp, r, c) ELSE Goes(cp, r, c) \/ Comes(cp, r, c)
    BY <1>2 DEF Planned
  <2>2. /\ OldAt(r, c) \in Nat /\ NewAt(r, c) \in Nat /\ LenAt(r, c) \in Nat
        /\ pcount + OldAt(r, c) \in Nat /\ pcount + NewAt(r, c) \in Nat
    BY DEF Laid
  <2>3. \A turn, from, to, len \in Nat :
          PartOf(cp, turn, from, to, len) => PartOf(b, turn, from, to, len)
    BY <1>0, <1>3, RestFacts
  <2>4. /\ Slides(cp, r, c) => Slides(b, r, c)
        /\ Goes(cp, r, c) => Goes(b, r, c)
        /\ Comes(cp, r, c) => Comes(b, r, c)
    BY <2>2, <2>3, Zenon DEF Slides, Goes, Comes
  <2> QED
    BY <2>1, <2>4 DEF Planned
<1>6. ASSUME NEW b \in Rest(cp, k) PROVE Source(b) \subseteq Source(cp) /\ b.turn = cp.turn
  <2>1. /\ Source(b) = (cp.from + k)..(cp.from + cp.len - 1) /\ b.turn = cp.turn
        /\ Source(cp) = cp.from..(cp.from + cp.len - 1)
    BY <1>0, <1>3, RestFacts
  <2>2. cp.from \in Nat /\ cp.len \in Nat /\ k \in Nat
    BY <1>0, <1>3 DEF CopyOK
  <2> QED
    BY <2>1, <2>2
<1>7. ASSUME NEW a \in repacking'.copies, NEW b \in repacking'.copies, a # b
      PROVE  Source(a) \cap Source(b) = {}
  <2>1. \A x, y \in Rest(cp, k) : x = y
    BY DEF Rest
  <2>2. CASE a \in cs \ {cp} /\ b \in cs \ {cp}
    BY <1>2, <1>7, <2>2
  <2>3. CASE a \in cs \ {cp} /\ b \in Rest(cp, k)
    <3>1. Source(a) \cap Source(cp) = {}
      BY <1>0, <1>2, <2>3
    <3> QED
      BY <1>6, <2>3, <3>1
  <2>4. CASE b \in cs \ {cp} /\ a \in Rest(cp, k)
    <3>1. Source(b) \cap Source(cp) = {}
      BY <1>0, <1>2, <2>4
    <3> QED
      BY <1>6, <2>4, <3>1
  <2> QED
    BY <1>0, <1>7, <2>1, <2>2, <2>3, <2>4
<1>8. ASSUME ~FastPathSafe, NEW b \in repacking'.copies, b.turn < pcount
      PROVE  Back \subseteq repacking'.copies
  <2>0. pcount \in Nat /\ cp.turn \in Nat
    BY <1>3 DEF Laid, CopyOK
  <2>1. \E a \in cs : a.turn < pcount
    BY <1>0, <1>6, <1>8
  <2>2. Back \subseteq cs /\ cp.turn < pcount
    <3>1. PICK a \in cs : a.turn < pcount
      BY <2>1
    <3>2. a.turn \in Nat /\ cp.turn <= a.turn
      BY <1>0, <1>2, PlannedFacts DEF CopyOK
    <3> QED
      BY <1>2, <1>8, <2>0, <2>1, <3>1, <3>2
  <2>3. ASSUME NEW x \in Back PROVE x # cp
    <3>1. PICK r \in DOMAIN rows, c \in DOMAIN cols :
            x = Copy(pcount + OldAt(r, c), pcount + NewAt(r, c), NewAt(r, c), LenAt(r, c))
      BY BegunCells
    <3>2. x.turn = pcount + OldAt(r, c) /\ OldAt(r, c) \in Nat
      BY <3>1 DEF Copy, Laid
    <3> QED
      BY <2>0, <2>2, <3>2
  <2> QED
    BY <1>0, <2>2, <2>3
<1>9. \A b \in repacking'.copies : Planned(b)'
  BY <1>0, <1>1, <1>2, <1>5
<1>10. (~FastPathSafe' /\ \E b \in repacking'.copies : b.turn < pcount') => Back' \subseteq repacking'.copies
  BY <1>0, <1>1, <1>8
<1>11. repacking' = [copies |-> repacking'.copies, rows |-> NewRows', pcount |-> NewPcount']
  BY <1>0, <1>1
<1> HIDE DEF cs
<1> QED
  BY <1>4, <1>7, <1>9, <1>10, <1>11 DEF Running

\* The end of a repack: the cells are where they were planned, and nothing is between them.
LEMMA Finished ==
  ASSUME Shape, HeapWellFormed, Running, FinishRepack
  PROVE  /\ Shape' /\ HeapWellFormed' /\ HeapTyped' /\ repacking' = Idle
         /\ \A p \in DOMAIN heap' : \E r \in DOMAIN rows', c \in DOMAIN cols' : p \in Span(rows'[r][c])
         /\ Seated => Intact'
<1>0. Laid
  BY LaidOut
<1>1. /\ rows' = repacking.rows /\ pcount' = repacking.pcount /\ cols' = cols /\ tainted' = tainted
      /\ heap' = [p \in 0..(repacking.pcount - 1) |-> heap[p]] /\ repacking' = Idle
      /\ repacking.copies = {}
  BY DEF FinishRepack
<1>2. repacking.rows = NewRows /\ repacking.pcount = NewPcount
  <2> DEFINE cs == repacking.copies
             pl == NewRows
             pc == NewPcount
  <2>1. repacking = [copies |-> cs, rows |-> pl, pcount |-> pc]
    BY DEF Running
  <2> HIDE DEF cs, pl, pc
  <2>2. repacking.rows = pl /\ repacking.pcount = pc
    BY <2>1
  <2> QED
    BY <2>2 DEF pl, pc
<1>3. /\ rows' = NewRows /\ pcount' = NewPcount
      /\ heap' = [p \in 0..(NewPcount - 1) |-> heap[p]]
  BY <1>1, <1>2
<1>4. /\ pcount \in Nat /\ NewPcount \in Nat /\ NewPcount <= pcount /\ pcount <= Top /\ Top \in Nat
      /\ heap \in [0..(Top - 1) -> ByteRec]
  <2>1. pcount \in Nat /\ NewPcount \in Nat /\ NewPcount <= pcount
    BY <1>0 DEF Laid
  <2>2. pcount <= Top /\ Top \in Nat
    BY <2>1 DEF Top
  <2> QED
    BY <2>1, <2>2 DEF Running
<1>5. /\ NewRows \in Seq([DOMAIN cols -> CellRec])
      /\ DOMAIN NewRows = DOMAIN rows /\ Len(NewRows) = Len(rows)
      /\ \A r \in DOMAIN rows, c \in DOMAIN cols :
           /\ NewRows[r][c].off \in Nat /\ NewRows[r][c].len = rows[r][c].len
           /\ NewRows[r][c].off + rows[r][c].len <= NewPcount
           /\ rows[r][c].len \in Nat
      /\ \A r, s \in DOMAIN rows, c, d \in DOMAIN cols :
           <<r, c>> # <<s, d>> => Span(NewRows[r][c]) \cap Span(NewRows[s][d]) = {}
      /\ \A p \in 0..(NewPcount - 1) :
           \E r \in DOMAIN rows, c \in DOMAIN cols : p \in Span(NewRows[r][c])
  BY PackFacts, TableFacts
<1>6. Shape'
  <2>1. NewPcount \in 0..MaxHeap
    BY <1>4, HeapBoundAssumption DEF Shape
  <2> QED
    BY <1>1, <1>3, <1>5, <2>1 DEF Shape
<1>7. HeapWellFormed'
  <2>1. \A r \in DOMAIN rows', c \in DOMAIN cols' : ~(rows'[r][c].off + rows'[r][c].len > pcount')
    BY <1>1, <1>3, <1>4, <1>5
  <2>2. \A r, s \in DOMAIN rows', c, d \in DOMAIN cols' :
          <<r, c>> # <<s, d>> => Span(rows'[r][c]) \cap Span(rows'[s][d]) = {}
    BY <1>1, <1>3, <1>5, Zenon
  <2> QED
    BY <2>1, <2>2 DEF HeapWellFormed, Refused
<1>8. HeapTyped'
  <2>1. \A p \in 0..(NewPcount - 1) : heap[p] \in ByteRec
    BY <1>4
  <2> QED
    BY <1>3, <2>1 DEF HeapTyped
<1>9. \A p \in DOMAIN heap' : \E r \in DOMAIN rows', c \in DOMAIN cols' : p \in Span(rows'[r][c])
  <2>1. DOMAIN heap' = 0..(NewPcount - 1)
    BY <1>3
  <2> QED
    BY <1>1, <1>3, <1>5, <2>1
<1>10. ASSUME Seated, NEW r \in DOMAIN rows', NEW c \in DOMAIN cols', NEW p \in Span(rows'[r][c])
       PROVE  heap'[p] = Byte(<<r, cols'[c]>>, p - rows'[r][c].off)
  <2>1. r \in DOMAIN rows /\ c \in DOMAIN cols /\ rows'[r][c].off = NewAt(r, c) /\ cols'[c] = cols[c]
    BY <1>1, <1>3, <1>5 DEF NewAt
  <2>2. /\ NewAt(r, c) \in Nat /\ LenAt(r, c) \in Nat /\ NewAt(r, c) + LenAt(r, c) <= NewPcount
        /\ p \in NewAt(r, c)..(NewAt(r, c) + LenAt(r, c) - 1)
    <3>1. rows'[r][c].len = LenAt(r, c)
      BY <1>3, <1>5, <2>1 DEF LenAt
    <3>2. NewAt(r, c) \in Nat /\ LenAt(r, c) \in Nat /\ NewAt(r, c) + LenAt(r, c) <= NewPcount
      BY <1>0, <2>1 DEF Laid
    <3> QED
      BY <1>10, <2>1, <3>1, <3>2 DEF Span
  <2> DEFINE i == p - NewAt(r, c)
  <2>3. i \in 0..(LenAt(r, c) - 1) /\ NewAt(r, c) + i = p /\ p \in 0..(NewPcount - 1)
    BY <1>4, <2>2
  <2> HIDE DEF i
  <2>4. Seat(r, c, i) = NewAt(r, c) + i
    <3>1. \A q : ~Pending(q)
      BY <1>1 DEF Pending
    <3> QED
      BY <3>1 DEF Seat
  <2>5. heap[p] = Byte(<<r, cols[c]>>, i)
    BY <1>10, <2>1, <2>3, <2>4 DEF Seated
  <2>6. heap'[p] = heap[p]
    BY <1>3, <2>3
  <2> QED
    BY <2>1, <2>5, <2>6 DEF i
<1>11. Seated => Intact'
  BY <1>10 DEF Intact
<1> QED
  BY <1>1, <1>6, <1>7, <1>8, <1>9, <1>11

\* A step that touches neither table nor heap nor plan.
LEMMA NothingMoves ==
  ASSUME cols' = cols, rows' = rows, pcount' = pcount, heap' = heap, repacking' = repacking
  PROVE  /\ HeapWellFormed => HeapWellFormed'
         /\ HeapTyped => HeapTyped'
         /\ Intact => Intact'
         /\ Running => Running'
         /\ Seated => Seated'
<1>1. /\ NewRows' = NewRows /\ NewPcount' = NewPcount /\ Back' = Back
      /\ (FastPathSafe' <=> FastPathSafe) /\ Top' = Top
      /\ \A cp : Planned(cp)' <=> Planned(cp)
      /\ \A r, c : OldAt(r, c)' = OldAt(r, c) /\ NewAt(r, c)' = NewAt(r, c)
                   /\ LenAt(r, c)' = LenAt(r, c)
  BY PlanStays
<1>2. HeapWellFormed => HeapWellFormed'
  BY DEF HeapWellFormed, Refused
<1>3. (HeapTyped => HeapTyped') /\ (Intact => Intact')
  BY DEF HeapTyped, Intact
<1>4. Running => Running'
  BY <1>1 DEF Running
<1>5. Seated => Seated'
  BY <1>1 DEF Seated, Seat, Pending
<1> QED
  BY <1>2, <1>3, <1>4, <1>5

\* What a write keeps.
LEMMA Written ==
  ASSUME Shape, HeapWellFormed, HeapTyped, NEW n, NEW m, NEW rs, NEW cs, NEW lens, NEW start,
         Updates(n, m, rs, cs, lens, start)
  PROVE  /\ HeapWellFormed' /\ HeapTyped' /\ (Intact => Intact')
         /\ repacking = Idle /\ repacking' = Idle
<1>1. HeapWellFormed' /\ HeapTyped' /\ (Intact => Intact')
  BY WrittenApart, WrittenTyped, WrittenIntact
<1>2. repacking = Idle /\ repacking' = Idle
  BY DEF Updates, WriteHeap, Ready
<1> QED
  BY <1>1, <1>2

\* Nothing is written while a repack runs.
LEMMA WritesWait ==
  ASSUME Write
  PROVE  repacking = Idle
<1>1. \/ \E lens : WriteAll(lens)
      \/ \E lens : AppendRow(lens)
      \/ \E r, c, lens : SetCell(r, c, lens)
      \/ \E r, s, lens : SetTwoRows(r, s, lens)
      \/ \E c : DeleteColumn(c)
      \/ \E c, lens : SetColumn(c, lens)
      \/ \E c, name, lens : InsertColumn(c, name, lens)
  BY Zenon DEF Write
<1> QED
  BY <1>1 DEF WriteAll, AppendRow, SetCell, SetTwoRows, DeleteColumn, SetColumn, InsertColumn,
              WriteHeap, Ready

\* Every write leaves a table of the same kind.
LEMMA AnyWrite ==
  ASSUME Shape, HeapWellFormed, HeapTyped, Write
  PROVE  /\ Shape' /\ HeapWellFormed' /\ HeapTyped' /\ (Intact => Intact')
         /\ repacking = Idle /\ repacking' = Idle
<1>1. CASE \E lens \in Lens(Len(rows), Len(cols)) : WriteAll(lens)
  BY <1>1, WriteAllUpdates, Written
<1>2. CASE \E lens \in Lens(1, Len(cols)) : AppendRow(lens)
  BY <1>2, AppendRowUpdates, Written
<1>3. CASE \E r \in DOMAIN rows, c \in DOMAIN cols, lens \in Lens(1, 1) : SetCell(r, c, lens)
  BY <1>3, SetCellUpdates, Written
<1>4. CASE \E r, s \in DOMAIN rows, lens \in Lens(2, Len(cols)) : SetTwoRows(r, s, lens)
  BY <1>4, SetTwoRowsUpdates, Written
<1>5. CASE \E c \in DOMAIN cols : DeleteColumn(c)
  <2>1. PICK c \in DOMAIN cols : DeleteColumn(c)
    BY <1>5
  <2>2. repacking = Idle /\ repacking' = Idle
    BY <2>1 DEF DeleteColumn, Ready
  <2> QED
    BY <2>1, <2>2, DeleteColumnFacts, DeleteColumnKeeps
<1>6. CASE \E c \in DOMAIN cols, lens \in Lens(Len(rows), 1) : SetColumn(c, lens)
  BY <1>6, SetColumnUpdates, Written
<1>7. CASE \E c, name \in 1..MaxCols, lens \in Lens(Len(rows), 1) : InsertColumn(c, name, lens)
  BY <1>7, InsertColumnUpdates, Written
<1> QED
  BY <1>1, <1>2, <1>3, <1>4, <1>5, <1>6, <1>7 DEF Write

-----------------------------------------------------------------------------
(* The invariant of the table and its heap.                                *)

\* The inductive invariant: descriptors apart and inside the heap, and the heap and the
\* pending copies as the plan has them.
RepackInv ==
    /\ Shape /\ HeapWellFormed
    /\ repacking = Idle => HeapTyped
    /\ repacking # Idle => Running

\* A new table: rows of empty cells and no heap.
LEMMA InitFacts ==
  ASSUME Init
  PROVE  RepackInv /\ Intact /\ repacking = Idle
<1>1. PICK n \in 1..MaxCols : cols = [c \in 1..n |-> c]
  BY DEF Init
<1>2. PICK m \in 0..MaxRows : rows = [r \in 1..m |-> [c \in DOMAIN cols |-> Cell(0, 0)]]
  BY DEF Init
<1>3. /\ pcount = 0 /\ heap = [p \in 0..(pcount - 1) |-> Junk] /\ repacking = Idle /\ tainted = FALSE
  BY DEF Init
<1>4. cols \in Seq(1..MaxCols) /\ \A c, d \in DOMAIN cols : cols[c] = cols[d] => c = d
  <2> DEFINE E == 1..MaxCols
  <2>1. n \in Nat /\ cols \in [1..n -> E]
    BY <1>1, HeapBoundAssumption
  <2> HIDE DEF E
  <2>2. cols \in Seq(E)
    BY <2>1, FunIsSeq
  <2> QED
    BY <1>1, <2>2 DEF E
<1>5. Cell(0, 0) \in CellRec /\ Cell(0, 0).off = 0 /\ Cell(0, 0).len = 0
  BY HeapBoundAssumption DEF Cell, CellRec
<1>6. rows \in Seq([DOMAIN cols -> CellRec]) /\ Len(rows) <= MaxRows
  <2>1. m \in Nat /\ m <= MaxRows /\ rows \in [1..m -> [DOMAIN cols -> CellRec]]
    BY <1>2, <1>5, HeapBoundAssumption
  <2>2. rows \in Seq([DOMAIN cols -> CellRec]) /\ Len(rows) = m
    BY <2>1, FunIsSeq
  <2> QED
    BY <2>1, <2>2
<1>7. \A r \in DOMAIN rows, c \in DOMAIN cols : rows[r][c] = Cell(0, 0)
  BY <1>2
<1>8. \A r \in DOMAIN rows, c \in DOMAIN cols : Span(rows[r][c]) = {}
  BY <1>5, <1>7 DEF Span
<1>9. Shape
  <2>1. pcount \in 0..MaxHeap
    BY <1>3, HeapBoundAssumption
  <2>2. tainted \in BOOLEAN
    BY <1>3
  <2> QED
    BY <1>4, <1>6, <2>1, <2>2, Zenon DEF Shape
<1>10. HeapWellFormed
  <2>1. ASSUME NEW r \in DOMAIN rows, NEW c \in DOMAIN cols
        PROVE  ~(rows[r][c].off + rows[r][c].len > pcount)
    BY <1>3, <1>5, <1>7
  <2>2. \A r, s \in DOMAIN rows, c, d \in DOMAIN cols : Span(rows[r][c]) \cap Span(rows[s][d]) = {}
    BY <1>8
  <2> QED
    BY <2>1, <2>2 DEF HeapWellFormed, Refused
<1>11. HeapTyped
  <2>1. Junk \in ByteRec
    BY HeapBoundAssumption DEF Junk, Byte, ByteRec
  <2> QED
    BY <1>3, <2>1 DEF HeapTyped
<1>12. Intact
  BY <1>8 DEF Intact
<1> QED
  BY <1>3, <1>9, <1>10, <1>11, <1>12 DEF RepackInv

\* A step that leaves the table alone.
LEMMA TableStays ==
  ASSUME Shape, HeapWellFormed, cols' = cols, rows' = rows, pcount' = pcount, tainted' = tainted
  PROVE  Shape' /\ HeapWellFormed'
<1>1. Shape'
  BY DEF Shape
<1>2. HeapWellFormed'
  BY DEF HeapWellFormed, Refused
<1> QED
  BY <1>1, <1>2

\* No step breaks it.
LEMMA RepackStep ==
  ASSUME RepackInv, [Next]_vars
  PROVE  RepackInv'
<1>0. Shape /\ HeapWellFormed
  BY DEF RepackInv
<1>1. CASE Write
  <2>1. repacking = Idle
    BY <1>1, WritesWait
  <2>2. HeapTyped
    BY <2>1 DEF RepackInv
  <2> QED
    BY <1>0, <1>1, <2>2, AnyWrite DEF RepackInv
<1>2. CASE StartRepack
  <2>1. repacking = Idle /\ cols' = cols /\ rows' = rows /\ pcount' = pcount /\ tainted' = tainted
    BY <1>2 DEF StartRepack, Ready
  <2>2. HeapTyped
    BY <2>1 DEF RepackInv
  <2>3. repacking' # Idle /\ Running'
    BY <1>0, <1>2, <2>2, Started
  <2>4. Shape' /\ HeapWellFormed'
    BY <1>0, <2>1, TableStays
  <2> QED
    BY <2>3, <2>4 DEF RepackInv
<1>3. CASE StreamChunk
  <2>1. Laid
    BY <1>0, LaidOut
  <2>2. repacking # Idle
    <3>1. Idle.copies = {}
      BY DEF Idle
    <3> QED
      BY <1>3, <3>1 DEF StreamChunk
  <2>3. Running
    BY <2>2 DEF RepackInv
  <2>4. PICK cp, k : Steps(cp, k)
    BY <1>3, <2>1, <2>3, ChunkSteps
  <2>5. Running'
    BY <2>1, <2>3, <2>4, ChunkRunning
  <2>6. cols' = cols /\ rows' = rows /\ pcount' = pcount /\ tainted' = tainted
    BY <1>3 DEF StreamChunk
  <2>7. Shape' /\ HeapWellFormed'
    BY <1>0, <2>6, TableStays
  <2>8. repacking' # Idle
    BY <2>1, <2>4, StillRepacking
  <2> QED
    BY <2>5, <2>7, <2>8 DEF RepackInv
<1>4. CASE FailRepack
  <2>1. /\ cols' = cols /\ rows' = rows /\ pcount' = pcount /\ heap' = heap /\ repacking' = repacking
        /\ tainted' = TRUE
    BY <1>4 DEF FailRepack
  <2>2. Shape'
    BY <1>0, <2>1 DEF Shape
  <2> QED
    BY <2>1, <2>2, NothingMoves DEF RepackInv
<1>5. CASE FinishRepack
  <2>1. Running
    BY <1>5 DEF RepackInv, FinishRepack
  <2> QED
    BY <1>0, <1>5, <2>1, Finished DEF RepackInv
<1>6. CASE UNCHANGED vars
  <2>1. /\ cols' = cols /\ rows' = rows /\ pcount' = pcount /\ heap' = heap /\ repacking' = repacking
        /\ tainted' = tainted
    BY <1>6 DEF vars
  <2>2. Shape'
    BY <1>0, <2>1 DEF Shape
  <2> QED
    BY <2>1, <2>2, NothingMoves DEF RepackInv
<1> QED
  BY <1>1, <1>2, <1>3, <1>4, <1>5, <1>6 DEF Next

\* Descriptors, heap and the plan of a running repack agree in every state, for tables of
\* any size.
THEOREM RepackInvariance == Spec => []RepackInv
<1>1. Init => RepackInv
  BY InitFacts
<1>2. RepackInv /\ [Next]_vars => RepackInv'
  BY RepackStep
<1> QED
  BY <1>1, <1>2, PTL DEF Spec

\* No two live cells share a byte and none leaves the heap, whatever was written, edited
\* and repacked before: repack_table_heap never refuses a table of this code's making,
\* and its sort by old offset never meets a tie.
THEOREM CellsStayApart == Spec => []HeapWellFormed
<1>1. RepackInv => HeapWellFormed
  BY DEF RepackInv
<1> QED
  BY <1>1, RepackInvariance, PTL

\* The descriptors, PCOUNT and the bytes of the heap keep their types; the heap is never
\* shorter than PCOUNT.
THEOREM TypeCorrect == Spec => []TypeOK
<1>1. ASSUME RepackInv PROVE TypeOK
  <2>1. Shape
    BY <1>1 DEF RepackInv
  <2>2. /\ \A r \in DOMAIN rows : rows[r] \in [DOMAIN cols -> CellRec]
        /\ pcount \in Nat
    BY <2>1, TableFacts
  <2>3. \A c \in DOMAIN cols : cols[c] \in 1..MaxCols
    <3>1. cols \in [1..Len(cols) -> 1..MaxCols]
      BY <2>1, LenProperties DEF Shape
    <3> QED
      BY <3>1
  <2>4. 0..(pcount - 1) \subseteq DOMAIN heap /\ \A p \in DOMAIN heap : heap[p] \in ByteRec
    <3>1. CASE repacking = Idle
      BY <1>1, <3>1 DEF RepackInv, HeapTyped
    <3>2. CASE repacking # Idle
      <4>1. Laid
        BY <1>1, LaidOut DEF RepackInv
      <4>2. Top \in Nat /\ pcount <= Top
        BY <4>1 DEF Laid, Top
      <4>3. heap \in [0..(Top - 1) -> ByteRec]
        BY <1>1, <3>2 DEF RepackInv, Running
      <4> QED
        BY <2>2, <4>2, <4>3
    <3> QED
      BY <3>1, <3>2
  <2> QED
    BY <2>1, <2>2, <2>3, <2>4 DEF TypeOK, Shape
<1> QED
  BY <1>1, RepackInvariance, PTL

\* A repack that ends without error leaves no byte between the cells: the new offsets
\* are running sums of the lengths, and PCOUNT is their total.
THEOREM CompactsHeap == Spec => RepackCompacts
<1> DEFINE Ends == repacking # Idle /\ repacking' = Idle
           Covered == \A p \in DOMAIN heap' :
                        \E r \in DOMAIN rows', c \in DOMAIN cols' : p \in Span(rows'[r][c])
<1>1. ASSUME RepackInv, [Next]_vars, Ends PROVE Covered
  <2>0. Shape /\ HeapWellFormed /\ Running
    BY <1>1 DEF RepackInv
  <2>1. ~Write
    BY <1>1, WritesWait
  <2>2. ~StartRepack
    BY <1>1 DEF StartRepack, Ready
  <2>3. ~StreamChunk
    <3> SUFFICES ASSUME StreamChunk PROVE FALSE
      OBVIOUS
    <3>1. Laid
      BY <2>0, LaidOut
    <3>2. PICK cp, k : Steps(cp, k)
      BY <2>0, <3>1, ChunkSteps
    <3> QED
      BY <1>1, <3>1, <3>2, StillRepacking
  <2>4. ~FailRepack /\ ~UNCHANGED vars
    BY <1>1 DEF FailRepack, vars
  <2>5. FinishRepack
    BY <1>1, <2>1, <2>2, <2>3, <2>4 DEF Next
  <2> QED
    BY <2>0, <2>5, Finished
<1>2. RepackInv /\ [Next]_vars => [Ends => Covered]_vars
  BY <1>1
<1>3. Spec => [][Ends => Covered]_vars
  <2> HIDE DEF Ends, Covered
  <2> QED
    BY <1>2, RepackInvariance, PTL DEF Spec
<1> QED
  BY <1>3 DEF RepackCompacts

-----------------------------------------------------------------------------
(* No chunk overwrites a byte that is still to be read.                    *)

\* After a chunk, what was to be read still is, but for the bytes of the chunk.
LEMMA PendingAfter ==
  ASSUME Laid, Running, NEW cp, NEW k, Steps(cp, k), NEW p \in Int
  PROVE  (\E b \in repacking'.copies : p \in Source(b))
         <=> Pending(p) /\ p \notin cp.from..(cp.from + k - 1)
<1> DEFINE cs == repacking.copies
           chunk == cp.from..(cp.from + k - 1)
<1>0. /\ cp \in cs /\ k \in 1..cp.len
      /\ repacking'.copies = (cs \ {cp}) \cup Rest(cp, k)
  BY DEF Steps
<1>1. CopyOK(cp)
  BY <1>0, PlannedFacts DEF Running
<1>2. cp.from \in Nat /\ cp.len \in Nat /\ k \in Nat /\ 1 <= k /\ k <= cp.len
  BY <1>0, <1>1 DEF CopyOK
<1>3. Source(cp) = cp.from..(cp.from + cp.len - 1) /\ chunk \subseteq Source(cp)
  BY <1>2 DEF Source
<1>4. ASSUME NEW b \in repacking'.copies, p \in Source(b)
      PROVE  Pending(p) /\ p \notin chunk
  <2>1. CASE b \in cs \ {cp}
    <3>1. Source(b) \cap Source(cp) = {}
      BY <1>0, <2>1 DEF Running
    <3> QED
      BY <1>3, <1>4, <2>1, <3>1 DEF Pending
  <2>2. CASE b \in Rest(cp, k)
    <3>1. Source(b) = (cp.from + k)..(cp.from + cp.len - 1)
      BY <1>0, <1>1, <2>2, RestFacts
    <3>2. p \in Source(cp) /\ p \notin chunk
      BY <1>2, <1>3, <1>4, <3>1
    <3> QED
      BY <1>0, <3>2 DEF Pending
  <2> QED
    BY <1>0, <1>4, <2>1, <2>2
<1>5. ASSUME Pending(p), p \notin chunk
      PROVE  \E b \in repacking'.copies : p \in Source(b)
  <2>1. PICK b \in cs : p \in Source(b)
    BY <1>5 DEF Pending
  <2>2. CASE b # cp
    BY <1>0, <2>1, <2>2
  <2>3. CASE b = cp
    <3>1. cp.from + k <= p /\ p <= cp.from + cp.len - 1 /\ k # cp.len
      BY <1>2, <1>3, <1>5, <2>1, <2>3
    <3> DEFINE x == Copy(cp.turn, cp.from + k, cp.to + k, cp.len - k)
    <3>2. x \in Rest(cp, k)
      BY <3>1 DEF Rest
    <3> HIDE DEF x
    <3>3. Source(x) = (cp.from + k)..(cp.from + cp.len - 1)
      BY <1>0, <1>1, <3>2, RestFacts
    <3>4. p \in Source(x)
      BY <1>2, <3>1, <3>3
    <3> QED
      BY <1>0, <3>2, <3>4
  <2> QED
    BY <2>2, <2>3
<1> QED
  BY <1>4, <1>5

\* Byte i of cell (r, c) is taken along by a chunk, or stays where it is and is not
\* overwritten.
Carried(cp, k, r, c, i) ==
    /\ Seat(r, c, i)' \in 0..(Top - 1)
    /\ \/ /\ Seat(r, c, i) \in cp.from..(cp.from + k - 1)
          /\ Seat(r, c, i)' = Seat(r, c, i) - cp.from + cp.to
       \/ /\ Seat(r, c, i)' = Seat(r, c, i)
          /\ Seat(r, c, i) \notin cp.to..(cp.to + k - 1)

\* Where it is after the chunk.
Reseated(cp, k, r, c, i) ==
    LET chunk == cp.from..(cp.from + k - 1)
        o == OldAt(r, c) + i
        n == NewAt(r, c) + i
    IN  Seat(r, c, i)' = IF Pending(o) /\ o \notin chunk THEN o
                         ELSE IF Pending(pcount + n) /\ pcount + n \notin chunk THEN pcount + n
                         ELSE n

\* A chunk moves a byte on by one place, or not at all.
LEMMA SeatAfter ==
  ASSUME Laid, Running, NEW cp, NEW k, Steps(cp, k),
         NEW r \in DOMAIN rows, NEW c \in DOMAIN cols, NEW i \in 0..(LenAt(r, c) - 1)
  PROVE  Reseated(cp, k, r, c, i)
<1> DEFINE chunk == cp.from..(cp.from + k - 1)
           o == OldAt(r, c) + i
           n == NewAt(r, c) + i
           z == pcount + NewAt(r, c) + i
<1>1. o \in Int /\ z \in Int /\ z = pcount + n
  BY DEF Laid
<1>2. cols' = cols /\ rows' = rows /\ pcount' = pcount
  BY DEF Steps
<1>3. OldAt(r, c)' = OldAt(r, c) /\ NewAt(r, c)' = NewAt(r, c)
  BY <1>2, PlanStays
<1>4. /\ (\E b \in repacking'.copies : o \in Source(b)) <=> Pending(o) /\ o \notin chunk
      /\ (\E b \in repacking'.copies : z \in Source(b)) <=> Pending(z) /\ z \notin chunk
  <2> HIDE DEF o, z
  <2> QED
    BY <1>1, PendingAfter
<1>5. Seat(r, c, i)' = IF \E b \in repacking'.copies : o \in Source(b) THEN o
                       ELSE IF \E b \in repacking'.copies : z \in Source(b) THEN z
                       ELSE n
  BY <1>2, <1>3 DEF Seat, Pending
<1>6. Seat(r, c, i)' = IF Pending(o) /\ o \notin chunk THEN o
                       ELSE IF Pending(z) /\ z \notin chunk THEN z ELSE n
  <2> HIDE DEF o, n, z, chunk
  <2> QED
    BY <1>4, <1>5, Zenon
<1> QED
  BY <1>1, <1>6 DEF Reseated

\* A copy that reads a byte of a live cell's old place is a copy of that cell, and one
\* that reads a byte of its place in the staging area brings it back.
LEMMA Reader ==
  ASSUME Laid, Running, NEW b \in repacking.copies, NEW r \in DOMAIN rows, NEW c \in DOMAIN cols,
         NEW i \in 0..(LenAt(r, c) - 1)
  PROVE  /\ FastPathSafe /\ OldAt(r, c) + i \in Source(b) => Slides(b, r, c)
         /\ ~FastPathSafe /\ OldAt(r, c) + i \in Source(b) => Goes(b, r, c)
         /\ FastPathSafe => pcount + NewAt(r, c) + i \notin Source(b)
         /\ ~FastPathSafe /\ pcount + NewAt(r, c) + i \in Source(b) => Comes(b, r, c)
<1>1. PICK s \in DOMAIN rows, d \in DOMAIN cols :
        /\ LenAt(s, d) > 0
        /\ IF FastPathSafe THEN Slides(b, s, d) ELSE Goes(b, s, d) \/ Comes(b, s, d)
  BY DEF Running, Planned
<1>2. /\ pcount \in Nat /\ NewPcount \in Nat /\ NewPcount <= pcount /\ i \in Nat /\ i < LenAt(r, c)
      /\ OldAt(r, c) \in Nat /\ NewAt(r, c) \in Nat /\ LenAt(r, c) \in Nat /\ LenAt(r, c) > 0
      /\ OldAt(r, c) + LenAt(r, c) <= pcount
      /\ OldAt(s, d) \in Nat /\ NewAt(s, d) \in Nat /\ LenAt(s, d) \in Nat
      /\ OldAt(s, d) + LenAt(s, d) <= pcount
  BY DEF Laid
<1>3. <<r, c>> # <<s, d>> =>
        /\ OldAt(r, c) + LenAt(r, c) <= OldAt(s, d) \/ OldAt(s, d) + LenAt(s, d) <= OldAt(r, c)
        /\ NewAt(r, c) + LenAt(r, c) <= NewAt(s, d) \/ NewAt(s, d) + LenAt(s, d) <= NewAt(r, c)
  BY <1>1, <1>2 DEF Laid
<1>4. CASE IF FastPathSafe THEN Slides(b, s, d) ELSE Goes(b, s, d)
  <2>1. PICK e \in 0..(LenAt(s, d) - 1) :
          Source(b) = (OldAt(s, d) + e)..(OldAt(s, d) + LenAt(s, d) - 1)
    BY <1>4, SlideFacts, GoFacts DEF Left
  <2>2. pcount + NewAt(r, c) + i \notin Source(b)
    BY <1>2, <2>1
  <2>3. OldAt(r, c) + i \in Source(b) => <<r, c>> = <<s, d>>
    BY <1>2, <1>3, <2>1
  <2>4. OldAt(r, c) + i \in Source(b) => r = s /\ c = d
    BY <2>3
  <2> QED
    BY <1>4, <2>2, <2>4, Zenon
<1>5. CASE ~FastPathSafe /\ Comes(b, s, d)
  <2>1. PICK e \in 0..(LenAt(s, d) - 1) :
          Source(b) = (pcount + NewAt(s, d) + e)..(pcount + NewAt(s, d) + LenAt(s, d) - 1)
    BY <1>5, ComeFacts DEF Left
  <2>2. OldAt(r, c) + i \notin Source(b)
    <3>1. OldAt(r, c) + i < pcount
      BY <1>2
    <3>2. \A p \in Source(b) : pcount <= p
      BY <1>2, <2>1
    <3> QED
      BY <1>2, <3>1, <3>2
  <2>3. pcount + NewAt(r, c) + i \in Source(b) => <<r, c>> = <<s, d>>
    <3>1. SUFFICES ASSUME pcount + NewAt(r, c) + i \in Source(b), <<r, c>> # <<s, d>>
                   PROVE  FALSE
      OBVIOUS
    <3>2. NewAt(r, c) + LenAt(r, c) <= NewAt(s, d) \/ NewAt(s, d) + LenAt(s, d) <= NewAt(r, c)
      BY <1>3, <3>1
    <3>3. /\ NewAt(s, d) + e <= NewAt(r, c) + i
          /\ NewAt(r, c) + i < NewAt(s, d) + LenAt(s, d)
      <4> DEFINE x == NewAt(r, c) + i
                 lo == NewAt(s, d) + e
                 hi == NewAt(s, d) + LenAt(s, d)
      <4>1. x \in Nat /\ lo \in Nat /\ hi \in Nat
        BY <1>2
      <4>2. pcount + x \in (pcount + lo)..(pcount + hi - 1)
        <5>1. /\ pcount + NewAt(s, d) + e = pcount + lo
              /\ pcount + NewAt(s, d) + LenAt(s, d) - 1 = pcount + hi - 1
              /\ pcount + NewAt(r, c) + i = pcount + x
          BY <1>2
        <5> HIDE DEF x, lo, hi
        <5> QED
          BY <2>1, <3>1, <5>1, Zenon
      <4> HIDE DEF x, lo, hi
      <4>3. lo <= x /\ x < hi
        BY <1>2, <4>1, <4>2
      <4> QED
        BY <4>3 DEF x, lo, hi
    <3> QED
      BY <1>2, <3>2, <3>3
  <2>4. pcount + NewAt(r, c) + i \in Source(b) => r = s /\ c = d
    BY <2>3
  <2> QED
    BY <1>5, <2>2, <2>4, Zenon
<1> QED
  BY <1>1, <1>4, <1>5
\* A chunk of a part of a copy in numbers.
ChunkAt(cp, k, turn, from, to, len) ==
    \E e \in Nat :
      /\ cp.from \in Nat /\ cp.to \in Nat /\ cp.len \in Nat /\ k \in Nat
      /\ 1 <= k /\ k <= cp.len /\ e + cp.len = len
      /\ cp.turn = turn /\ cp.from = from + e /\ cp.to = to + e

\* It lies inside the copy.
LEMMA ChunkNumbers ==
  ASSUME NEW turn \in Nat, NEW from \in Nat, NEW to \in Nat, NEW len \in Nat,
         NEW cp, Left(cp, turn, from, to, len), NEW k \in 1..cp.len
  PROVE  ChunkAt(cp, k, turn, from, to, len)
<1>1. PICK e \in 0..(len - 1) :
        cp.turn = turn /\ cp.from = from + e /\ cp.to = to + e /\ cp.len = len - e
  BY DEF Left
<1>2. /\ e \in Nat /\ len - e \in Nat /\ e + (len - e) = len
      /\ from + e \in Nat /\ to + e \in Nat
  OBVIOUS
<1>3. cp.from \in Nat /\ cp.to \in Nat /\ cp.len \in Nat /\ e + cp.len = len
  BY <1>1, <1>2, Zenon
<1>4. k \in Nat /\ 1 <= k /\ k <= cp.len
  BY <1>3
<1> QED
  BY <1>1, <1>2, <1>3, <1>4, Zenon DEF ChunkAt

\* In place: what is still to be read lies behind, because the cells go in the order of
\* their old places, and no cell runs over itself.
LEMMA SlideCarries ==
  ASSUME Laid, Running, NoUpwardOverlap, FastPathSafe, NEW cp, NEW k, Steps(cp, k),
         NEW r \in DOMAIN rows, NEW c \in DOMAIN cols, NEW i \in 0..(LenAt(r, c) - 1)
  PROVE  Carried(cp, k, r, c, i)
<1> DEFINE chunk == cp.from..(cp.from + k - 1)
           o == OldAt(r, c) + i
           n == NewAt(r, c) + i
<1>1. /\ cp \in repacking.copies /\ \A b \in repacking.copies : cp.turn <= b.turn
      /\ k \in 1..cp.len /\ (k = cp.len \/ (k = CHUNK /\ cp.len > CHUNK))
  BY DEF Steps
<1>2. PICK s \in DOMAIN rows, d \in DOMAIN cols : LenAt(s, d) > 0 /\ Slides(cp, s, d)
  BY <1>1 DEF Running, Planned
<1>3. /\ pcount \in Nat /\ NewPcount \in Nat /\ NewPcount <= pcount /\ i \in Nat /\ i < LenAt(r, c)
      /\ OldAt(r, c) \in Nat /\ NewAt(r, c) \in Nat /\ LenAt(r, c) \in Nat /\ LenAt(r, c) > 0
      /\ OldAt(r, c) + LenAt(r, c) <= pcount /\ NewAt(r, c) + LenAt(r, c) <= NewPcount
      /\ OldAt(s, d) \in Nat /\ NewAt(s, d) \in Nat /\ LenAt(s, d) \in Nat
  BY DEF Laid
<1>4. PICK e \in Nat :
         /\ cp.from \in Nat /\ cp.to \in Nat /\ cp.len \in Nat /\ k \in Nat
         /\ 1 <= k /\ k <= cp.len /\ e + cp.len = LenAt(s, d)
         /\ cp.turn = OldAt(s, d) /\ cp.from = OldAt(s, d) + e /\ cp.to = NewAt(s, d) + e
  <2>1. Left(cp, OldAt(s, d), OldAt(s, d), NewAt(s, d), LenAt(s, d))
    BY <1>2, SlideFacts
  <2>2. ChunkAt(cp, k, OldAt(s, d), OldAt(s, d), NewAt(s, d), LenAt(s, d))
    BY <1>1, <1>3, <2>1, ChunkNumbers
  <2> QED
    BY <2>2, Zenon DEF ChunkAt
<1>5. <<r, c>> # <<s, d>> =>
        /\ OldAt(r, c) + LenAt(r, c) <= OldAt(s, d) \/ OldAt(s, d) + LenAt(s, d) <= OldAt(r, c)
        /\ NewAt(r, c) + LenAt(r, c) <= NewAt(s, d) \/ NewAt(s, d) + LenAt(s, d) <= NewAt(r, c)
  BY <1>2, <1>3 DEF Laid
<1>6. ~Pending(pcount + n)
  <2>1. pcount + n = pcount + NewAt(r, c) + i
    BY <1>3
  <2> QED
    BY <2>1, Reader DEF Pending
<1>7. Top = pcount /\ o \in 0..(Top - 1) /\ n \in 0..(Top - 1)
  BY <1>3 DEF Top
<1>8. Seat(r, c, i) = IF Pending(o) THEN o ELSE n
  <2>1. pcount + n = pcount + NewAt(r, c) + i
    BY <1>3
  <2> QED
    BY <1>6, <2>1 DEF Seat
<1>9. Seat(r, c, i)' = IF Pending(o) /\ o \notin chunk THEN o ELSE n
  BY <1>6, SeatAfter DEF Reseated
<1> HIDE DEF chunk, o, n
<1>10. CASE o \in chunk
  <2>1. <<r, c>> = <<s, d>>
    BY <1>3, <1>5, <1>10, <1>4 DEF chunk, o
  <2>2. r = s /\ c = d
    BY <2>1
  <2>3. o \in Source(cp)
    BY <1>10, <1>4 DEF chunk, Source
  <2>4. Pending(o)
    BY <1>1, <2>3 DEF Pending
  <2>5. n = o - cp.from + cp.to
    BY <1>3, <1>4, <2>2 DEF o, n
  <2>6. Seat(r, c, i) = o /\ Seat(r, c, i)' = n
    BY <1>8, <1>9, <1>10, <2>4
  <2> QED
    BY <1>7, <1>10, <2>5, <2>6 DEF Carried, chunk
<1>11. CASE o \notin chunk /\ Pending(o)
  <2>1. PICK b \in repacking.copies : o \in Source(b)
    BY <1>11 DEF Pending
  <2>2. Slides(b, r, c)
    BY <2>1, Reader DEF o
  <2>3. PICK f \in 0..(LenAt(r, c) - 1) :
          /\ b.turn = OldAt(r, c)
          /\ Source(b) = (OldAt(r, c) + f)..(OldAt(r, c) + LenAt(r, c) - 1)
    BY <2>2, SlideFacts DEF Left
  <2>4. o \notin cp.to..(cp.to + k - 1)
    <3>1. CASE <<r, c>> = <<s, d>>
      <4>1. r = s /\ c = d
        BY <3>1
      <4>2. b = cp
        <5> DEFINE last == OldAt(s, d) + LenAt(s, d) - 1
        <5>1. last \in Source(b)
          BY <1>2, <1>3, <2>3, <4>1
        <5>2. last \in Source(cp)
          BY <1>3, <1>4 DEF Source
        <5> HIDE DEF last
        <5> QED
          BY <1>1, <5>1, <5>2 DEF Running
      <4>3. o >= cp.from + k /\ o < cp.from + cp.len /\ k < cp.len
        <5>1. o \in (cp.from)..(cp.from + cp.len - 1) /\ o \in Int
          BY <1>3, <2>1, <4>2 DEF o, Source
        <5>2. o \notin cp.from..(cp.from + k - 1)
          BY <1>11 DEF chunk
        <5> QED
          BY <1>4, <5>1, <5>2
      <4>4. cp.len > CHUNK
        BY <1>1, <1>4, <4>3
      <4>5. cp.to \notin (cp.from + 1)..(cp.from + cp.len - 1)
        BY <1>1, <4>4 DEF NoUpwardOverlap
      <4> QED
        BY <1>3, <1>4, <4>3, <4>5 DEF o
    <3>2. CASE <<r, c>> # <<s, d>>
      <4>1. OldAt(s, d) <= OldAt(r, c)
        BY <1>1, <1>4, <2>1, <2>3
      <4>2. OldAt(s, d) < OldAt(r, c)
        BY <1>2, <1>3, <1>5, <3>2, <4>1
      <4>3. NewAt(s, d) + LenAt(s, d) <= OldAt(r, c)
        BY <1>2, <1>3, <4>2, SafeFacts
      <4> QED
        BY <1>3, <1>4, <4>3 DEF o
    <3> QED
      BY <3>1, <3>2
  <2>5. Seat(r, c, i) = o /\ Seat(r, c, i)' = o
    BY <1>8, <1>9, <1>11
  <2> QED
    BY <1>7, <2>4, <2>5 DEF Carried
<1>12. CASE o \notin chunk /\ ~Pending(o)
  <2>1. n \notin cp.to..(cp.to + k - 1)
    <3>1. CASE <<r, c>> = <<s, d>>
      <4>1. r = s /\ c = d
        BY <3>1
      <4> QED
        BY <1>3, <1>12, <1>4, <4>1 DEF chunk, o, n
    <3>2. CASE <<r, c>> # <<s, d>>
      BY <1>3, <1>5, <1>4, <3>2 DEF n
    <3> QED
      BY <3>1, <3>2
  <2>2. Seat(r, c, i) = n /\ Seat(r, c, i)' = n
    BY <1>8, <1>9, <1>12
  <2> QED
    BY <1>7, <2>1, <2>2 DEF Carried
<1> QED
  BY <1>10, <1>11, <1>12
\* Out: the staging area is not read before every cell is there, and a byte that is there
\* is not written again.
LEMMA GoCarries ==
  ASSUME Laid, Running, ~FastPathSafe, NEW cp, NEW k, Steps(cp, k),
         NEW s \in DOMAIN rows, NEW d \in DOMAIN cols, LenAt(s, d) > 0, Goes(cp, s, d),
         NEW r \in DOMAIN rows, NEW c \in DOMAIN cols, NEW i \in 0..(LenAt(r, c) - 1)
  PROVE  Carried(cp, k, r, c, i)
<1> DEFINE chunk == cp.from..(cp.from + k - 1)
           o == OldAt(r, c) + i
           n == NewAt(r, c) + i
<1>1. cp \in repacking.copies /\ k \in 1..cp.len
  BY DEF Steps
<1>2. /\ pcount \in Nat /\ NewPcount \in Nat /\ NewPcount <= pcount /\ i \in Nat /\ i < LenAt(r, c)
      /\ OldAt(r, c) \in Nat /\ NewAt(r, c) \in Nat /\ LenAt(r, c) \in Nat /\ LenAt(r, c) > 0
      /\ OldAt(r, c) + LenAt(r, c) <= pcount /\ NewAt(r, c) + LenAt(r, c) <= NewPcount
      /\ OldAt(s, d) \in Nat /\ NewAt(s, d) \in Nat /\ LenAt(s, d) \in Nat
      /\ OldAt(s, d) + LenAt(s, d) <= pcount /\ pcount + NewAt(s, d) \in Nat
  BY DEF Laid
<1>3. PICK e \in Nat :
        /\ cp.from \in Nat /\ cp.to \in Nat /\ cp.len \in Nat /\ k \in Nat
        /\ 1 <= k /\ k <= cp.len /\ e + cp.len = LenAt(s, d)
        /\ cp.turn = OldAt(s, d) /\ cp.from = OldAt(s, d) + e /\ cp.to = (pcount + NewAt(s, d)) + e
  <2>1. Left(cp, OldAt(s, d), OldAt(s, d), pcount + NewAt(s, d), LenAt(s, d))
    BY GoFacts
  <2>2. ChunkAt(cp, k, OldAt(s, d), OldAt(s, d), pcount + NewAt(s, d), LenAt(s, d))
    BY <1>1, <1>2, <2>1, ChunkNumbers
  <2> QED
    BY <2>2, Zenon DEF ChunkAt
<1>4. <<r, c>> # <<s, d>> =>
        /\ OldAt(r, c) + LenAt(r, c) <= OldAt(s, d) \/ OldAt(s, d) + LenAt(s, d) <= OldAt(r, c)
        /\ NewAt(r, c) + LenAt(r, c) <= NewAt(s, d) \/ NewAt(s, d) + LenAt(s, d) <= NewAt(r, c)
  BY <1>2 DEF Laid
<1>5. pcount + n = pcount + NewAt(r, c) + i
  BY <1>2
<1>6. Pending(pcount + n)
  <2>1. cp.turn < pcount
    BY <1>2, <1>3
  <2>2. Back \subseteq repacking.copies
    BY <1>1, <2>1 DEF Running
  <2>3. \E b \in Back : pcount + NewAt(r, c) + i \in Source(b)
    BY BegunReads
  <2> QED
    BY <1>5, <2>2, <2>3 DEF Pending
<1>7. o \in 0..(Top - 1) /\ pcount + n \in 0..(Top - 1) /\ pcount + n \notin chunk
  <2>1. Top = pcount + NewPcount
    BY DEF Top
  <2> QED
    BY <1>2, <1>3, <2>1
<1>8. Seat(r, c, i) = IF Pending(o) THEN o ELSE pcount + n
  BY <1>5, <1>6 DEF Seat
<1>9. Seat(r, c, i)' = IF Pending(o) /\ o \notin chunk THEN o ELSE pcount + n
  BY <1>6, <1>7, SeatAfter DEF Reseated
<1> DEFINE z == pcount + n
<1> HIDE DEF chunk, o, n
<1>10. CASE o \in chunk
  <2>1. <<r, c>> = <<s, d>>
    BY <1>2, <1>3, <1>4, <1>10 DEF chunk, o
  <2>2. r = s /\ c = d
    BY <2>1
  <2>3. o \in Source(cp)
    BY <1>3, <1>10 DEF chunk, Source
  <2>4. Pending(o)
    BY <1>1, <2>3 DEF Pending
  <2>5. z = o - cp.from + cp.to
    BY <1>2, <1>3, <2>2 DEF o, n
  <2>6. Seat(r, c, i) = o /\ Seat(r, c, i)' = z
    BY <1>8, <1>9, <1>10, <2>4
  <2> QED
    BY <1>7, <1>10, <2>5, <2>6 DEF Carried, chunk
<1>11. CASE o \notin chunk /\ Pending(o)
  <2>1. o \notin cp.to..(cp.to + k - 1)
    BY <1>2, <1>3 DEF o
  <2>2. Seat(r, c, i) = o /\ Seat(r, c, i)' = o
    BY <1>8, <1>9, <1>11
  <2> QED
    BY <1>7, <2>1, <2>2 DEF Carried
<1>12. CASE o \notin chunk /\ ~Pending(o)
  <2>1. z \notin cp.to..(cp.to + k - 1)
    <3>1. CASE <<r, c>> = <<s, d>>
      <4>1. r = s /\ c = d
        BY <3>1
      <4> QED
        BY <1>2, <1>3, <1>12, <4>1 DEF chunk, o, n
    <3>2. CASE <<r, c>> # <<s, d>>
      BY <1>2, <1>3, <1>4, <3>2 DEF n
    <3> QED
      BY <3>1, <3>2
  <2>2. Seat(r, c, i) = z /\ Seat(r, c, i)' = z
    BY <1>8, <1>9, <1>12
  <2> QED
    BY <1>7, <2>1, <2>2 DEF Carried
<1> QED
  BY <1>10, <1>11, <1>12

\* Back: no cell is read from its old place any more, and what is back is not written again.
LEMMA ComeCarries ==
  ASSUME Laid, Running, ~FastPathSafe, NEW cp, NEW k, Steps(cp, k),
         NEW s \in DOMAIN rows, NEW d \in DOMAIN cols, LenAt(s, d) > 0, Comes(cp, s, d),
         NEW r \in DOMAIN rows, NEW c \in DOMAIN cols, NEW i \in 0..(LenAt(r, c) - 1)
  PROVE  Carried(cp, k, r, c, i)
<1> DEFINE chunk == cp.from..(cp.from + k - 1)
           o == OldAt(r, c) + i
           n == NewAt(r, c) + i
<1>1. /\ cp \in repacking.copies /\ k \in 1..cp.len
      /\ \A b \in repacking.copies : cp.turn <= b.turn
  BY DEF Steps
<1>2. /\ pcount \in Nat /\ NewPcount \in Nat /\ NewPcount <= pcount /\ i \in Nat /\ i < LenAt(r, c)
      /\ OldAt(r, c) \in Nat /\ NewAt(r, c) \in Nat /\ LenAt(r, c) \in Nat /\ LenAt(r, c) > 0
      /\ OldAt(r, c) + LenAt(r, c) <= pcount /\ NewAt(r, c) + LenAt(r, c) <= NewPcount
      /\ OldAt(s, d) \in Nat /\ NewAt(s, d) \in Nat /\ LenAt(s, d) \in Nat
      /\ NewAt(s, d) + LenAt(s, d) <= NewPcount
      /\ pcount + OldAt(s, d) \in Nat /\ pcount + NewAt(s, d) \in Nat
  BY DEF Laid
<1>3. PICK e \in Nat :
        /\ cp.from \in Nat /\ cp.to \in Nat /\ cp.len \in Nat /\ k \in Nat
        /\ 1 <= k /\ k <= cp.len /\ e + cp.len = LenAt(s, d)
        /\ cp.turn = pcount + OldAt(s, d) /\ cp.from = (pcount + NewAt(s, d)) + e
        /\ cp.to = NewAt(s, d) + e
  <2>1. Left(cp, pcount + OldAt(s, d), pcount + NewAt(s, d), NewAt(s, d), LenAt(s, d))
    BY ComeFacts
  <2>2. ChunkAt(cp, k, pcount + OldAt(s, d), pcount + NewAt(s, d), NewAt(s, d), LenAt(s, d))
    BY <1>1, <1>2, <2>1, ChunkNumbers
  <2> QED
    BY <2>2, Zenon DEF ChunkAt
<1>4. <<r, c>> # <<s, d>> =>
        NewAt(r, c) + LenAt(r, c) <= NewAt(s, d) \/ NewAt(s, d) + LenAt(s, d) <= NewAt(r, c)
  BY <1>2 DEF Laid
<1>5. pcount + n = pcount + NewAt(r, c) + i
  BY <1>2
<1>6. ~Pending(o)
  <2> SUFFICES ASSUME NEW b \in repacking.copies, o \in Source(b) PROVE FALSE
    BY DEF Pending
  <2>1. Goes(b, r, c)
    BY Reader
  <2>2. b.turn = OldAt(r, c)
    BY <2>1, GoFacts DEF Left
  <2>3. cp.turn <= b.turn
    BY <1>1
  <2> QED
    BY <1>2, <1>3, <2>2, <2>3
<1>7. n \in 0..(Top - 1) /\ pcount + n \in 0..(Top - 1)
  <2>1. Top = pcount + NewPcount
    BY DEF Top
  <2> QED
    BY <1>2, <2>1
<1>8. Seat(r, c, i) = IF Pending(pcount + n) THEN pcount + n ELSE n
  BY <1>5, <1>6 DEF Seat
<1>9. Seat(r, c, i)' = IF Pending(pcount + n) /\ pcount + n \notin chunk THEN pcount + n ELSE n
  BY <1>6, SeatAfter DEF Reseated
<1> DEFINE z == pcount + n
<1> HIDE DEF chunk, o, n
<1>10. CASE z \in chunk
  <2>1. <<r, c>> = <<s, d>>
    BY <1>2, <1>3, <1>4, <1>10 DEF chunk, n
  <2>2. r = s /\ c = d
    BY <2>1
  <2>3. z \in Source(cp)
    BY <1>3, <1>10 DEF chunk, Source
  <2>4. Pending(z)
    BY <1>1, <2>3 DEF Pending
  <2>5. n = z - cp.from + cp.to
    BY <1>2, <1>3, <2>2 DEF n
  <2>6. Seat(r, c, i) = z /\ Seat(r, c, i)' = n
    BY <1>8, <1>9, <1>10, <2>4
  <2> QED
    BY <1>7, <1>10, <2>5, <2>6 DEF Carried, chunk
<1>11. CASE z \notin chunk /\ Pending(z)
  <2>1. z \notin cp.to..(cp.to + k - 1)
    BY <1>2, <1>3 DEF n
  <2>2. Seat(r, c, i) = z /\ Seat(r, c, i)' = z
    BY <1>8, <1>9, <1>11
  <2> QED
    BY <1>7, <2>1, <2>2 DEF Carried
<1>12. CASE z \notin chunk /\ ~Pending(z)
  <2>1. n \notin cp.to..(cp.to + k - 1)
    <3>1. CASE <<r, c>> = <<s, d>>
      <4>1. r = s /\ c = d
        BY <3>1
      <4> QED
        BY <1>2, <1>3, <1>12, <4>1 DEF chunk, n
    <3>2. CASE <<r, c>> # <<s, d>>
      BY <1>2, <1>3, <1>4, <3>2 DEF n
    <3> QED
      BY <3>1, <3>2
  <2>2. Seat(r, c, i) = n /\ Seat(r, c, i)' = n
    BY <1>8, <1>9, <1>12
  <2> QED
    BY <1>7, <2>1, <2>2 DEF Carried
<1> QED
  BY <1>10, <1>11, <1>12

\* A chunk keeps every byte.
LEMMA ChunkSeated ==
  ASSUME Laid, Running, NoUpwardOverlap, Seated, NEW cp, NEW k, Steps(cp, k)
  PROVE  Seated'
<1>0. /\ cp \in repacking.copies /\ k \in 1..cp.len /\ heap' = Copied(cp, k)
      /\ cols' = cols /\ rows' = rows /\ pcount' = pcount
  BY DEF Steps
<1>1. Planned(cp) /\ DOMAIN heap = 0..(Top - 1)
  BY <1>0 DEF Running
<1>2. /\ cp.from \in Nat /\ cp.to \in Nat /\ k \in Nat /\ 1 <= k
  BY <1>0, <1>1, PlannedFacts DEF CopyOK
<1>3. ASSUME NEW r \in DOMAIN rows, NEW c \in DOMAIN cols, NEW i \in 0..(LenAt(r, c) - 1)
      PROVE  Carried(cp, k, r, c, i)
  <2>1. PICK s \in DOMAIN rows, d \in DOMAIN cols :
          /\ LenAt(s, d) > 0
          /\ IF FastPathSafe THEN Slides(cp, s, d) ELSE Goes(cp, s, d) \/ Comes(cp, s, d)
    BY <1>1 DEF Planned
  <2>2. CASE FastPathSafe
    BY <2>2, SlideCarries
  <2>3. CASE ~FastPathSafe /\ Goes(cp, s, d)
    BY <2>1, <2>3, GoCarries
  <2>4. CASE ~FastPathSafe /\ Comes(cp, s, d)
    BY <2>1, <2>4, ComeCarries
  <2> QED
    BY <2>1, <2>2, <2>3, <2>4
<1>4. ASSUME NEW r \in DOMAIN rows, NEW c \in DOMAIN cols, NEW i \in 0..(LenAt(r, c) - 1)
      PROVE  heap'[Seat(r, c, i)'] = Byte(<<r, cols[c]>>, i)
  <2> DEFINE p == Seat(r, c, i)
             q == Seat(r, c, i)'
  <2>1. heap[p] = Byte(<<r, cols[c]>>, i)
    BY DEF Seated
  <2>2. /\ q \in 0..(Top - 1)
        /\ \/ p \in cp.from..(cp.from + k - 1) /\ q = p - cp.from + cp.to
           \/ q = p /\ p \notin cp.to..(cp.to + k - 1)
    BY <1>3 DEF Carried
  <2> HIDE DEF p, q
  <2>3. heap'[q] = IF q \in cp.to..(cp.to + k - 1) THEN heap[q - cp.to + cp.from] ELSE heap[q]
    BY <1>0, <1>1, <2>2 DEF Copied
  <2>4. ASSUME p \in cp.from..(cp.from + k - 1), q = p - cp.from + cp.to
        PROVE  heap'[q] = Byte(<<r, cols[c]>>, i)
    <3>1. q \in cp.to..(cp.to + k - 1) /\ q - cp.to + cp.from = p
      BY <1>2, <2>4
    <3> QED
      BY <2>1, <2>3, <3>1
  <2>5. ASSUME q = p, p \notin cp.to..(cp.to + k - 1)
        PROVE  heap'[q] = Byte(<<r, cols[c]>>, i)
    BY <2>1, <2>3, <2>5
  <2>6. heap'[q] = Byte(<<r, cols[c]>>, i)
    BY <2>2, <2>4, <2>5
  <2> QED
    BY <2>6 DEF q
<1>5. \A r, c : LenAt(r, c)' = LenAt(r, c)
  BY <1>0, PlanStays
<1> QED
  BY <1>0, <1>4, <1>5 DEF Seated

\* Every cell reads back what was written last, or will when the repack is over.
KeptInv ==
    /\ RepackInv
    /\ repacking = Idle => Intact
    /\ repacking # Idle => Seated

\* No step breaks that, unless a copy runs over itself.
LEMMA KeptStep ==
  ASSUME KeptInv, NoUpwardOverlap, [Next]_vars
  PROVE  KeptInv'
<1>0. Shape /\ HeapWellFormed /\ RepackInv /\ RepackInv'
  BY RepackStep DEF KeptInv, RepackInv
<1>1. CASE Write
  <2>1. repacking = Idle
    BY <1>1, WritesWait
  <2>2. HeapTyped /\ Intact
    BY <1>0, <2>1 DEF RepackInv, KeptInv
  <2> QED
    BY <1>0, <1>1, <2>2, AnyWrite DEF KeptInv
<1>2. CASE StartRepack
  <2>1. repacking = Idle
    BY <1>2 DEF StartRepack, Ready
  <2>2. HeapTyped /\ Intact
    BY <1>0, <2>1 DEF RepackInv, KeptInv
  <2> QED
    BY <1>0, <1>2, <2>2, Started DEF KeptInv
<1>3. CASE StreamChunk
  <2>1. Laid
    BY <1>0, LaidOut
  <2>2. repacking # Idle
    <3>1. Idle.copies = {}
      BY DEF Idle
    <3> QED
      BY <1>3, <3>1 DEF StreamChunk
  <2>3. Running /\ Seated
    BY <1>0, <2>2 DEF RepackInv, KeptInv
  <2>4. PICK cp, k : Steps(cp, k)
    BY <1>3, <2>1, <2>3, ChunkSteps
  <2>5. Seated'
    BY <2>1, <2>3, <2>4, ChunkSeated
  <2>6. repacking' # Idle
    BY <2>1, <2>4, StillRepacking
  <2> QED
    BY <1>0, <2>5, <2>6 DEF KeptInv
<1>4. CASE FailRepack
  <2>1. cols' = cols /\ rows' = rows /\ pcount' = pcount /\ heap' = heap /\ repacking' = repacking
    BY <1>4 DEF FailRepack
  <2> QED
    BY <1>0, <2>1, NothingMoves DEF KeptInv
<1>5. CASE FinishRepack
  <2>1. Running /\ Seated
    BY <1>0, <1>5 DEF RepackInv, KeptInv, FinishRepack
  <2> QED
    BY <1>0, <1>5, <2>1, Finished DEF KeptInv
<1>6. CASE UNCHANGED vars
  <2>1. cols' = cols /\ rows' = rows /\ pcount' = pcount /\ heap' = heap /\ repacking' = repacking
    BY <1>6 DEF vars
  <2> QED
    BY <1>0, <2>1, NothingMoves DEF KeptInv
<1> QED
  BY <1>1, <1>2, <1>3, <1>4, <1>5, <1>6 DEF Next

\* Every cell of every row reads back what was last written to it, after any writes,
\* column edits and repacks, on the fast and on the staged path, for cells of any length,
\* as long as no chunked copy moves a cell up over itself.
THEOREM CellsReadBack == Spec /\ []NoUpwardOverlap => []CellsIntact
<1>1. Init => KeptInv
  BY InitFacts DEF KeptInv
<1>2. KeptInv /\ NoUpwardOverlap /\ [Next]_vars => KeptInv'
  BY KeptStep
<1>3. KeptInv => CellsIntact
  BY DEF KeptInv, CellsIntact, Intact, Ready
<1> QED
  BY <1>1, <1>2, <1>3, PTL DEF Spec

\* Where one chunk holds any cell (cells of up to a mebibyte), that needs no proviso.
THEOREM ShortCellsReadBack ==
  ASSUME MaxLen <= CHUNK
  PROVE  Spec => []CellsIntact
<1>1. ASSUME RepackInv PROVE NoUpwardOverlap
  <2>1. ASSUME NEW cp \in repacking.copies PROVE ~(cp.len > CHUNK)
    <3>1. repacking # Idle
      BY <2>1 DEF Idle
    <3>2. Running /\ Shape /\ Laid
      BY <1>1, <3>1, LaidOut DEF RepackInv
    <3>3. PICK r \in DOMAIN rows, c \in DOMAIN cols :
            IF FastPathSafe THEN Slides(cp, r, c) ELSE Goes(cp, r, c) \/ Comes(cp, r, c)
      BY <2>1, <3>2 DEF Running, Planned
    <3>4. PICK d \in 0..(LenAt(r, c) - 1) : cp.len = LenAt(r, c) - d
      BY <3>2, <3>3, SlideFacts, GoFacts, ComeFacts DEF Left
    <3>5. LenAt(r, c) \in Nat /\ LenAt(r, c) <= MaxLen
      BY <3>2, TableFacts DEF LenAt
    <3> QED
      BY <3>4, <3>5, ChunkAssumption, HeapBoundAssumption
  <2> QED
    BY <2>1 DEF NoUpwardOverlap
<1>2. Spec => []NoUpwardOverlap
  BY <1>1, RepackInvariance, PTL
<1> QED
  BY <1>2, CellsReadBack, PTL
=============================================================================
