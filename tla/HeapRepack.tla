---------------------------- MODULE HeapRepack ----------------------------
(***************************************************************************)
(* The heap of one binary table with variable-length array (VLA) columns,  *)
(* byte by byte (src/hdu_table/write_vla.rs, setitem.rs, edit.rs).         *)
(* Every write of a cell appends to the heap and leaves the old bytes as   *)
(* orphans; repack_table_heap slides the live cells together again, with   *)
(* chunked copies inside the file.  src/hdu_image_compressed/repack.rs and *)
(* src/hdu_table_compressed/repack.rs hold the same algorithm for tiles.   *)
(* Rows that are not heap (fixed columns, headers, later HDUs) are in      *)
(* FitsFile.                                                               *)
(***************************************************************************)
EXTENDS Integers, Sequences, FiniteSets, SequencesExt, PrefixSums

CONSTANTS
    CHUNK,      \* bytes copied at a time (1 MiB)
    MaxLen,     \* bound on the bytes of a cell
    MaxRows,    \* bound on the rows
    MaxCols,    \* bound on the VLA columns
    MaxHeap     \* no write starts that would make the heap longer than this

ASSUME ChunkAssumption == CHUNK \in Nat \ {0}
ASSUME HeapBoundAssumption ==
    MaxLen \in Nat /\ MaxRows \in Nat /\ MaxCols \in Nat /\ MaxHeap \in Nat

VARIABLES
    cols,       \* the VLA columns, in the order of their descriptors in a row
    rows,       \* the descriptors: rows[r][c] is that of the c-th VLA column in row r
    pcount,     \* PCOUNT, the length of the heap
    heap,       \* the bytes of the heap and of a staging area behind it
    repacking,  \* the copies, descriptors and PCOUNT a running repack still has to write
    tainted     \* the TaintFlag

vars == <<cols, rows, pcount, heap, repacking, tainted>>

-----------------------------------------------------------------------------

\* A descriptor.
Cell(off, len) == [off |-> off, len |-> len]
Span(cell) == cell.off..(cell.off + cell.len - 1)

\* Byte i of the value last written to cell who, a pair of row and column; what no
\* cell's present value consists of is junk.
Byte(who, i) == [who |-> who, i |-> i]
Junk == Byte(<<0, 0>>, 0)

\* Lengths come row by row, as do the cells: lens[i][j] is the length of the j-th cell
\* of the i-th row.  The bytes in front of cell (i, j), and all of them.
RowSizes(lens) == [i \in DOMAIN lens |-> SumTo(lens[i], Len(lens[i]))]
Before(lens, i, j) == SumTo(RowSizes(lens), i - 1) + SumTo(lens[i], j - 1)
Size(lens) == SumTo(RowSizes(lens), Len(lens))

\* plan_vla_heap_layout: cells of these lengths, row by row, one after the other from
\* start on; an empty cell is given the offset at which the next one goes.
PlanHeap(lens, start) ==
    [i \in DOMAIN lens |->
       [j \in DOMAIN lens[i] |-> Cell(start + Before(lens, i, j), lens[i][j])]]

\* The heap with a new value in the cells of the rows rs and the columns cs, planned[i][j]
\* being that of row rs[i] and column cs[j]; the values they had are orphaned, as is all
\* but the last of a row that is named twice.
HeapWith(rs, cs, planned, length) ==
    [p \in 0..(length - 1) |->
       IF \E i \in DOMAIN rs, j \in DOMAIN cs : p \in Span(planned[i][j])
       THEN LET at == CHOOSE at \in (DOMAIN rs) \X (DOMAIN cs) : p \in Span(planned[at[1]][at[2]])
                i == at[1]
                j == at[2]
            IN  IF \E k \in DOMAIN rs : k > i /\ rs[k] = rs[i] THEN Junk
                ELSE Byte(<<rs[i], cs[j]>>, p - planned[i][j].off)
       ELSE IF heap[p].who[1] \in ToSet(rs) /\ heap[p].who[2] \in ToSet(cs) THEN Junk
            ELSE heap[p]]

Idle == [copies |-> {}, rows |-> <<>>, pcount |-> -1]
Ready == repacking = Idle /\ ~tainted

Lens(n, m) == [1..n -> [1..m -> 0..MaxLen]]

\* New values of these lengths for the rows rs and the columns cs are put into the heap
\* from start on, and nothing follows them.
WriteHeap(rs, cs, lens, start) ==
    LET end == start + Size(lens) IN
    /\ Ready /\ end <= MaxHeap
    /\ heap' = HeapWith(rs, cs, PlanHeap(lens, start), end)
    /\ pcount' = end
    /\ UNCHANGED <<repacking, tainted>>

AllRows == [r \in DOMAIN rows |-> r]

-----------------------------------------------------------------------------
(* Writes.                                                                 *)

\* write_vla_aware: every cell, row by row, from the start of the heap.
WriteAll(lens) ==
    /\ cols # <<>>
    /\ WriteHeap(AllRows, cols, lens, 0)
    /\ rows' = PlanHeap(lens, 0)
    /\ UNCHANGED cols

\* append_vla_aware, one row.
AppendRow(lens) ==
    /\ cols # <<>> /\ Len(rows) < MaxRows
    /\ WriteHeap(<<Len(rows) + 1>>, cols, lens, pcount)
    /\ rows' = Append(rows, PlanHeap(lens, pcount)[1])
    /\ UNCHANGED cols

\* hdu[column][row] = cell: setitem_cell_vla.
SetCell(r, c, lens) ==
    /\ WriteHeap(<<r>>, <<cols[c]>>, lens, pcount)
    /\ rows' = [rows EXCEPT ![r][c] = PlanHeap(lens, pcount)[1][1]]
    /\ UNCHANGED cols

\* hdu[column] = array: setitem_single_column_vla.
SetColumn(c, lens) ==
    /\ WriteHeap(AllRows, <<cols[c]>>, lens, pcount)
    /\ rows' = [r \in DOMAIN rows |-> [rows[r] EXCEPT ![c] = PlanHeap(lens, pcount)[r][1]]]
    /\ UNCHANGED cols

\* hdu[[r, s]] = records: setitem_rows_vla_aware_inner.  The same row may be named
\* twice; the second record wins.
SetTwoRows(r, s, lens) ==
    /\ cols # <<>>
    /\ WriteHeap(<<r, s>>, cols, lens, pcount)
    /\ rows' = [rows EXCEPT ![r] = PlanHeap(lens, pcount)[1], ![s] = PlanHeap(lens, pcount)[2]]
    /\ UNCHANGED cols

\* insert_vla_column_impl: the new column's cells go to the end of the heap, its
\* descriptors before those of column c.
InsertColumn(c, name, lens) ==
    /\ name \notin ToSet(cols) /\ c <= Len(cols) + 1
    /\ WriteHeap(AllRows, <<name>>, lens, pcount)
    /\ rows' = [r \in DOMAIN rows |-> InsertAt(rows[r], c, PlanHeap(lens, pcount)[r][1])]
    /\ cols' = InsertAt(cols, c, name)

\* Mutant: the main rows are not shuffled.
DeleteColumnNoShuffle(c) ==
    /\ Ready
    /\ cols' = RemoveAt(cols, c)
    /\ heap' = [p \in DOMAIN heap |-> IF heap[p].who[2] = cols[c] THEN Junk ELSE heap[p]]
    /\ UNCHANGED <<rows, pcount, repacking, tainted>>

\* delete_column_impl: the column's bytes stay in the heap.
DeleteColumn(c) ==
    /\ Ready
    /\ rows' = [r \in DOMAIN rows |-> RemoveAt(rows[r], c)]
    /\ cols' = RemoveAt(cols, c)
    /\ heap' = [p \in DOMAIN heap |-> IF heap[p].who[2] = cols[c] THEN Junk ELSE heap[p]]
    /\ UNCHANGED <<pcount, repacking, tainted>>

-----------------------------------------------------------------------------
(* repack_table_heap.                                                      *)

\* Where the cells go: row by row, each behind the live bytes before it.
LiveLens == [r \in DOMAIN rows |-> [c \in DOMAIN rows[r] |-> rows[r][c].len]]
NewRows == PlanHeap(LiveLens, 0)
NewPcount == Size(LiveLens)

\* The moves of the live cells.
Live == {at \in (DOMAIN rows) \X (DOMAIN cols) : rows[at[1]][at[2]].len > 0}
Move(r, c) == [old |-> rows[r][c].off, new |-> NewRows[r][c].off, len |-> rows[r][c].len]
Moves == {Move(at[1], at[2]) : at \in Live}

\* Mutant: only the starts are compared.
FastPathSafeByStart ==
    \A m \in Moves : /\ m.new <= pcount
                     /\ \A n \in Moves : m.old < n.old => m.new <= n.old

\* In the order of the old offsets, every move ends before the next one reads, and the
\* last one before the end of the heap.
FastPathSafe ==
    \A m \in Moves : /\ m.new + m.len <= pcount
                     /\ \A n \in Moves : m.old < n.old => m.new + m.len <= n.old

\* The copies are made in the order of their turns.
Copy(turn, from, to, len) == [turn |-> turn, from |-> from, to |-> to, len |-> len]

InPlace == {Copy(m.old, m.old, m.new, m.len) : m \in {m \in Moves : m.new # m.old}}

\* Out to the staging area behind the heap, and when all are there, back.
Out == {Copy(m.old, m.old, pcount + m.new, m.len) : m \in Moves}
Back == {Copy(pcount + m.old, pcount + m.new, m.new, m.len) : m \in Moves}
Staged == Out \cup Back

\* A descriptor that leaves the heap is refused before anything moves.
Refused == \E r \in DOMAIN rows, c \in DOMAIN cols : rows[r][c].off + rows[r][c].len > pcount

\* The early returns: no VLA column, no heap, no rows, nothing to gain.
NothingToDo == cols = <<>> \/ pcount = 0 \/ rows = <<>> \/ NewPcount = pcount

StartRepack ==
    /\ Ready /\ ~NothingToDo /\ ~Refused
    /\ repacking' = [copies |-> IF FastPathSafe THEN InPlace ELSE Staged,
                     rows |-> NewRows, pcount |-> NewPcount]
    /\ heap' = IF FastPathSafe THEN heap
               ELSE [p \in 0..(pcount + NewPcount - 1) |-> IF p < pcount THEN heap[p] ELSE Junk]
    /\ UNCHANGED <<cols, rows, pcount, tainted>>

Current == CHOOSE cp \in repacking.copies : \A k \in repacking.copies : cp.turn <= k.turn
ChunkOf(cp) == IF cp.len < CHUNK THEN cp.len ELSE CHUNK

\* The first n bytes of a copy, and what is left of it.
Copied(cp, n) ==
    [p \in DOMAIN heap |->
       IF p \in cp.to..(cp.to + n - 1) THEN heap[p - cp.to + cp.from] ELSE heap[p]]
Rest(cp, n) == IF n = cp.len THEN {} ELSE {Copy(cp.turn, cp.from + n, cp.to + n, cp.len - n)}

\* Mutant: the offsets do not advance.
StreamChunkAgain ==
    LET cp == Current IN
    /\ ~tainted /\ repacking.copies # {}
    /\ heap' = Copied(cp, ChunkOf(cp))
    /\ UNCHANGED <<cols, rows, pcount, repacking, tainted>>

\* stream_copy_in_file: one chunk is read, then written, front first.
StreamChunk ==
    LET cp == Current IN
    /\ ~tainted /\ repacking.copies # {}
    /\ heap' = Copied(cp, ChunkOf(cp))
    /\ repacking' = [repacking EXCEPT !.copies = (@ \ {cp}) \cup Rest(cp, ChunkOf(cp))]
    /\ UNCHANGED <<cols, rows, pcount, tainted>>

\* A chunk, or a write after the copies, fails: the handle is tainted and refuses
\* every later operation.
FailRepack ==
    /\ ~tainted /\ repacking # Idle
    /\ tainted' = TRUE
    /\ UNCHANGED <<cols, rows, pcount, heap, repacking>>

\* Mutant: PCOUNT is written, the descriptors are not.
FinishRepackHeaderOnly ==
    /\ ~tainted /\ repacking # Idle /\ repacking.copies = {}
    /\ rows' = rows
    /\ pcount' = repacking.pcount
    /\ heap' = [p \in 0..(repacking.pcount - 1) |-> heap[p]]
    /\ repacking' = Idle
    /\ UNCHANGED <<cols, tainted>>

\* Mutant: the descriptors are written, PCOUNT is not.
FinishRepackKeepsPcount ==
    /\ ~tainted /\ repacking # Idle /\ repacking.copies = {}
    /\ rows' = repacking.rows
    /\ heap' = [p \in 0..(pcount - 1) |-> heap[p]]
    /\ repacking' = Idle
    /\ UNCHANGED <<cols, pcount, tainted>>

\* The descriptors, the end of the section, and PCOUNT.
FinishRepack ==
    /\ ~tainted /\ repacking # Idle /\ repacking.copies = {}
    /\ rows' = repacking.rows
    /\ pcount' = repacking.pcount
    /\ heap' = [p \in 0..(repacking.pcount - 1) |-> heap[p]]
    /\ repacking' = Idle
    /\ UNCHANGED <<cols, tainted>>

-----------------------------------------------------------------------------

\* create_table_hdu: zeroed rows, no heap.
Init ==
    /\ cols \in {[c \in 1..n |-> c] : n \in 1..MaxCols}
    /\ rows \in {[r \in 1..n |-> [c \in DOMAIN cols |-> Cell(0, 0)]] : n \in 0..MaxRows}
    /\ pcount = 0 /\ heap = [p \in 0..(pcount - 1) |-> Junk]
    /\ repacking = Idle /\ tainted = FALSE

Write ==
    \/ \E lens \in Lens(Len(rows), Len(cols)) : WriteAll(lens)
    \/ \E lens \in Lens(1, Len(cols)) : AppendRow(lens)
    \/ \E r \in DOMAIN rows, c \in DOMAIN cols, lens \in Lens(1, 1) : SetCell(r, c, lens)
    \/ \E r, s \in DOMAIN rows, lens \in Lens(2, Len(cols)) : SetTwoRows(r, s, lens)
    \/ \E c \in DOMAIN cols : DeleteColumn(c)
    \/ \E c \in DOMAIN cols, lens \in Lens(Len(rows), 1) : SetColumn(c, lens)
    \/ \E c, name \in 1..MaxCols, lens \in Lens(Len(rows), 1) : InsertColumn(c, name, lens)

Next == Write \/ StartRepack \/ StreamChunk \/ FailRepack \/ FinishRepack

\* repack is one synchronous call: it keeps running until it returns or fails.
Spec == Init /\ [][Next]_vars /\ WF_vars(StreamChunk \/ FinishRepack)

-----------------------------------------------------------------------------
(* Properties.                                                             *)

CellRec == [off : Nat, len : 0..MaxLen]
ByteRec == [who : (0..MaxRows) \X (0..MaxCols), i : 0..MaxLen]

TypeOK ==
    /\ \A c \in DOMAIN cols : cols[c] \in 1..MaxCols
    /\ \A r \in DOMAIN rows : rows[r] \in [DOMAIN cols -> CellRec]
    /\ pcount \in 0..MaxHeap
    /\ 0..(pcount - 1) \subseteq DOMAIN heap
    /\ \A p \in DOMAIN heap : heap[p] \in ByteRec
    /\ tainted \in BOOLEAN

\* Reading any cell gives what was last written to it, after any sequence of writes,
\* overwrites, column edits and repacks, on the fast and on the staged path.
CellsIntact ==
    Ready => \A r \in DOMAIN rows, c \in DOMAIN cols :
               \A p \in Span(rows[r][c]) : heap[p] = Byte(<<r, cols[c]>>, p - rows[r][c].off)

\* Two live cells never share a byte, and every descriptor, an empty one included,
\* stays inside the heap: repack_table_heap never refuses a table that this code
\* wrote, and its sort by old offset never meets a tie.
HeapWellFormed ==
    /\ ~Refused
    /\ \A r, s \in DOMAIN rows, c, d \in DOMAIN cols :
         <<r, c>> # <<s, d>> => Span(rows[r][c]) \cap Span(rows[s][d]) = {}

\* A repack that ends without error leaves no orphan: every byte of the heap belongs
\* to some cell.
RepackCompacts ==
    [][repacking # Idle /\ repacking' = Idle =>
         \A p \in DOMAIN heap' :
           \E r \in DOMAIN rows', c \in DOMAIN cols' : p \in Span(rows'[r][c])]_vars

\* A repack ends.
RepackEnds == repacking # Idle ~> repacking = Idle \/ tainted

\* No copy moves a cell that is longer than a chunk up over itself.  The code does not
\* see to that; CellsIntact needs it.
NoUpwardOverlap ==
    \A cp \in repacking.copies :
      cp.len > CHUNK => cp.to \notin (cp.from + 1)..(cp.from + cp.len - 1)

-----------------------------------------------------------------------------
(* What a comment says and the code does not do.                           *)

\* "Reading in old-offset order means every subsequent read is past any prior write,
\* so no clobbering" (repack_table_heap, also for a cell longer than one chunk).
NoClobbering == CellsIntact
=============================================================================
