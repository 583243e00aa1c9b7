---------------------------- MODULE TiledTable ----------------------------
(***************************************************************************)
(* One compressed table HDU (src/hdu_table_compressed/): a table with one  *)
(* row of descriptors per tile, and the heap behind it.  A fixed column    *)
(* has one encoded slab per tile.  A variable-length column has the cells, *)
(* each encoded by itself, and per tile a blob with two descriptors per    *)
(* row: where the cell lies in the heap, and where it would lie in the     *)
(* heap of the uncompressed table (ZPCOUNT units long).                    *)
(* A step is one tile of one column: every one of them writes to the file, *)
(* and until the last step the header still describes the old content.     *)
(* The threads are in TiledImage; where the section lies is in FitsFile.   *)
(***************************************************************************)
EXTENDS TileCache, BlobMoves

CONSTANTS
    TileRows,    \* ZTILELEN
    RowVals,     \* the rows that are written: [f |-> fixed cell, v |-> sequence]
    BadFixed,    \* fixed cells that cannot be converted: ValueError
    BadCells,    \* variable-length cells that cannot
    RowKeys,     \* the lists of rows that setitem is given
    CHUNK,       \* units that a repack copies at a time
    PendingCap,  \* rows the appending() buffer holds before it drains
    Capacities,  \* the cache capacities that are set, in rows
    MaxRows,     \* bound on the rows of the table and its buffer
    MaxPcount,   \* no change starts on a heap longer than this
    MaxZpcount   \* nor on an original heap longer than this

ASSUME TableAssumption ==
    TileRows \in Nat \ {0} /\ {MaxRows, MaxPcount, MaxZpcount} \subseteq Nat /\ TileRows < MaxRows
ASSUME ChunkAssumption == CHUNK \in Nat \ {0}
ASSUME BufferAssumption == PendingCap \in Nat /\ Capacities \subseteq Nat
\* Zero is left for what was never written.
ASSUME RowsAssumption ==
    /\ RowVals \subseteq [f : Nat \ {0}, v : Seq(Nat \ {0})]
    /\ RowKeys \subseteq Seq(Nat \ {0})

VARIABLES
    cols,     \* the schema: {"f"} or {"f", "v"}
    cards,    \* ZNAXIS2, NAXIS2, PCOUNT and ZPCOUNT
    sect,     \* the data section: the descriptor table, then the heap
    cache,    \* the ColumnTileCache
    pending,  \* the PendingBuffer of the appending() context
    tainted,  \* the TaintFlag
    call,     \* the call in progress
    table,    \* history: the rows that the calls that returned have written
    harmed,   \* history: a call raised, without taint, after it had moved or overwritten
              \* data: "no", "io" for an I/O error, "value" for a ValueError; or "repack",
              \* one wrote a chunk over units it still had to read
    stale,    \* history: write() replaced the data under the tiles in the cache
    lost      \* history: an error dropped rows that the buffer had accepted

vars == <<cols, cards, sect, cache, pending, tainted, call, table, harmed, stale, lost>>
ghosts == <<table, harmed, stale, lost>>

-----------------------------------------------------------------------------
(* The section.                                                            *)

Tiles(n) == (n + TileRows - 1) \div TileRows

\* rows_in_tile: the rows of tile i in a table of n rows.
TileLen(i, n) == IF i = Tiles(n) THEN n - (i - 1) * TileRows ELSE TileRows
RowOf(i, j) == (i - 1) * TileRows + j
TileOfRow(r) == ((r - 1) \div TileRows) + 1
PlaceOfRow(r) == ((r - 1) % TileRows) + 1

Desc(n, off) == [n |-> n, off |-> off]
NoDescs == [t |-> "desc", f |-> Desc(0, 0), v |-> Desc(0, 0)]

\* In the history: a cell that was never written.
NoCell == <<0>>

\* n units that encode of.
Units(t, of, n) == [i \in 1..n |-> [t |-> t, of |-> of, i |-> i, n |-> n]]

\* encode_be_slab_to_heap_and_record: the length of a slab depends on its cells.
Slab(rows) == Units("slab", rows, rows[1])

\* A cell that does not get shorter is stored as it is.
Cell(c) ==
    LET z == Cardinality(ToSet(c))
    IN  IF z < Len(c) THEN Units("cell", c, z) ELSE Units("raw", c, Len(c))

\* gzip of the descriptors of a tile; its length depends on the offsets.
Blob(descs) ==
    Units("blob", descs, 1 + (SumTo([j \in DOMAIN descs |-> descs[j].cs], Len(descs)) % 2))

WriteAt(s, p, u) ==
    [q \in 1..(IF Len(s) < p + Len(u) - 1 THEN p + Len(u) - 1 ELSE Len(s)) |->
       IF q \in p..(p + Len(u) - 1) THEN u[q - p + 1]
       ELSE IF q <= Len(s) THEN s[q] ELSE [t |-> "junk"]]

\* What lies behind the heap stays in the file, and is not kept in the model: no descriptor
\* leads there.
InUse(s, cds) == SubSeq(s, 1, IF Len(s) < cds.tiles + cds.pcount THEN Len(s) ELSE cds.tiles + cds.pcount)

Wrong == [ok |-> FALSE, of |-> <<>>]

\* What a read of n units at off finds, with the heap at theap.
Found(kind, n, off, theap) ==
    LET at == theap + off
        u  == SubSeq(sect, at + 1, at + n)
    IN  IF n > 0 /\ at + n <= Len(sect) /\ u[1].t = kind /\ u = Units(kind, u[1].of, n)
        THEN [ok |-> TRUE, of |-> u[1].of] ELSE Wrong

\* decode_existing_tile_to_be_bytes: the slab of tile i, in a table of n rows.
SlabAt(i, n, theap) ==
    LET got == Found("slab", sect[i].f.n, sect[i].f.off, theap)
    IN  IF got.ok /\ Len(got.of) = TileLen(i, n) THEN got ELSE Wrong

\* read_vla_merge_old_blob: the descriptors of tile i.
BlobAt(i, n, theap) ==
    LET got == Found("blob", sect[i].v.n, sect[i].v.off, theap)
    IN  IF got.ok /\ Len(got.of) = TileLen(i, n) THEN got ELSE Wrong

\* read_vla_column_tile: the cell that descriptor d is about; as long as the original, it
\* is taken as it is.
CellAt(d, theap) ==
    IF d.n = 0 THEN [ok |-> TRUE, of |-> <<>>]
    ELSE Found(IF d.cn = d.n THEN "raw" ELSE "cell", d.cn, d.cs, theap)

TileAt(col, i, n, theap) == IF col = "f" THEN SlabAt(i, n, theap) ELSE BlobAt(i, n, theap)

-----------------------------------------------------------------------------
(* Reading.                                                                *)

\* RowPlan::from_indices: what to take from which tile for the rows asked for.
RowPlan(rows) ==
    {[tile |-> TileOfRow(rows[k]), row |-> PlaceOfRow(rows[k]), out |-> k] :
       k \in DOMAIN rows}

\* read_compressed_table, tile by tile, with the tiles the cache does not have.
ReadRows(rows) ==
    [k \in DOMAIN rows |->
       LET p == CHOOSE p \in RowPlan(rows) : p.out = k
           f == SlabAt(p.tile, cards.rows, cards.tiles)
           b == BlobAt(p.tile, cards.rows, cards.tiles)
           c == IF b.ok THEN CellAt(b.of[p.row], cards.tiles) ELSE Wrong
       IN  [ok |-> f.ok /\ ("v" \in cols => c.ok),
            f |-> IF f.ok THEN f.of[p.row] ELSE 0,
            v |-> IF c.ok THEN c.of ELSE <<>>]]

\* One tile of one column: a hit, or the tile of the file is put into the cache, also the
\* empty blob of a tile that has none.
ReadTile(i, col) ==
    LET got == TileAt(col, i, cards.rows, cards.tiles)
        key == <<i, col>>
    IN
    /\ call.op = "none"
    /\ cache' = IF key \in CachedKeys(cache) THEN Touched(cache, key)
                ELSE IF got.ok THEN CachePut(cache, key, got.of, Len(got.of))
                ELSE IF col = "v" /\ sect[i].v.n = 0 THEN CachePut(cache, key, <<>>, 0)
                ELSE cache
    /\ UNCHANGED <<cols, cards, sect, pending, tainted, call, ghosts>>

-----------------------------------------------------------------------------
(* Calls that write.                                                       *)

Idle == [op |-> "none"]

\* What is left to encode, and what comes next: tile by tile, the fixed column first.
Todo(tiles, cs) == {[tile |-> i, col |-> col] : i \in tiles, col \in cs}
First(todo) ==
    CHOOSE x \in todo : \A y \in todo : x.tile < y.tile \/ (x.tile = y.tile /\ (x.col = "f" \/ x = y))

Call(op, todo, data, at, cs, main, theap) ==
    [op |-> op, cs |-> cs, cards |-> cards, todo |-> todo, data |-> data, at |-> at, main |-> main,
     theap |-> theap, cur |-> IF op = "write" THEN 0 ELSE cards.pcount,
     zp |-> IF op = "write" THEN 0 ELSE cards.zpcount,
     old |-> [f |-> <<>>, v |-> <<>>], buffered |-> FALSE]

ConvertibleCells(data) == "v" \in cols => \A k \in DOMAIN data : data[k].v \notin BadCells

\* plan_vla_heap_layout: the offsets, from start on, of cells of these lengths in the
\* original heap, and its length.
Plan(lens, start) == [k \in 1..(Len(lens) + 1) |-> start + SumTo(lens, k - 1)]
Lengths(data) == [k \in DOMAIN data |-> Len(data[k].v)]

Bounded == cards.pcount <= MaxPcount /\ cards.zpcount <= MaxZpcount

\* write_compressed_table_data: the cells are planned, nothing is written yet.
BeginWrite(data) ==
    /\ call = Idle /\ ~pending.on /\ ~tainted
    /\ Len(data) = cards.rows /\ cards.rows > 0 /\ ConvertibleCells(data)
    /\ call' = Call("write", Todo(1..cards.tiles, cols), data, <<>>, cols,
                    [i \in 1..cards.tiles |-> NoDescs], cards.tiles)
    /\ UNCHANGED <<cols, cards, sect, cache, pending, tainted, ghosts>>

\* The rows of the last tile stay in it when it has room.
MergeRows(n) ==
    LET room == IF cards.tiles = 0 THEN 0 ELSE TileRows - TileLen(cards.tiles, cards.rows)
    IN  IF n < room THEN n ELSE room

Relocates(n) == Tiles(cards.rows + n) > cards.tiles /\ cards.pcount > 0

\* append_compressed_table_data up to its encode loops: the last tile is decoded when rows
\* go into it, the section grows, the old heap moves behind the longer table, and the
\* table is read.
AppendCall(data) ==
    LET tiles == Tiles(cards.rows + Len(data))
        merge == MergeRows(Len(data)) > 0
        last  == cards.tiles
    IN  [Call("append", Todo((IF merge THEN last ELSE last + 1)..tiles, cols), data, <<>>, cols,
              [i \in 1..tiles |-> IF i <= last THEN sect[i] ELSE NoDescs], tiles)
         EXCEPT !.old = [f |-> IF merge THEN SlabAt(last, cards.rows, last).of ELSE <<>>,
                         v |-> IF merge /\ "v" \in cols THEN BlobAt(last, cards.rows, last).of
                               ELSE <<>>]]

Decodable(n) ==
    MergeRows(n) > 0 => \A c \in cols : TileAt(c, cards.tiles, cards.rows, cards.tiles).ok

\* relocate_region_forward_local, after grow_file_to_at_least.
Relocated(n) ==
    LET heap == SubSeq(sect, cards.tiles + 1, cards.tiles + cards.pcount)
    IN  IF Relocates(n) THEN WriteAt(sect, Tiles(cards.rows + n) + 1, heap) ELSE sect

\* The call starts, or raises first, or its read of the table fails when the heap has moved.
StartAppend(data, buffered) ==
    \/ /\ ConvertibleCells(data) /\ Decodable(Len(data))
       /\ sect' = Relocated(Len(data))
       /\ \/ /\ call' = [AppendCall(data) EXCEPT !.buffered = buffered]
             /\ UNCHANGED <<harmed, lost>>
          \/ /\ Relocates(Len(data))
             /\ harmed' = "io" /\ lost' = (lost \/ buffered) /\ call' = Idle
    \/ /\ ~ConvertibleCells(data) \/ ~Decodable(Len(data))
       /\ call' = Idle /\ lost' = (lost \/ buffered)
       /\ UNCHANGED <<sect, harmed>>

AppendRows(data) ==
    /\ call = Idle /\ ~pending.on /\ ~tainted
    /\ cards.rows + Len(data) <= MaxRows /\ Bounded
    /\ StartAppend(data, FALSE)
    /\ UNCHANGED <<cols, cards, cache, pending, tainted, table, stale>>

\* setitem_compressed_cols of the columns cs of the rows at, in the order given; a column
\* subset does not look whether a context is open.
BeginSetItem(at, cs, data) ==
    /\ call = Idle /\ ~tainted /\ Bounded
    /\ call' = Call("setitem", Todo({TileOfRow(at[k]) : k \in DOMAIN at}, cs),
                    data, at, cs, SubSeq(sect, 1, cards.tiles), cards.tiles)
    /\ UNCHANGED <<cols, cards, sect, cache, pending, tainted, ghosts>>

-----------------------------------------------------------------------------
(* One tile of one column.                                                 *)

\* The rows the table has once call c is done, and how many of them it keeps.
RowsAfter(c) == IF c.op = "append" THEN c.cards.rows + Len(c.data) ELSE c.cards.rows
Kept(c) == IF c.op = "append" THEN c.cards.rows ELSE 0

\* The last edit of row r, or 0, and the edits of tile i, as places in the data.
LastEdit(c, r) == SelectLastInSeq(c.at, LAMBDA row : row = r)
TileEdits(c, i) == {k \in DOMAIN c.at : TileOfRow(c.at[k]) = i}

\* build_and_encode_tile_col, and the merge of append.
NewSlab(c, i) ==
    [j \in 1..TileLen(i, RowsAfter(c)) |->
       IF RowOf(i, j) <= Kept(c) THEN c.old.f[j] ELSE c.data[RowOf(i, j) - Kept(c)].f]

\* The slab of setitem: the last edit of a row counts.
PatchedSlab(c, i) ==
    LET old == SlabAt(i, c.cards.rows, c.theap).of
    IN  [j \in DOMAIN old |-> LET k == LastEdit(c, RowOf(i, j))
                              IN  IF k = 0 THEN old[j] ELSE c.data[k].f]

\* Mutant: every cell is taken to start where the tile does.
LaidTogether(us, of, cur) ==
    [units |-> FlattenSeq(us),
     descs |-> [j \in DOMAIN us |-> [n |-> of[j].n, orig |-> of[j].orig, cn |-> Len(us[j]),
                                     cs |-> IF us[j] = <<>> THEN 0 ELSE cur]]]

\* The cells of a tile from heap offset cur on: their units us, one behind the other, and
\* their descriptors, with the length and the place in the original heap of each from of.
Laid(us, of, cur) ==
    LET size == [j \in DOMAIN us |-> Len(us[j])]
    IN  [units |-> FlattenSeq(us),
         descs |-> [j \in DOMAIN us |->
                      [n |-> of[j].n, orig |-> of[j].orig, cn |-> size[j],
                       cs |-> IF size[j] = 0 THEN 0 ELSE cur + SumTo(size, j - 1)]]]

\* The units of the cell that descriptor d is about.
UnitsOf(d, theap) == SubSeq(sect, theap + d.cs + 1, theap + d.cs + d.cn)

\* encode_vla_column_tile and encode_vla_column_tile_with_merge: the cells of the old rows
\* are copied as they are, and keep their place in the original heap.
NewCells(c, i) ==
    LET plan == Plan(Lengths(c.data), c.zp)
        rows == 1..TileLen(i, RowsAfter(c))
        New(j) == RowOf(i, j) - Kept(c)
    IN  Laid([j \in rows |-> IF New(j) <= 0 THEN UnitsOf(c.old.v[j], c.theap)
                             ELSE Cell(c.data[New(j)].v)],
             [j \in rows |-> IF New(j) <= 0 THEN c.old.v[j]
                             ELSE [n |-> Len(c.data[New(j)].v), orig |-> plan[New(j)]]],
             c.cur)

OldDescs(c, i) ==
    IF c.main[i].v.n > 0 THEN Found("blob", c.main[i].v.n, c.main[i].v.off, c.theap).of
    ELSE [j \in 1..TileLen(i, c.cards.rows) |-> [n |-> 0, orig |-> 0, cn |-> 0, cs |-> 0]]

\* The lengths of the cells that setitem writes in tile i; an edit of another tile has none.
EditLengths(c, i) ==
    [k \in DOMAIN c.at |-> IF k \in TileEdits(c, i) THEN Len(c.data[k].v) ELSE 0]

\* What the edits of tile i add to both heaps, each behind the one before.
EditedCells(c, i) ==
    LET plan == Plan(EditLengths(c, i), c.zp)
    IN  Laid([k \in DOMAIN c.at |-> IF k \in TileEdits(c, i) THEN Cell(c.data[k].v) ELSE <<>>],
             [k \in DOMAIN c.at |-> [n |-> EditLengths(c, i)[k], orig |-> plan[k]]],
             c.cur)

\* Mutant: the new cell takes the place the old one has in the original heap.
PatchedCellsInPlace(c, i) ==
    [units |-> EditedCells(c, i).units,
     zp |-> Plan(EditLengths(c, i), c.zp)[Len(c.at) + 1],
     descs |-> [j \in DOMAIN OldDescs(c, i) |->
                  LET k == LastEdit(c, RowOf(i, j)) IN
                  IF k = 0 THEN OldDescs(c, i)[j]
                  ELSE [EditedCells(c, i).descs[k] EXCEPT !.orig = OldDescs(c, i)[j].orig]]]

\* setitem_vla_column_tile: every edit adds a cell to both heaps, and the last one of a
\* row gets its descriptor.
PatchedCells(c, i) ==
    [units |-> EditedCells(c, i).units,
     zp |-> Plan(EditLengths(c, i), c.zp)[Len(c.at) + 1],
     descs |-> [j \in DOMAIN OldDescs(c, i) |->
                  LET k == LastEdit(c, RowOf(i, j))
                  IN  IF k = 0 THEN OldDescs(c, i)[j] ELSE EditedCells(c, i).descs[k]]]

\* The new rows of the tile that are converted in this step.
Converted(c, i) ==
    IF c.op = "setitem" THEN {c.data[k] : k \in TileEdits(c, i)}
    ELSE {c.data[r - Kept(c)] :
            r \in {r \in 1..RowsAfter(c) : r > Kept(c) /\ TileOfRow(r) = i}}

\* The units and the descriptor of one tile of one column, at the cursor of c.
Encoded(c, i, col) ==
    IF col = "f"
    THEN LET u == Slab(IF c.op = "setitem" THEN PatchedSlab(c, i) ELSE NewSlab(c, i))
         IN  [units |-> u, desc |-> Desc(Len(u), c.cur), zp |-> c.zp]
    ELSE LET a == IF c.op = "setitem" THEN PatchedCells(c, i) ELSE NewCells(c, i)
             b == Blob(a.descs)
         IN  [units |-> a.units \o b, desc |-> Desc(Len(b), c.cur + Len(a.units)),
              zp |-> IF c.op = "setitem" THEN a.zp ELSE c.zp]

\* Fixed cells are converted here, the cells of a setitem too.
Rejected(c, i, col) ==
    \E row \in Converted(c, i) : IF col = "f" THEN row.f \in BadFixed ELSE row.v \in BadCells

\* A setitem decodes the tile first.
Undecodable(c, i, col) ==
    /\ c.op = "setitem"
    /\ IF col = "f" THEN ~SlabAt(i, c.cards.rows, c.theap).ok
       ELSE c.main[i].v.n > 0 /\ ~BlobAt(i, c.cards.rows, c.theap).ok

\* Call c raises without a taint, a ValueError or the error of a seek: what it has moved or
\* overwritten stays as it is.
Abandons(c, kind) ==
    /\ call' = Idle
    /\ harmed' = IF /\ cards.pcount > 0
                    /\ (c.op = "write" /\ c.cur > 0) \/ c.theap > cards.tiles
                 THEN kind ELSE harmed
    /\ lost' = (lost \/ c.buffered)
    /\ sect' = InUse(sect, [cards EXCEPT !.tiles = c.theap])

EncodeTile ==
    LET c == call
        x == First(c.todo)
        i == x.tile
        col == x.col
        e == Encoded(c, i, col)
    IN
    /\ c # Idle /\ c.todo # {}
    /\ IF Rejected(c, i, col) \/ Undecodable(c, i, col)
       THEN Abandons(c, "value")
       ELSE /\ sect' = WriteAt(sect, c.theap + c.cur + 1, e.units)
            /\ call' = [c EXCEPT !.todo = @ \ {x}, !.cur = @ + Len(e.units), !.zp = e.zp,
                                 !.main[i] = IF col = "f" THEN [@ EXCEPT !.f = e.desc]
                                             ELSE [@ EXCEPT !.v = e.desc]]
            /\ UNCHANGED <<harmed, lost>>
    /\ UNCHANGED <<cols, cards, cache, pending, tainted, table, stale>>

\* A write to the file fails, or the seek before it.
CallFails ==
    /\ call # Idle
    /\ \/ tainted' = TRUE /\ call' = Idle /\ UNCHANGED <<sect, harmed, lost>>
       \/ Abandons(call, "io") /\ tainted' = tainted
    /\ UNCHANGED <<cols, cards, cache, pending, table, stale>>

\* Mutant: NAXIS2 stays behind.
NewCardsOldTiles(c) ==
    [rows |-> RowsAfter(c), tiles |-> c.cards.tiles, pcount |-> c.cur, zpcount |-> c.zp]

\* The cards of the call's start, with the new sizes.  ZPCOUNT is left alone when no cell
\* was written.
NewCards(c) ==
    LET n == RowsAfter(c)
        end == Plan(Lengths(c.data), c.zp)[Len(c.data) + 1]
    IN  [rows |-> n, tiles |-> Tiles(n), pcount |-> c.cur,
         zpcount |-> IF "v" \notin cols THEN c.cards.zpcount
                     ELSE IF c.op = "setitem" THEN c.zp ELSE end]

\* The rows of the table after call c.  A row of a fixed table has no cell; a cell in a
\* tile of which setitem writes the first cells becomes empty.
Row(r) == [r EXCEPT !.v = IF "v" \in cols THEN @ ELSE <<>>]
Result(c) ==
    CASE c.op = "write"   -> [k \in DOMAIN c.data |-> Row(c.data[k])]
      [] c.op = "append"  -> table \o [k \in DOMAIN c.data |-> Row(c.data[k])]
      [] c.op = "setitem" ->
           [r \in DOMAIN table |->
              LET k == LastEdit(c, r)
                  old == IF table[r].v = NoCell /\ "v" \in c.cs /\ TileEdits(c, TileOfRow(r)) # {}
                         THEN <<>> ELSE table[r].v
              IN  IF k = 0 THEN [table[r] EXCEPT !.v = old]
                  ELSE [f |-> IF "f" \in c.cs THEN c.data[k].f ELSE table[r].f,
                        v |-> IF "v" \in c.cs THEN c.data[k].v ELSE old]]

\* Mutant: the tiles in the cache stay.
CommitKeepsCache ==
    LET c == call IN
    /\ c # Idle /\ c.todo = {}
    /\ sect' = InUse(WriteAt(sect, 1, c.main), NewCards(c))
    /\ cards' = NewCards(c)
    /\ stale' = (stale \/ (c.op = "write" /\ cache.lru # <<>>))
    /\ table' = Result(c)
    /\ call' = Idle
    /\ UNCHANGED <<cols, cache, pending, tainted, harmed, lost>>

\* The table and the header are written, the cards are committed and, except by write,
\* the cache is cleared.
Commit ==
    LET c == call IN
    /\ c # Idle /\ c.todo = {}
    /\ sect' = InUse(WriteAt(sect, 1, c.main), NewCards(c))
    /\ cards' = NewCards(c)
    /\ cache' = IF c.op = "write" THEN cache ELSE Clear(cache)
    /\ stale' = (c.op = "write" /\ (stale \/ cache.lru # <<>>))
    /\ table' = Result(c)
    /\ call' = Idle
    /\ UNCHANGED <<cols, pending, tainted, harmed, lost>>

-----------------------------------------------------------------------------
(* repack.                                                                 *)

\* One column of tile i goes behind the units that are packed already; the cells of a
\* variable-length column first, then the blob, compressed anew.
Pack(a, i, col) ==
    LET f == a.main[i].f
        v == a.main[i].v
        b == BlobAt(i, cards.rows, cards.tiles).of
        cells == Laid([j \in DOMAIN b |-> UnitsOf(b[j], cards.tiles)], b, Len(a.units))
        blob == Blob(cells.descs)
    IN  IF col = "f"
        THEN IF f.n = 0 THEN a
             ELSE [units |-> a.units \o SubSeq(sect, cards.tiles + f.off + 1, cards.tiles + f.off + f.n),
                   main |-> [a.main EXCEPT ![i].f = Desc(f.n, Len(a.units))]]
        ELSE IF v.n = 0 THEN a
             ELSE [units |-> a.units \o cells.units \o blob,
                   main |-> [a.main EXCEPT ![i].v =
                               Desc(Len(blob), Len(a.units) + Len(cells.units))]]

\* Tile by tile, the fixed column first; no tile of a fixed table has a blob.
Packed ==
    LET after[i \in 0..cards.tiles] ==
          IF i = 0 THEN [units |-> <<>>, main |-> SubSeq(sect, 1, cards.tiles)]
          ELSE Pack(Pack(after[i - 1], i, "f"), i, "v")
    IN  after[cards.tiles]

\* Without a variable-length column the slabs are moved as BlobMoves says.  With one, the
\* new heap is built in fresh room behind the old one and then copied down over it: both
\* copies read nothing that they have written.
Plans ==
    [i \in 1..cards.tiles |-> [old |-> sect[i].f.off, new |-> Packed.main[i].f.off, n |-> sect[i].f.n]]
PackedHeap ==
    IF "v" \in cols THEN Packed.units
    ELSE MovedHeap(SubSeq(sect, cards.tiles + 1, cards.tiles + cards.pcount), Plans,
                   Len(Packed.units), CHUNK)

\* The early returns: no tiles, no heap, a descriptor past the heap and, without a
\* variable-length column, nothing to gain.
Repacks ==
    /\ call = Idle /\ ~pending.on /\ ~tainted
    /\ cards.tiles > 0 /\ cards.pcount > 0
    /\ \A i \in 1..cards.tiles, col \in cols :
         sect[i][col].n > 0 => sect[i][col].off + sect[i][col].n <= cards.pcount
    /\ "v" \in cols \/ Len(Packed.units) # cards.pcount

Repack ==
    /\ Repacks
    /\ sect' = Packed.main \o PackedHeap
    /\ cards' = [cards EXCEPT !.pcount = Len(Packed.units)]
    /\ cache' = Clear(cache) /\ stale' = FALSE
    /\ harmed' = IF "v" \notin cols /\ Clobbers(Plans, cards.pcount, CHUNK) THEN "repack"
                 ELSE harmed
    /\ UNCHANGED <<cols, pending, tainted, call, table, lost>>

RepackFails ==
    /\ Repacks
    /\ tainted' = TRUE
    /\ UNCHANGED <<cols, cards, sect, cache, pending, call, ghosts>>

-----------------------------------------------------------------------------
(* The appending() context, and the rest.                                  *)

NoBuffer == [on |-> FALSE, rows |-> <<>>]

EnterContext ==
    /\ call = Idle /\ ~pending.on /\ ~tainted
    /\ pending' = [NoBuffer EXCEPT !.on = TRUE]
    /\ UNCHANGED <<cols, cards, sect, cache, tainted, call, ghosts>>

\* aligned_drain_rows: the most rows that end the table on a tile boundary.
AlignedDrainRows(buffered) ==
    LET fill == (TileRows - (cards.rows % TileRows)) % TileRows
    IN  IF buffered < fill THEN 0 ELSE fill + ((buffered - fill) \div TileRows) * TileRows

\* append_to_buffer: past the cap, drain_aligned_subset takes rows from the front and
\* appends them, or loses them to an error of numpy on the way.
BufferRows(data) ==
    LET rows  == pending.rows \o data
        drain == IF Len(rows) > PendingCap THEN AlignedDrainRows(Len(rows)) ELSE 0
    IN
    /\ call = Idle /\ pending.on /\ ~tainted
    /\ cards.rows + Len(rows) <= MaxRows /\ Bounded
    /\ pending' = [pending EXCEPT !.rows = SubSeq(rows, drain + 1, Len(rows))]
    /\ IF drain = 0 THEN UNCHANGED <<sect, call, harmed, lost>>
       ELSE \/ StartAppend(SubSeq(rows, 1, drain), TRUE)
            \/ lost' = TRUE /\ UNCHANGED <<sect, call, harmed>>
    /\ UNCHANGED <<cols, cards, cache, tainted, table, stale>>

\* __exit__: drain_residual_and_exit takes the buffer and appends what is in it.
ExitContext ==
    /\ call = Idle /\ pending.on /\ ~tainted
    /\ pending' = NoBuffer
    /\ IF pending.rows = <<>> THEN UNCHANGED <<sect, call, harmed, lost>>
       ELSE \/ StartAppend(pending.rows, TRUE)
            \/ lost' = TRUE /\ UNCHANGED <<sect, call, harmed>>
    /\ UNCHANGED <<cols, cards, cache, tainted, table, stale>>

\* set_tile_cache_bytes, clear_tile_cache.
ResizeCache(cap) ==
    /\ call = Idle /\ cap # cache.cap
    /\ cache' = SetCapacity(cache, cap)
    /\ UNCHANGED <<cols, cards, sect, pending, tainted, call, ghosts>>

ClearCache ==
    /\ call = Idle /\ cache.lru # <<>>
    /\ cache' = Clear(cache) /\ stale' = FALSE
    /\ UNCHANGED <<cols, cards, sect, pending, tainted, call, table, harmed, lost>>

\* build_compressed_table_header: descriptors of nothing, no heap.
Init ==
    /\ cols \in {{"f"}, {"f", "v"}}
    /\ cards \in {[rows |-> n, tiles |-> Tiles(n), pcount |-> 0, zpcount |-> 0] : n \in {0, TileRows + 1}}
    /\ sect = [i \in 1..cards.tiles |-> NoDescs]
    /\ cache \in {EmptyCache(cap) : cap \in Capacities}
    /\ pending = NoBuffer /\ tainted = FALSE /\ call = Idle
    /\ table = [r \in 1..cards.rows |-> [f |-> 0, v |-> IF "v" \in cols THEN NoCell ELSE <<>>]]
    /\ harmed = "no" /\ stale = FALSE /\ lost = FALSE

Data(n) == UNION {[1..m -> RowVals] : m \in 1..n}

Next ==
    \/ \E i \in 1..cards.tiles, col \in cols : ReadTile(i, col)
    \/ \E data \in [1..cards.rows -> RowVals] : BeginWrite(data)
    \/ \E data \in Data(TileRows) : AppendRows(data) \/ BufferRows(data)
    \/ \E at \in RowKeys, cs \in SUBSET cols \ {{}} :
         /\ ToSet(at) \subseteq 1..cards.rows
         /\ \E data \in [DOMAIN at -> RowVals] : BeginSetItem(at, cs, data)
    \/ EncodeTile \/ Commit \/ CallFails
    \/ Repack \/ RepackFails
    \/ EnterContext \/ ExitContext
    \/ \E cap \in Capacities : ResizeCache(cap)
    \/ ClearCache

Spec == Init /\ [][Next]_vars

-----------------------------------------------------------------------------
(* Properties.                                                             *)

\* The header cards count rows and tiles alike, the descriptors are where they say, and
\* the cache is within its budget.
TypeOK ==
    /\ cards \in [rows : 0..MaxRows, tiles : 0..Tiles(MaxRows), pcount : Nat, zpcount : Nat]
    /\ cards.tiles = Tiles(cards.rows) /\ Len(table) = cards.rows
    /\ \A p \in 1..cards.tiles : sect[p].t = "desc"
    /\ WithinBudget(cache)
    /\ {tainted, stale, lost} \subseteq BOOLEAN /\ harmed \in {"no", "io", "value", "repack"}

\* The file is as the calls that returned have left it: not while write or an append that
\* has moved the heap is at work, nor after one of these raised.
Settled ==
    ~tainted /\ harmed = "no" /\ (call # Idle => call.op = "setitem" \/ call.theap = cards.tiles)
                       /\ (call # Idle => call.op # "write")

\* Every request for one or two rows finds in the file what table says, or an error where
\* nothing was written.
ReadBack ==
    \A n \in 1..2 : \A rows \in [1..n -> 1..cards.rows] :
      LET got == ReadRows(rows) IN
      \A k \in 1..n :
        LET want == table[rows[k]]
        IN  IF want.f = 0 \/ want.v = NoCell THEN ~got[k].ok
            ELSE got[k] = [ok |-> TRUE, f |-> want.f, v |-> want.v]

\* Every request for rows, in any order and with repetitions, gets from the file the rows
\* that the calls that returned have written, after any sequence of write, append, merge
\* into the last tile, setitem, drains and repacks that did not copy a slab over its own
\* end, and at any point of a setitem that may still fail (read_compressed_table).
RowsReadBack == Settled => ReadBack

\* The descriptors of the original heap: where the cells of the table go when it is
\* uncompressed.
Originals ==
    UNION {LET b == BlobAt(i, cards.rows, cards.tiles)
           IN  {[row |-> RowOf(i, j), d |-> b.of[j]] : j \in {j \in DOMAIN b.of : b.of[j].n > 0}} :
             i \in 1..cards.tiles}

\* No two cells share a place in the heap of the uncompressed table, and all of them lie
\* within ZPCOUNT: what funpack and the checksum of the uncompressed heap
\* (feed_vla_synthetic_heap) need, and no read of this library looks at.
OriginalHeapSound ==
    Settled /\ "v" \in cols =>
      \A x, y \in Originals :
        /\ x.d.orig + x.d.n <= cards.zpcount
        /\ x.row # y.row => x.d.orig + x.d.n <= y.d.orig \/ y.d.orig + y.d.n <= x.d.orig

\* A tile in the cache is the tile of the file, unless write() has replaced the data.
CacheCoherent ==
    Settled /\ ~stale =>
      \A key \in CachedKeys(cache) :
        LET got == TileAt(key[2], key[1], cards.rows, cards.tiles)
        IN  IF got.ok THEN CachedEntry(cache, key).val = got.of
            ELSE CachedEntry(cache, key).val = <<>> /\ sect[key[1]].v.n = 0

-----------------------------------------------------------------------------
(* What the documentation says and the code does not do.                   *)

\* "every I/O method operates on the uncompressed rows.  The per-(tile, column) compressed
\* storage is an implementation detail" (hdu.rs): a read after a write gets what was
\* written.
ReadsSeeWrites ==
    Settled => \A key \in CachedKeys(cache) :
                 LET got == TileAt(key[2], key[1], cards.rows, cards.tiles)
                 IN  got.ok => CachedEntry(cache, key).val = got.of

\* "ValueError ... mean: the file is fine, fix the call and retry" (errors.rst): a call
\* that was rejected leaves the rows as they were.
RejectedCallHarmless == call = Idle /\ ~tainted /\ harmed \notin {"io", "repack"} => ReadBack
=============================================================================
