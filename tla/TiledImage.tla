---------------------------- MODULE TiledImage ----------------------------
(***************************************************************************)
(* One compressed image HDU (src/hdu_image_compressed/): a table with one  *)
(* row of descriptors per tile, the heap of encoded tiles behind it, the   *)
(* cache of decoded tiles and the buffer of the extending() context, used  *)
(* by several Python threads.  A step is what a thread does between two    *)
(* places where it may lose the GIL: the calls into Python and numpy.      *)
(* The image is a column of rows; a tile is TileRows of them.  What the    *)
(* codecs do to a tile is in Codecs: here an encoded tile knows the rows   *)
(* it was made from, and its length depends on them.  Where the section    *)
(* lies in the file is in FitsFile.                                        *)
(***************************************************************************)
EXTENDS TileCache, BlobMoves

CONSTANTS
    Threads,
    ReadOnly,    \* the threads that only read
    TileRows,    \* rows of a full tile (ZTILEn of the slow axis)
    Vals,        \* the values of a row, positive numbers
    Quantized,   \* the four-column schema: quantized floats with a gzip fallback
    Wide,        \* the values that do not fit the quantization scale of other rows
    CHUNK,       \* units that a repack copies at a time
    PendingCap,  \* rows the extending() buffer holds before it drains (MAX_PENDING_BYTES)
    Capacities,  \* the cache capacities that are set, in rows
    Coordinated, \* the callers keep to MayRun
    MaxRows,     \* bound on the rows of the image and its buffer
    MaxPcount    \* no write starts on a heap longer than this

\* No thread.
None == "none"

ASSUME ThreadAssumption == ReadOnly \subseteq Threads /\ None \notin Threads
ASSUME TileAssumption == TileRows \in Nat \ {0} /\ MaxRows \in Nat /\ MaxPcount \in Nat
ASSUME RowAssumption == TileRows < MaxRows
ASSUME ValueAssumption == Vals \subseteq Nat \ {0} /\ Wide \subseteq Vals
ASSUME CacheAssumption == Capacities \subseteq Nat /\ Capacities # {} /\ PendingCap \in Nat
ASSUME ChunkAssumption == CHUNK \in Nat \ {0}

VARIABLES
    cards,      \* ZNAXISn, NAXIS2 and PCOUNT
    sect,       \* the data section: the descriptor table, then the heap
    cache,      \* the TileCache
    pending,    \* the PendingBuffer of the extending() context
    mutex,      \* the thread that holds the mutex of pending across a call into numpy
    gil,        \* the thread that waits for that mutex with the GIL in hand
    tainted,    \* the TaintFlag
    open,       \* the FITS handle is open
    call,       \* per thread: the call in progress
    image,      \* history: the rows the calls that returned have written, 0 before
    lost,       \* history: an error dropped rows that the buffer had accepted
    clobbered   \* history: a repack wrote a chunk over units it still had to read

vars == <<cards, sect, cache, pending, mutex, gil, tainted, open, call, image, lost,
          clobbered>>
file == <<cards, sect, tainted, open>>
ghosts == <<image, lost, clobbered>>

-----------------------------------------------------------------------------
(* Tiles, descriptors and the heap.                                        *)

Least(a, b) == IF a < b THEN a ELSE b

\* compute_n_tiles: the tiles of an image of n rows.
Tiles(n) == (n + TileRows - 1) \div TileRows

\* tile_origin_and_shape: the rows of tile i in an image of n rows.
TileSpan(i, n) == ((i - 1) * TileRows + 1)..Least(i * TileRows, n)
TileOf(img, i) == SubSeq(img, (i - 1) * TileRows + 1, Least(i * TileRows, Len(img)))

\* A row of the table: the descriptors of COMPRESSED_DATA and GZIP_COMPRESSED_DATA.
Desc(pn, poff, fn, foff) == [t |-> "desc", pn |-> pn, poff |-> poff, fn |-> fn, foff |-> foff]
NoDesc == Desc(0, 0, 0, 0)

\* encode_tile_from_bytes, encode_gzip1: the i-th of n units of an encoded tile.
Unit(rows, col, i, n) == [t |-> "unit", rows |-> rows, col |-> col, i |-> i, n |-> n]
TileUnits(rows) == IF rows[1] = 0 THEN 1 ELSE rows[1]
Encoded(rows, col) == [i \in 1..TileUnits(rows) |-> Unit(rows, col, i, TileUnits(rows))]
Junk == Unit(<<>>, "none", 0, 0)

\* The units u are written at p (the first is 1); a gap that a shorter section leaves is junk.
WriteAt(s, p, u) ==
    [q \in 1..(IF Len(s) < p + Len(u) - 1 THEN p + Len(u) - 1 ELSE Len(s)) |->
       IF q \in p..(p + Len(u) - 1) THEN u[q - p + 1] ELSE IF q <= Len(s) THEN s[q] ELSE Junk]

\* fetch_tile_payload: the column of tile i that holds something, the first one first.
Payload(d) == IF d.pn > 0 THEN [col |-> "p", n |-> d.pn, off |-> d.poff]
              ELSE [col |-> "f", n |-> d.fn, off |-> d.foff]

NoRows == <<>>

\* What decoding tile i of n rows can give with the heap at theap: its rows; no rows, an
\* error, for a tile without data or past the end of the file; an error or wrong rows,
\* zeros here, for bytes that are not an encoded tile of that shape.
Decode(i, n, theap) ==
    IF i > Len(sect) \/ sect[i].t # "desc" THEN {NoRows, [k \in 1..n |-> 0]}
    ELSE LET d  == Payload(sect[i])
             at == [k \in 1..d.n |-> theap + d.off + k]
         IN  IF d.n = 0 \/ at[d.n] > Len(sect) THEN {NoRows}
             ELSE IF /\ sect[at[1]].t = "unit"
                     /\ Len(sect[at[1]].rows) = n
                     /\ [k \in 1..d.n |-> sect[at[k]]] = Encoded(sect[at[1]].rows, d.col)
                  THEN {sect[at[1]].rows}
                  ELSE {NoRows, [k \in 1..n |-> 0]}

\* get_or_decode_tile, from the cache or from the file: the rows or an error, and what
\* becomes of the cache.
Fetched(i, n, theap) ==
    IF i \in CachedKeys(cache) THEN {[rows |-> CachedEntry(cache, i).val, cache |-> Touched(cache, i)]}
    ELSE {[rows |-> d, cache |-> IF d = NoRows THEN cache ELSE CachePut(cache, i, d, n)] :
            d \in IF tainted THEN {NoRows} ELSE Decode(i, n, theap)}

-----------------------------------------------------------------------------
(* Calls.                                                                  *)

Idle == [op |-> None]
Waiting == [op |-> "waiting"]

\* A call that will touch these tiles, with the cards as they are now.
Call(op, todo, data, at) ==
    [op |-> op, ph |-> "main", cards |-> cards, todo |-> todo, data |-> data, at |-> at,
     main |-> <<>>, upd |-> <<>>, prim |-> <<>>, fall |-> <<>>, buffered |-> FALSE]

Writers == {"write", "extend", "setitem", "pop"}

\* The callers' discipline: one thread at a time changes the HDU, and nobody reads while
\* it is extended.
MayRun(t, op) ==
    Coordinated => /\ op \in Writers => \A u \in Threads : call[u].op \notin Writers
                   /\ op \in {"extend", "pop"} => \A u \in Threads \ {t} : call[u] = Idle
                   /\ \A u \in Threads : call[u].op \notin {"extend", "pop"}

\* A call starts: its first act is to lock pending, and if that is held, by a drain in
\* numpy, it waits with the GIL in hand.  Otherwise it goes on as then says.
Starts(t, op, then) ==
    /\ open /\ gil = None /\ call[t] = Idle
    /\ IF mutex = None THEN MayRun(t, op) /\ then /\ gil' = gil
       ELSE /\ gil' = t
            /\ call' = [call EXCEPT ![t] = Waiting]
            /\ UNCHANGED <<file, cache, pending, mutex, ghosts>>

Runs(t, op, ph) == gil = None /\ call[t].op = op /\ call[t].ph = ph

Becomes(t, c) == call' = [call EXCEPT ![t] = c]

\* check_not_in_context, check_not_tainted and header_snapshot, then the call proper.
Enters(t, c) ==
    /\ Starts(t, c.op, /\ ~pending.on /\ ~tainted
                       /\ Becomes(t, c)
                       /\ UNCHANGED <<file, cache, pending, mutex, ghosts>>)

Seqs(n) == UNION {[1..m -> Vals] : m \in 1..n}

\* read and slice_compressed_image of the tiles todo, one after the other.
BeginRead(t, todo) == Enters(t, Call("read", todo, <<>>, 0))

\* write: the data has the shape of the image.
BeginWrite(t, data) ==
    /\ Len(data) = cards.rows /\ cards.pcount <= MaxPcount
    /\ Enters(t, Call("write", [i \in 1..cards.tiles |-> i], data, 1))

\* The tiles of an extend by n rows: the last one if it is not full, then the new ones.
ExtendTodo(n) ==
    LET first == Tiles(cards.rows) + IF cards.rows % TileRows = 0 THEN 1 ELSE 0
    IN  [j \in 1..(Tiles(cards.rows + n) - first + 1) |-> first + j - 1]

ExtendCall(data) == Call("extend", ExtendTodo(Len(data)), data, cards.rows + 1)

BeginExtend(t, data) ==
    /\ cards.rows + Len(data) <= MaxRows /\ cards.pcount <= MaxPcount
    /\ Enters(t, ExtendCall(data))

\* hdu[at : at + Len(data)] = data: every tile that overlaps.
SetItemTodo(at, n) ==
    LET first == Tiles(at) IN [j \in 1..(Tiles(at + n - 1) - first + 1) |-> first + j - 1]

BeginSetItem(t, at, data) ==
    /\ at + Len(data) - 1 <= cards.rows /\ cards.pcount <= MaxPcount
    /\ Enters(t, Call("setitem", SetItemTodo(at, Len(data)), data, at))

\* The call ends with an error; buffered rows that only this call still had are dropped.
Fails(t) ==
    /\ Becomes(t, Idle)
    /\ lost' = (lost \/ call[t].buffered)

-----------------------------------------------------------------------------
(* The work of a call.                                                     *)

\* One tile of a read: get_or_decode_tile, then numpy places it.
ReadTile(t) ==
    LET c == call[t]
        n == Cardinality(TileSpan(Head(c.todo), c.cards.rows))
    IN
    /\ Runs(t, "read", "main")
    /\ \E got \in Fetched(Head(c.todo), n, c.cards.tiles) :
         /\ cache' = got.cache
         /\ Becomes(t, IF Len(got.rows) # n \/ Len(c.todo) = 1 THEN Idle
                       ELSE [c EXCEPT !.todo = Tail(@)])
    /\ UNCHANGED <<file, pending, mutex, gil, ghosts>>

\* The descriptor table is read, after the data was converted by numpy; write needs none.
LoadMain(t) ==
    LET c == call[t] IN
    /\ \E op \in {"write", "extend", "setitem"} : Runs(t, op, "main")
    /\ Becomes(t, [c EXCEPT !.ph = "encode",
                            !.main = IF c.op = "write" THEN <<>>
                                     ELSE SubSeq(sect, 1, c.cards.tiles)])
    /\ UNCHANGED <<file, cache, pending, mutex, gil, ghosts>>

\* The rows the image has once call c is done.
RowsAfter(c) == IF c.op = "extend" THEN c.cards.rows + Len(c.data) ELSE c.cards.rows

\* The rows of tile i that call c encodes.  write: its own data.
OwnTile(c, i) == TileOf(c.data, i)

\* extend: the rows of the partial last tile, then its own data.
BoundaryTile(c, i, old) ==
    [j \in 1..Cardinality(TileSpan(i, RowsAfter(c))) |->
       IF j <= Len(old) THEN old[j] ELSE c.data[(i - 1) * TileRows + j - c.cards.rows]]

\* setitem: its own data where the slice covers the tile, else what the tile held.
PatchedTile(c, i, old) ==
    [j \in DOMAIN old |->
       LET r == (i - 1) * TileRows + j
       IN  IF r \in c.at..(c.at + Len(c.data) - 1) THEN c.data[r - c.at + 1] ELSE old[j]]

NewTile(c, i, old) ==
    CASE c.op = "write"   -> OwnTile(c, i)
      [] c.op = "extend"  -> BoundaryTile(c, i, old)
      [] c.op = "setitem" -> PatchedTile(c, i, old)

\* A tile of the file whose other rows stay is decoded first.
NeedsOld(c, i) == c.op = "setitem" \/ (c.op = "extend" /\ i <= c.cards.tiles)

IsWide(rows) == Quantized /\ ToSet(rows) \cap Wide # {}

\* encode_quant_boundary_tile: a tile that was in the fallback column stays there.
\* encode_tile_float: a new tile goes there when it cannot be quantized.
Column(c, i, rows) ==
    IF NeedsOld(c, i) THEN IF Quantized /\ c.main[i].pn = 0 THEN "f" ELSE "p"
    ELSE IF IsWide(rows) THEN "f" ELSE "p"

\* A tile in the primary column cannot take rows outside its scale: ValueError.
Unfit(c, i, rows) == NeedsOld(c, i) /\ Column(c, i, rows) = "p" /\ IsWide(rows)

\* Tile i with these rows is encoded into the call's own heaps.
WithTile(c, i, rows) ==
    LET col == Column(c, i, rows)
        u   == Encoded(rows, col)
        d   == IF col = "p" THEN Desc(Len(u), Len(c.prim), 0, 0) ELSE Desc(0, 0, Len(u), Len(c.fall))
    IN  [c EXCEPT !.todo = Tail(@), !.upd = Append(@, [tile |-> i, desc |-> d]),
                  !.prim = IF col = "p" THEN @ \o u ELSE @,
                  !.fall = IF col = "f" THEN @ \o u ELSE @]

\* One iteration of the encode loop.
EncodeTile(t) ==
    LET c == call[t]
        i == Head(c.todo)
        n == IF NeedsOld(c, i) THEN Cardinality(TileSpan(i, c.cards.rows)) ELSE 0
        olds == IF n > 0 THEN Fetched(i, n, c.cards.tiles)
                ELSE {[rows |-> NoRows, cache |-> cache]}
    IN
    /\ gil = None /\ c # Idle /\ c.ph = "encode" /\ c.todo # <<>>
    /\ \E got \in olds :
         /\ cache' = got.cache
         /\ IF Len(got.rows) # n \/ Unfit(c, i, NewTile(c, i, got.rows))
            THEN Fails(t)
            ELSE Becomes(t, WithTile(c, i, NewTile(c, i, got.rows))) /\ lost' = lost
    /\ UNCHANGED <<file, pending, mutex, gil, image, clobbered>>

\* The descriptors of call c once its heaps are joined, the fallback behind the primary,
\* and put behind the old heap.
Placed(c) ==
    LET base == IF c.op = "write" THEN 0 ELSE c.cards.pcount IN
    [k \in DOMAIN c.upd |->
       LET d == c.upd[k].desc IN
       [c.upd[k] EXCEPT !.desc =
          Desc(d.pn, IF d.pn > 0 THEN d.poff + base ELSE d.poff,
               d.fn, IF d.fn > 0 THEN d.foff + Len(c.prim) + base ELSE d.foff)]]

\* The descriptor table that call c writes.
NewMain(c) ==
    [i \in 1..Tiles(RowsAfter(c)) |->
       LET mine == {k \in DOMAIN c.upd : c.upd[k].tile = i}
       IN  IF mine # {} THEN Placed(c)[CHOOSE k \in mine : TRUE].desc ELSE c.main[i]]

\* extend reads the old heap to move it behind the longer table.
OldHeap(c) == SubSeq(sect, c.cards.tiles + 1, c.cards.tiles + c.cards.pcount)

\* What the call writes.  write: the table and its own heap, over what there was.  The
\* section does not shrink; what it keeps behind them is left out here, where no
\* descriptor leads and the next heap is written.
WriteSect(c) == NewMain(c) \o c.prim \o c.fall

\* extend: the longer table, the old heap behind it, then its own.
ExtendSect(c) == WriteAt(sect, 1, NewMain(c) \o OldHeap(c) \o c.prim \o c.fall)

\* setitem: its own heap behind the old one, then the table.
SetItemSect(c) ==
    WriteAt(WriteAt(sect, 1, NewMain(c)), c.cards.tiles + c.cards.pcount + 1, c.prim \o c.fall)

NewSect(c) ==
    CASE c.op = "write"   -> WriteSect(c)
      [] c.op = "extend"  -> ExtendSect(c)
      [] c.op = "setitem" -> SetItemSect(c)

\* The cards as they are now, with the sizes of the call.
WriteCards(c) == [cards EXCEPT !.pcount = Len(c.prim) + Len(c.fall)]
SetItemCards(c) == [cards EXCEPT !.pcount = c.cards.pcount + Len(c.prim) + Len(c.fall)]

\* Mutant: NAXIS2 stays behind.
ExtendCardsOldTiles(c) == [SetItemCards(c) EXCEPT !.rows = RowsAfter(c)]
ExtendCards(c) == [SetItemCards(c) EXCEPT !.rows = RowsAfter(c), !.tiles = Tiles(RowsAfter(c))]

NewCards(c) ==
    CASE c.op = "write"   -> WriteCards(c)
      [] c.op = "extend"  -> ExtendCards(c)
      [] c.op = "setitem" -> SetItemCards(c)

ReadyToCommit(t) ==
    gil = None /\ call[t] # Idle /\ call[t].ph = "encode" /\ call[t].todo = <<>>

\* The rows of the image after call c, whatever other calls did since it began.
Result(c) ==
    CASE c.op = "write"   -> c.data
      [] c.op = "extend"  -> image \o c.data
      [] c.op = "setitem" -> [r \in DOMAIN image |->
                                IF r \in c.at..(c.at + Len(c.data) - 1) THEN c.data[r - c.at + 1]
                                ELSE image[r]]

\* Mutant: the decoded tiles are kept.
CommitKeepsCache(t) ==
    LET c == call[t] IN
    /\ ReadyToCommit(t)
    /\ sect' = NewSect(c)
    /\ cards' = NewCards(c)
    /\ image' = Result(c)
    /\ Becomes(t, Idle)
    /\ UNCHANGED <<cache, pending, mutex, gil, tainted, open, lost, clobbered>>

\* Everything after the encode loop, without a call into Python: make room, write the
\* table and the heap, rewrite the cards, clear the cache.
Commit(t) ==
    LET c == call[t] IN
    /\ ReadyToCommit(t)
    /\ sect' = NewSect(c)
    /\ cards' = NewCards(c)
    /\ cache' = Clear(cache)
    /\ image' = Result(c)
    /\ Becomes(t, Idle)
    /\ UNCHANGED <<pending, mutex, gil, tainted, open, lost, clobbered>>

\* set_len fails before anything was written; the shift or a later write fails.
CommitFails(t) ==
    /\ ReadyToCommit(t)
    /\ tainted' \in BOOLEAN
    /\ Fails(t)
    /\ UNCHANGED <<cards, sect, open, cache, pending, mutex, gil, image, clobbered>>

-----------------------------------------------------------------------------
(* repack_compressed_heap, without a call into Python.                     *)

\* The blobs of the table in scan order: tile i has 2i - 1 in the primary column and 2i
\* in the fallback one.
Blobs == 1..(2 * cards.tiles)
Blob(b) ==
    LET d == sect[(b + 1) \div 2]
    IN  IF b % 2 = 1 THEN [n |-> d.pn, off |-> d.poff] ELSE [n |-> d.fn, off |-> d.foff]

\* Where blob b goes: behind those before it.
NewOff(b) == SumTo([x \in Blobs |-> Blob(x).n], b - 1)
NewPcount == NewOff(2 * cards.tiles + 1)

\* An empty descriptor becomes (0, 0).
Target(b) == IF Blob(b).n = 0 THEN 0 ELSE NewOff(b)

PackedMain ==
    [i \in 1..cards.tiles |-> Desc(sect[i].pn, Target(2 * i - 1), sect[i].fn, Target(2 * i))]

\* What a repack is to leave in the heap: the blobs, one behind the other.
PackedUnits ==
    [p \in 1..NewPcount |->
       LET b == CHOOSE b \in Blobs : p \in (NewOff(b) + 1)..(NewOff(b) + Blob(b).n)
       IN  sect[cards.tiles + Blob(b).off + p - NewOff(b)]]

\* The heap as the moves of the blobs leave it.
Plans == [b \in Blobs |-> [old |-> Blob(b).off, new |-> NewOff(b), n |-> Blob(b).n]]
Heap == SubSeq(sect, cards.tiles + 1, cards.tiles + cards.pcount)
PackedHeap == MovedHeap(Heap, Plans, NewPcount, CHUNK)

\* The early returns: no heap, no tiles, a blob outside the heap, nothing to gain.
Repacks ==
    /\ ~pending.on /\ ~tainted
    /\ cards.pcount > 0 /\ cards.tiles > 0 /\ NewPcount # cards.pcount
    /\ \A b \in Blobs : Blob(b).n > 0 => Blob(b).off + Blob(b).n <= cards.pcount

Repack(t) ==
    Starts(t, "setitem",
      /\ Repacks
      /\ sect' = PackedMain \o PackedHeap
      /\ cards' = [cards EXCEPT !.pcount = NewPcount]
      /\ cache' = Clear(cache)
      /\ clobbered' = (clobbered \/ Clobbers(Plans, cards.pcount, CHUNK))
      /\ UNCHANGED <<tainted, open, pending, mutex, call, image, lost>>)

\* A copy or a write of the repack fails.
RepackFails(t) ==
    Starts(t, "setitem",
      /\ Repacks
      /\ tainted' = TRUE
      /\ UNCHANGED <<cards, sect, open, cache, pending, mutex, call, ghosts>>)

-----------------------------------------------------------------------------
(* The extending() context.                                                *)

NoBuffer == [on |-> FALSE, rows |-> <<>>, total |-> 0]

\* __enter__.
EnterContext(t) ==
    Starts(t, "extend",
      /\ ~pending.on /\ ~tainted
      /\ pending' = [NoBuffer EXCEPT !.on = TRUE]
      /\ UNCHANGED <<file, cache, mutex, call, ghosts>>)

\* Mutant: the partial tile at the end of the image is not reckoned with.
AlignedDrainRowsFull(rows, buffered) == (buffered \div TileRows) * TileRows

\* aligned_drain_rows: the most rows that end the image on a tile boundary.
AlignedDrainRows(rows, buffered) ==
    LET fill == (TileRows - (rows % TileRows)) % TileRows
    IN  IF buffered < fill THEN 0 ELSE fill + ((buffered - fill) \div TileRows) * TileRows

\* append_to_buffer: the rows are kept even when the taint check after it raises; past
\* the cap, pop_front_rows starts and takes the mutex into numpy.
BufferRows(t, data) ==
    LET total == pending.total + Len(data)
        drain == AlignedDrainRows(cards.rows, total)
    IN
    /\ cards.rows + total <= MaxRows /\ cards.pcount <= MaxPcount
    /\ Starts(t, "extend",
         /\ pending.on
         /\ pending' = [pending EXCEPT !.rows = @ \o data, !.total = total]
         /\ IF ~tainted /\ total > PendingCap /\ drain > 0
            THEN mutex' = t /\ Becomes(t, [op |-> "pop", ph |-> "main", n |-> drain])
            ELSE UNCHANGED <<mutex, call>>
         /\ UNCHANGED <<file, cache, ghosts>>)

\* Mutant: the mutex is kept while the drained rows are written.
PoppedHeld(t) ==
    LET n == Least(call[t].n, Len(pending.rows))
        rest == SubSeq(pending.rows, n + 1, Len(pending.rows))
    IN
    /\ Runs(t, "pop", "main") /\ n > 0
    /\ pending' = [pending EXCEPT !.rows = rest, !.total = Len(rest)]
    /\ Becomes(t, [ExtendCall(SubSeq(pending.rows, 1, n)) EXCEPT !.buffered = TRUE])
    /\ UNCHANGED <<file, cache, mutex, gil, ghosts>>

\* pop_front_rows returns; drain_aligned_subset goes on to extend with the cards of now.
Popped(t) ==
    LET n == Least(call[t].n, Len(pending.rows))
        rest == SubSeq(pending.rows, n + 1, Len(pending.rows))
    IN
    /\ Runs(t, "pop", "main") /\ n > 0
    /\ pending' = [pending EXCEPT !.rows = rest, !.total = Len(rest)]
    /\ mutex' = None
    /\ Becomes(t, [ExtendCall(SubSeq(pending.rows, 1, n)) EXCEPT !.buffered = TRUE])
    /\ UNCHANGED <<file, cache, gil, ghosts>>

\* np.concatenate raises, out of memory or over chunks of different shape: the chunks
\* are gone, the total is not corrected.
PopFails(t) ==
    LET n == Least(call[t].n, Len(pending.rows)) IN
    /\ Runs(t, "pop", "main")
    /\ pending' = [pending EXCEPT !.rows = SubSeq(@, n + 1, Len(@))]
    /\ mutex' = None
    /\ Becomes(t, Idle)
    /\ lost' = TRUE
    /\ UNCHANGED <<file, cache, gil, image, clobbered>>

\* Mutant: the drain of __exit__ is skipped when no full tile is left.
ExitContextFull(t) ==
    Starts(t, "extend",
      /\ pending.on /\ ~tainted
      /\ pending' = NoBuffer
      /\ IF Len(pending.rows) < TileRows THEN UNCHANGED <<call, lost>>
         ELSE /\ Becomes(t, [ExtendCall(pending.rows) EXCEPT !.buffered = TRUE])
              /\ lost' = lost
      /\ UNCHANGED <<file, cache, mutex, image, clobbered>>)

\* __exit__: drain_residual_and_exit takes the buffer, then extends with what is in it;
\* concatenating no chunks at all raises.
ExitContext(t) ==
    Starts(t, "extend",
      /\ pending.on /\ ~tainted
      /\ pending' = NoBuffer
      /\ IF pending.rows = <<>> THEN UNCHANGED <<call, lost>>
         ELSE \/ /\ Becomes(t, [ExtendCall(pending.rows) EXCEPT !.buffered = TRUE])
                 /\ lost' = lost
              \/ lost' = TRUE /\ call' = call
      /\ UNCHANGED <<file, cache, mutex, image, clobbered>>)

-----------------------------------------------------------------------------
(* The rest of the HDU.                                                    *)

\* set_tile_cache_bytes, clear_tile_cache.
ResizeCache(t, cap) ==
    /\ open /\ gil = None /\ call[t] = Idle /\ cap # cache.cap
    /\ cache' = SetCapacity(cache, cap)
    /\ UNCHANGED <<file, pending, mutex, gil, call, ghosts>>

ClearCache(t) ==
    /\ open /\ gil = None /\ call[t] = Idle /\ cache.lru # <<>>
    /\ cache' = Clear(cache)
    /\ UNCHANGED <<file, pending, mutex, gil, call, ghosts>>

\* FITS.close: refused while a context is open.
Close(t) ==
    /\ \A u \in Threads : call[u] = Idle
    /\ Starts(t, "extend",
         /\ ~pending.on
         /\ open' = FALSE
         /\ UNCHANGED <<cards, sect, tainted, cache, pending, mutex, call, ghosts>>)

\* create_compressed_image_hdu_impl: descriptors of nothing, no heap.
Init ==
    /\ cards \in {[rows |-> n, tiles |-> Tiles(n), pcount |-> 0] : n \in 0..(TileRows + 1)}
    /\ sect = [i \in 1..cards.tiles |-> NoDesc]
    /\ cache \in {EmptyCache(cap) : cap \in Capacities}
    /\ pending = NoBuffer /\ mutex = None /\ gil = None
    /\ tainted = FALSE /\ open = TRUE
    /\ call = [t \in Threads |-> Idle]
    /\ image = [r \in 1..cards.rows |-> 0] /\ lost = FALSE
    /\ clobbered = FALSE

AllTiles == [i \in 1..cards.tiles |-> i]

Read(t) == \E i \in 1..cards.tiles : BeginRead(t, SubSeq(AllTiles, i, cards.tiles))

Change(t) ==
    \/ \E data \in [1..cards.rows -> Vals] : cards.rows > 0 /\ BeginWrite(t, data)
    \/ \E data \in Seqs(TileRows + 1) : BeginExtend(t, data) \/ BufferRows(t, data)
    \/ \E at \in 1..cards.rows, data \in Seqs(TileRows) : BeginSetItem(t, at, data)
    \/ Repack(t) \/ RepackFails(t)
    \/ EnterContext(t) \/ ExitContext(t)
    \/ \E cap \in Capacities : ResizeCache(t, cap)
    \/ ClearCache(t) \/ Close(t)

GoesOn(t) ==
    \/ ReadTile(t) \/ LoadMain(t) \/ EncodeTile(t) \/ Commit(t) \/ CommitFails(t)
    \/ Popped(t) \/ PopFails(t)

Next ==
    \/ \E t \in Threads : Read(t) \/ GoesOn(t)
    \/ \E t \in Threads \ ReadOnly : Change(t)

\* A call runs on until it returns: the interpreter hands the GIL round.
Spec == Init /\ [][Next]_vars /\ \A t \in Threads : WF_vars(GoesOn(t))

-----------------------------------------------------------------------------
(* Properties.                                                             *)

Rows == Seq(Vals \cup {0})

TypeOK ==
    /\ ~clobbered => /\ cards \in [rows : 0..MaxRows, tiles : 0..Tiles(MaxRows), pcount : Nat]
                     /\ cards.tiles = Tiles(cards.rows)
                     /\ image \in Rows /\ Len(image) = cards.rows
                     /\ \A p \in DOMAIN sect : sect[p].t = IF p <= cards.tiles THEN "desc" ELSE "unit"
    /\ pending.on \in BOOLEAN /\ pending.rows \in Rows /\ pending.total \in Nat
    /\ mutex \in Threads \cup {None} /\ gil \in Threads \cup {None}
    /\ {tainted, open, lost, clobbered} \subseteq BOOLEAN

\* Every tile decodes to the rows that the calls that returned have written, after any
\* sequence of write, extend, setitem, repack and drains, and whatever failed on the way
\* without tainting; a tile that was never written raises.  Not so once a repack has moved
\* a tile longer than CHUNK up over its own end, which it does in place and front first.
TilesReadBack ==
    ~tainted /\ ~clobbered =>
      \A i \in 1..cards.tiles :
        LET rows == TileOf(image, i)
        IN  Decode(i, Len(rows), cards.tiles) = {IF 0 \in ToSet(rows) THEN NoRows ELSE rows}

\* A tile in the cache is the tile in the file: no reader, extend or setitem leaves one
\* behind that a later write, extend or repack has changed, unless one has clobbered tiles.
CacheCoherent ==
    ~tainted /\ ~clobbered => \A i \in CachedKeys(cache) : CachedEntry(cache, i).val = TileOf(image, i)

\* The cache counts what it holds and never holds more than its capacity, through hits,
\* replacements, evictions and a capacity that shrinks.
CacheWithinBudget == WithinBudget(cache)

\* The copies of a repack, in the order of the old offsets, in place when that looks safe
\* and through the staging area when it does not, put every tile where its new descriptor
\* says, and nothing else stays in the heap: but for a tile longer than CHUNK that moves
\* up over its own end.
RepackCompacts ==
    [][UNCHANGED call /\ cards' # cards /\ ~clobbered' =>
         sect' = PackedMain \o PackedUnits]_vars

\* The image, what a drain has in its hands, and the buffer: everything accepted so far.
Draining == {t \in Threads : call[t].op = "extend" /\ call[t].buffered}
Held ==
    image \o (IF Draining = {} THEN <<>> ELSE call[CHOOSE t \in Draining : TRUE].data)
          \o pending.rows

\* The rows given to extend() inside a context come to the file once and in order: no
\* drain, and not leaving the context, drops, repeats or reorders one, unless an error
\* was raised.
BufferedRowsKept ==
    [][pending.on \/ Draining # {} => IsPrefix(Held, Held') \/ lost' \/ tainted']_vars

\* A drain inside the context ends on a tile boundary, so that only leaving it encodes a
\* partial tile (aligned_drain_rows).
DrainsAligned ==
    [][pending.on /\ cards'.rows # cards.rows /\ ~lost => cards'.rows % TileRows = 0]_vars

\* A drain has the mutex of the buffer and waits for the GIL, and a thread that has the
\* GIL waits for that mutex.
Stuck == gil # None /\ call[mutex].op = "pop"

\* Every call ends, unless some thread calls the HDU in the moment in which a drain joins
\* the buffered rows in numpy (pop_front_rows): then neither ever goes on.
CallsEnd == \A t \in Threads : call[t] # Idle ~> (call[t] = Idle \/ Stuck)

-----------------------------------------------------------------------------
(* What the documentation says and the code does not do.                   *)

\* "rustfits serializes file access through an internal mutex on each open handle, so two
\* threads calling hdu.write(...) on the same FITS object don't race" (errors.rst).
WritersDontRace == (\A t \in Threads : call[t] = Idle) => TilesReadBack
=============================================================================
