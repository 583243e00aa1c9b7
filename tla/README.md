# A TLA+ development for rustfits

rustfits reads and writes FITS files from Python; the work is done in Rust. A
FITS file is a sequence of header-data units (HDUs), each a header of 80-byte
cards and a data section, both padded to 2880-byte blocks. The format has no
index: where an HDU starts follows from the headers before it. rustfits edits
such files in place. It grows headers and sections in front of other HDUs, moves
the rest of the file, and keeps in memory, for every HDU, offsets and cards that
must go on describing the file. It also keeps compressed images and tables, whose
tiles lie in a heap that every change leaves holes in. This development is about
that: whether memory and file agree, whatever sequence of calls, errors, crashes and
threads there was, and whether what was written is what is read.

## 1. Inventory

| part | state it keeps | operations | what makes it correct |
|---|---|---|---|
| byte movers (`common.rs`, `hdu_table/edit.rs`) | none beyond the file and the offset records | shift the tail forward or backward, relocate a region, stream a copy | no unread byte is overwritten where the caller keeps its side; offsets move with the bytes or the handle is tainted |
| open file and layout (`fits.rs`, `common.rs`) | `FileHandle` (mutex on the storage), `FileLayout` with `HduOffsets`, taint flag, `gz_writeback` | open/parse, `create_*`, close, sync, Drop | a reopen shows what the handle showed; sections do not overlap |
| headers (`header.rs`) | the cards of each HDU, `FITSHeaderEdit` snapshots | set, delete, update, commentary, `edit()` | disk first, then memory; the header fits its reserved blocks |
| HDU base (`hdu.rs`) | cards mutex, `cards_version` | `header_snapshot`, `CardsWriteGuard.commit` | a metadata cache never outlives its cards |
| images (`hdu_image.rs`) | cached metadata | read, write, `__setitem__`, extend, checksums | extend leaves other HDUs as they were |
| tables (`hdu_table/`) | cached metadata, the heap of VLA columns on disk | read, write, append, setitem, insert/delete column, repack | every cell reads back what was last written; the heap has no lost or shared bytes |
| ASCII tables (`hdu_ascii_table/`) | cached metadata | as tables, without a heap | as tables |
| compressed images (`hdu_image_compressed/`) | tile cache, `pending` buffer of `extending()` | read, write, setitem, extend, repack | tiles and heap agree with the descriptors; a buffered slab is flushed exactly once |
| compressed tables (`hdu_table_compressed/`) | (tile, column) cache, `pending` buffer of `appending()` | read, write, append, setitem, repack | as above |
| tile cache (`cache.rs`) | bytes-bounded LRU | get, put, set_capacity, clear | stays within its budget, never serves a stale tile |
| ranged remote reads (`remote_range.rs`) | block cache, file length | read through Range requests | bytes of one version of the file |
| gzip write-back (`fits.rs`) | memory buffer, dirty flag | sync, close, Drop | a change is either marked dirty or on disk |
| checksums, codecs (`checksum.rs`, `zimage/`) | none | encode, decode | round trips, bounds |
| downloads, Python package | none | whole-file fetch, convenience wrappers | - |

**How the parts interact.** Every HDU and every `FITSHeader` shares the file
handle, the layout and the taint flag with the `FITS` object. An operation takes
a snapshot of the cards, reads its offsets, makes room (which moves later HDUs and
their records), writes header and data, and commits the cards. The file mutex is
taken and released several times on the way. The GIL is released only while a
file is downloaded or a `.gz` buffer is compressed, but the interpreter may switch
threads wherever an operation calls Python, for example `numpy.ma.isMaskedArray`
at the start of every image write.

**What is hard.** The order of chunks in an overlapping move; failures between
the stages of an operation and what they taint; states that only a long sequence
of legal calls reaches (reserved but unused header blocks, a heap without VLA
columns, orphans in any order, a partial tile under a buffer of new rows); a crash
between stages; a sync that overlaps writes, a close or another sync; caches that
outlive what they were made from; codes at the limit of their operands. PROJECT.json lists these hazards with their lines
and the properties that watch them.

## 2. Modules

| module | models | proved about in |
|---|---|---|
| `RegionMove` | the chunked movers, one chunk per step | `RegionMoveProofs` |
| `AtomicEdit` | what a caller gets: the requested move at once, or an error with every byte old or in place | (the abstract side of `Refinement`) |
| `FitsFile` | one open file in blocks: layout, headers, sections, all editing operations, failures, crash, close, reopen | `FitsFileProofs` (where things are, then what is there) |
| `HeapRepack` | the heap of one table, byte by byte: writes, column edits, repack | `HeapRepackProofs` |
| `GzHandle` | threads, GIL, file mutex, buffer and dirty flag of a `.gz` handle | `GzHandleProofs` |
| `PrefixSums` | running sums: the cursor of a heap plan, the byte count of a cache | `PrefixSumTheorems` |
| `TileCache` | the bytes-bounded LRU of `cache.rs`, as operators on a value | `PrefixSumTheorems` |
| `BlobMoves` | how a repack of a compressed HDU moves its blobs: sorted, chunk by chunk, in place or through staging; as operators on a heap | `PrefixSumTheorems` |
| `TiledImage` | a compressed image: descriptors, heap, cache, `extending()` buffer, threads; extends `TileCache` and `BlobMoves` | `TiledImageProofs` (the cache's budget and the buffer, then what the tiles hold) |
| `TiledTable` | a compressed table: slabs, variable-length cells and their blobs, both heaps, cache, `appending()` buffer; extends `TileCache` and `BlobMoves` | `TiledTableProofs` |
| `HeaderCards` | a list of cards: values to cards and back, CONTINUE chains, long keywords, the edits of the list | `HeaderEditProofs` |
| `HeaderEdit` | the header of an HDU: every mutator, `edit()`, the version of the cards, the metadata cache; extends `HeaderCards` | `HeaderEditProofs` |
| `HeaderDict` | what a header promises: an ordered book of entries and a staged copy | (the abstract side of `ImplementsDict`) |
| `Rice`, `Plio`, `Hcompress`, `Checksum` | the encoders and decoders, as operators | - |
| `Codecs` | one tile or HDU that is encoded and decoded again; extends the four | - |
| `MC*` | instances for TLC and the constraints of the runs | - |

### RegionMove and AtomicEdit

`file`, `flen`, `hoff`, `doff`, `tainted` are the bytes, their number, the offset
records and the flag. `op`, `src`, `dst`, `total`, `left` are the locals of the
running loop; `before` is a history variable. `BeginShiftForward` and so on are
the part of each function before its loop (argument checks, `set_len`),
`MoveChunk` is one iteration, `FailChunk` a failing read, write or seek inside
it, and the `Finish...` actions are flush, `set_len` and the update of the
records, under the same lock. `FailSeek` is the one error of
`stream_copy_in_file` and the relocations that does not taint. `stream_copy_in_file`
leaves it to its caller that no write lands on bytes it has not read, and so does the
model: `BeginStreamCopy` takes any source and destination, and `Smears` names the copies
that go wrong, of more than a chunk up over themselves. AtomicEdit has a call and seven ways it
returns. `Insert`, `Remove` and `Copy` are the requested move, done exactly and at once. `BreakInsert` and
`Break` are errors that taint: the records stay, and every position has its old byte or the
one that belongs there. `GiveUp` is a copy that stopped between two chunks, untainted: a
part of it from one end, and nothing else, is in place. `Smear` is what is left to be
said of a copy that smears: old bytes and bytes of the source.

### FitsFile

The unit is the block. A block on disk is the j-th of a serialized header (with
what its cards say: kind, number of cards, size of the main part, size of the
heap), written data of an HDU, zeros or blanks. `hdus` holds what the handle holds
in memory: header offset, reserved header blocks, data offset and cards. An
operation is a program, a sequence of stages taken from the order of the
statements in the code (`Program`), and `job` says which one runs and where it is.

* *Headers.* `StageHeadroom` and `StageRewrite` are the two halves of
  `rewrite_header_to_disk`: insert blocks when the cards do not fit, then write
  all reserved blocks, blanks after END. `StagePutHeader` is the other way the
  code writes a header: serialized, so that it ends at the data offset.
* *Sections.* `StageRoom` grows a section (shift and zero-fill, or `set_len` at
  the end of the file), `StageShrink` gives blocks back, `StageStaging` is
  `grow_file_to_at_least` for a staged repack.
* *Failures.* `FailTainted`, `FailSetLen`, `FailImageWrite`, `FailCreate` are I/O
  errors, `RejectCell` and `RejectLate` are cells or arrays that turn out to be
  unusable half-way. Which of them taint is read off the code. `torn` remembers
  an error after which memory and disk may differ.
* *Reading back.* `Parse` is `parse_hdus_from_file`. `Reopen` takes the layout
  from the disk alone. `flaws` remembers that the disk did not give back what
  memory had; the layout properties speak of sessions that began with a file in
  order.

### HeapRepack

`rows` are the descriptors, `heap` the bytes, each byte knowing which cell's
present value it is a part of, and `junk` otherwise. The writes are
`write_vla_aware`, `append_vla_aware`, the three VLA forms of `__setitem__`, and
the two column edits. Lengths come row by row, as `plan_vla_heap_layout` takes them, and
`PlanHeap` is its cursor: a cell lies behind the bytes of all cells before it. A repack
computes the new offsets, chooses between moving in place and staging behind the heap as
the code does, and then copies chunk by chunk (`StreamChunk`); `FailRepack` taints. The
sorted list of copies is a set in which each copy has a turn, its old offset; those that
come back from the staging area have later turns than those that go there. The
descriptors and PCOUNT are written in one step at the end.

### GzHandle

`buf` and `gz` are version numbers of the buffer and of the file. A thread makes a
call when it can take the GIL; it waits for the mutex with the GIL in hand
(`LockFile`); it is without the GIL inside `extend`, where numpy runs, and inside
the compression. `best`, `settled` and `overtaken` are history: the newest content the file
ever had, what it had when last no save was running, and the saves whose copy is older than one taken
since. PyO3's borrows are in `Admits`: sync takes `&self`, close takes
`&mut self`, and a refused borrow raises without any effect. Python with a GIL is
modelled, the build the project's CI pins; in a free-threaded build the taint check and
the copy of sync would be two steps.

### TiledImage and TileCache

`sect` is the data section: `cards.tiles` rows of descriptors, then the heap, unit by
unit; `image` is a history variable with the rows that the calls that returned have
written. An image is a column of rows and a tile is `TileRows` of them. A unit of the heap
knows the rows it encodes, so reading at a wrong offset gives something that is no
tile. With `Quantized` a tile goes to one of two columns: rows that do not fit the
scale of their tile (`Wide`) go to the gzip fallback, whose heap is put behind the
primary one at the end of the call (`Placed`).

A call is cut where its thread may lose the GIL, which is where it calls numpy: at
the start, per tile, and at the commit. `call[t]` holds what it read before
(`cards`, descriptors) and what it will write. `pending` is the buffer of `extending()`,
`mutex` its mutex while numpy runs under it (`Popped`), `gil` a thread that waits for that
mutex with the GIL in hand. `MayRun` is the discipline the passing run assumes of the
callers, because the code needs it: one thread at a time changes the HDU, and nobody
uses it during an extend. It does not cover a drain in numpy, which the caller of another thread cannot see: a call
made then waits for the mutex with the GIL in hand, and `Stuck` is the state in which neither goes on. Failures: decoding, numpy and file errors in every
phase (`Fails`, `CommitFails`, `PopFails`, `RepackFails`), with the taint where the code sets it.

A repack is one step whose copies are those of the code (`BlobMoves`): the blobs in the order of their old
offsets, the check of the fast path, then each blob chunk by chunk from the front, in
place or out to the staging area and back, and the cut. A call cannot lose the GIL on the way, so the
chunks need no steps of their own; that each of them can fail is `RepackFails`. `clobbered` remembers a repack that wrote a chunk over
units it still had to read. The section is cut to table and heap after a write; the code leaves it as long as it was, but no
descriptor leads to what lies behind and the next heap is written over it.

### TiledTable

As TiledImage, with one thread, a fixed column `f` and, in one of the two schemas, a
variable-length column `v`. A fixed column has one slab per tile. For a variable-length
one every cell is encoded by itself (a short one is stored as it is), and a blob per
tile holds two descriptors per row: of the encoded cell, and of the place the cell
has in the heap of the uncompressed table, which is `ZPCOUNT` long and exists only on
paper. A step encodes one tile of one column and writes it to the file; the last one
commits the cards. An append that adds tiles moves the heap first (`Relocated`).
A repack of a table with a variable-length column builds the new heap in fresh room and copies it down; without
one it is that of `BlobMoves`. `harmed` remembers a call that raised without taint after it had moved or overwritten
data, and of what kind the error was, or a repack that copied a slab over its own end.

### HeaderCards, HeaderEdit and HeaderDict

A character is a number; `&`, the quote and the space are the three that matter. The 80
columns of a card are scaled down to 5 characters of value, so a string of nine takes
three cards, a quote can fall on the break, and a comment competes for room with the
last piece. `Read` follows a chain as `parse_value_with_continue` does, `ChainEnd` is where
an edit thinks it ends, `SetCards` and `DeleteCards` splice the list. HeaderEdit takes the
calls on the live header (copy under the mutex, edit, rewrite, commit), the staged calls
of `FITSHeaderEdit`, an append that commits a new row count, and a reader of the
metadata in its two steps (`MetaLoad`, `MetaStore`). HeaderDict knows no cards: an entry that is set again
keeps its place, its spelling and, without a new one, its comment; `update()` stops
where it raises. The refinement mapping reads the entries out of the cards as `keys`,
`values` and `comment_of` do.

### Rice, Plio, Hcompress, Checksum and Codecs

These are the algorithms of `zimage/` and `checksum.rs` with their constants as
parameters: RICE_1 to the bit (block widths, wrapped differences, raw and zero blocks),
PLIO_1 to the word (runs, steps, the merged words), HCOMPRESS_1 with scale 0 (H-transform
with its rounding, quadtree per bit plane with the raw form, signs), the checksum with
its 16-bit halves in 32 bits (what a chunk adds beyond that is lost), the bytes carried over from chunk to chunk
and the ASCII form. `InWidth` says that no chunk overflows them. Codecs gives
them a state machine: a tile is chosen, encoded, decoded. `Checksum.OnesSum` is the
reference definition of the sum.

## 3. Runs

| run | checks | shows |
|---|---|---|
| `region_move` | `TypeOK`, `SourceNotClobbered`, `MoveInv`, `ShiftIsWhole`, `ImplementsAtomicEdit` | every move in a file of up to 5 bytes with a 2-byte buffer and distances 1 to 3 (below, at and above a chunk), stream copies to any place |
| `fits_file` | `TypeOK`, `SectionsDisjoint`, `LayoutInv`, `DataOwned`, `ReopenAgrees`, `OthersIntact` | up to three HDUs, images and VLA tables (a table loses its last VLA column, and gains one, by column edits) |
| `heap_repack` | `TypeOK`, `CellsIntact`, `HeapWellFormed`, `RepackCompacts`, `RepackEnds` | one column of three rows and 6 bytes of heap, or two columns of two rows |
| `gz_handle` | `TypeOK`, `CleanMeansSaved`, `CloseSaves`, `NeverOlder`, `CallsEnd` | three threads, all of which may write, extend, sync and close, six calls |
| `tiled_image` | `TypeOK`, `TilesReadBack`, `CacheCoherent`, `CacheWithinBudget`, `RepackCompacts`, `BufferedRowsKept`, `DrainsAligned`, `CallsEnd` | a writer and a reader; quantized, tiles of two rows that encode to two or three units, three rows in image and buffer, repacks with chunks of two units |
| `tiled_table` | `TypeOK`, `RowsReadBack`, `OriginalHeapSound`, `CacheCoherent` | both schemas, tiles of two rows, three rows, row lists with a repetition and out of order, repacks with chunks of one unit |
| `header_edit` | `TypeOK`, `HeaderDescribesData`, `ImplementsDict` | two calls on a header with a chain of three cards, two spellings of a long keyword, update from another header and a failing one |
| `codecs` | `RiceLossless`, `PlioLossless`, `HcompressLossless`, `ChecksumHolds` | about 11,800 tiles and HDUs, chunks of the checksum on both sides of the overflow |
| `header_persists`, `no_clobbering`, `reads_see_writes`, `plio_lossless` | one statement each of a doc, comment or test | violated; see section 6 |

**Bounds.** FitsFile: two cards and two units of data make a block, so one card more or less
crosses a block boundary and so does one unit. Three HDUs are enough for an HDU
with one before and one behind it, and for two that move together. `MaxBlocks`
limits the file on which an operation starts. The passing run
searches three regions together (`MCFitsFile.Explored`): files of images; headers
of up to two blocks around small tables; one-block headers around tables whose
rows and heap fill several blocks. It stops at files with more than one spare
block, and after a reopen that did not agree. HeapRepack: cells are up to two
chunks long, so a copy takes more than one chunk; copies that move such a cell up
over itself are cut off (`NoUpwardOverlap`) because they are wrong
(`no_clobbering`). GzHandle: six calls suffice for a write, a sync, a write
inside it, a second sync or a close that overtakes the first, and one more of either.

TiledImage and TiledTable: three rows in tiles of two give a full tile, a partial one,
a merge into it, and a drain that has to fill it; `MaxPcount` limits the heap on which
a change starts, and leaves room for an orphan in front of and behind a live tile. The length
of a tile depends on its first row, so a longer one can take the place of a shorter one, and with it both paths of a
repack occur, tiles of more than a chunk that move down over themselves, and such that move up. The
cache holds one tile or both, so that it evicts. What happens to a tainted handle, or
after an error or a repack that harmed data, is cut off by a constraint (`Alive`, `Unharmed`): the
properties say nothing of such states. HeaderEdit: two calls, because every call
works on the list that the one before has left and the lists of one call are
already all the shapes there are; one edit object at a time, and no append while it is
open (`Disciplined`). Codecs: 8-bit pixels in blocks of two, so that every width from 0 to
raw occurs and differences wrap; PLIO operands of 2 bits instead of 12, so that runs, gaps and
steps pass their limit in tiles of eight; HCOMPRESS tiles of up to 5 by 7, odd and even
sides, with smooth and rough textures and values of both signs; bytes of 3 bits for the
checksum, with chunks that end at every place of a word, and chunks of 4 times as many words as a half-word has
values, which is the proportion of the code's 1 MiB chunks, just below and just above what the sum of a half can hold. `TamePlio` leaves out the
lone pixels that `plio_lossless` is about.

**Deadlock** is not checked: a tainted handle refuses everything, a file in
disorder need not parse, and the number of calls is bounded. The two
`CallsEnd` and `RepackEnds` say what must not get stuck.

**Fairness.** HeapRepack: `WF(StreamChunk \/ FinishRepack)`, because repack is one
synchronous call that returns to nobody before it is done. GzHandle: weak fairness of
every thread's steps inside a call: the scheduler runs a thread that can run and the
interpreter passes the GIL on; no thread has to make a call, and since calls
are finite in number no stronger assumption on the GIL is needed. TiledImage: the same,
for the steps of every thread inside a call (`GoesOn`). `CallsEnd` there leaves out one case, and says so: a call made
while a drain is in numpy (`Stuck`, section 6). The other modules have none, and no liveness property.

Every property of a passing run has a mutant in PROJECT.json: an operator next to the
definition it replaces, marked `Mutant`, with a mistake of the kind this code could have.

## 4. What is proved

For all values of the constants, with the assumptions that the modules name. The only
assumptions on constants are that bounds are numbers, sizes positive, the bound on the rows
of a compressed image or table larger than a tile, that zero is none of the cells a table is given
(it stands for a cell that was never written), and the types of what a header's users pass in; the
hypotheses of single theorems are named below.

* **RegionMoveProofs.** `TypeCorrect`; `NeverClobbers` (for every chunk size and distance the shifts and relocations overwrite no byte
  they still have to read, and neither does a stream copy down, to a place apart, or of at most a chunk; a longer one up over
  itself does, and the repacks ask for it, section 6); `ShiftsAreWhole` (a shift that
  returns has moved every byte of the tail and every later record); `Refinement`
  (RegionMove implements AtomicEdit under the mapping that shows the file as it
  was at the beginning until the operation ends: so Ok is the requested move, byte for byte, and an error leaves
  nothing in the file but old bytes and bytes in place). The inductive invariant, `MoveInv`
  (`MoveInvariance`), splits the region into the part already moved, which holds the old
  bytes at the new place, and the part to come, which still holds them at the old place.
* **FitsFileProofs.** `LayoutInvariance` and `SectionsAreDisjoint`. Disjointness alone is
  not inductive, because an operation in progress already owns more, or still owns
  less, than its cards say: `Claim(k)` is the number of data blocks that are HDU k's
  at the present stage. `JobFits` is what the earlier stages secured for the
  later ones (the header fits the reserved blocks once `headroom` is over; the
  section grows, keeps or loses blocks as the kind of operation says; append of
  fixed rows only meets tables without heap). `Trusted` stands in front of all of
  it: after a taint, a crash or a reopen in disorder nothing is claimed, and trust is
  not regained, which has to be shown of every action. There is one lemma per
  stage, one for each way the blocks are rearranged, and one for the parser's
  side (a reopen that agrees brings back the same records).
* **FitsFileProofs**, second part, on top of the layout. `OthersStayIntact`: every stage carries the
  blocks of all other HDUs along with their records (`OthersCarried`, one lemma per way the
  blocks are rearranged). `DataIsOwned`: between operations a section holds its own data and zeros.
  That is not inductive, because a staged repack works in blocks that nobody has
  filled: `ContentInvariance` distinguishes what an HDU owns at a stage from what it claims, and has
  the rest cut off before the operation ends. `ReopenedFileAgrees`: a parse of the disk alone
  finds every HDU of a trusted file where memory has it, with its cards. Its invariant is
  `PrintInvariance`: at every stage the disk shows, in front of each section, the
  header that the records or the operation in progress say. That the parser's loop gets through the file is
  an induction over the HDUs; since no induction theorem with an operator parameter can be
  used, it goes by the least HDU at which the loop would stop. `TypeCorrect` needs all
  of it: only what is on the disk says of which type a reopened record is.
* **HeapRepackProofs**, for tables of any size and cells of any length. `RepackInvariance` is the inductive
  invariant: descriptors apart and inside the heap, and, while a repack runs (`Running`), each
  pending copy the end of a planned one, no two with bytes to read in common, and no
  copy coming back before all have gone out. From it: `CellsStayApart`, `TypeCorrect`, and
  `CompactsHeap` (a repack that ends leaves no orphan, because the new offsets are running sums and PCOUNT their
  total). `CellsReadBack`: every cell reads back what was written to it last, as long as
  `NoUpwardOverlap` holds, the condition whose absence in the code `no_clobbering` shows.
  `ShortCellsReadBack` puts in its place that no cell is longer than a chunk (`MaxLen <= CHUNK`), a
  mebibyte in the code. The argument follows a single byte: `Seat` is where it is (in its old
  place, in the staging area, or in its new place), every chunk takes it from its seat to its
  next one or leaves its seat alone. That the live bytes fit the old heap (`LiveBytes`, which the
  staged path and the new PCOUNT rest on) is a counting argument: disjoint cells inside PCOUNT
  bytes cannot have more bytes than that.
* **GzHandleProofs**, for any number of threads and calls, all of which may sync, and without a hypothesis. `TypeCorrect`. `CleanIsSaved`: a buffer
  that is clean and not being saved has been in the file as it is. `ClosedIsSaved`: a close that wrote has left the last content there for good. `FileOnlyAdvances`: the file goes
  back only when a sync renames a copy that another sync has overtaken, never behind what it had when last no save was running,
  and never once a close has the buffer. (That it goes back at all is `SyncIsDurable`, section 6.) The invariants: `PlaceInv` says where the GIL and
  the mutex are for each place of a call, `Budget` how many changes each call may still make, `FileInv` that every copy on its way is at least as new as the file
  was before the overlap and that only overtaken ones are older than the file, and `SaveInv` that a clean buffer was in the file or that the sync which
  cleaned it is still at work.
* **TiledImageProofs.** `CacheBounded`: the byte count of the tile cache is the sum of its entries, no tile
  is in it twice, and the capacity is kept, for every tile size, capacity and number of
  threads. Each operator of `TileCache` is shown to preserve it in `PrefixSumTheorems`, for images and tables alike; the
  eviction loop rests on running sums (a suffix of the entries weighs the whole less the prefix).
  `DrainsEndOnTiles` and `RowsComeOnce` are about the buffer of `extending()`, for any tile size, cap and
  number of threads, under the hypothesis `Coordinated`: callers keep to `MayRun`, one
  thread changing the HDU at a time (the discipline of the `tiled_image` run). Three invariants carry them.
  `Typed` is what the records of calls, cards and buffer are. `Solo` is what the discipline
  amounts to once calls are in progress: a call that extends or drains is alone, inside the context
  there is nothing but its drain. It holds while nobody waits for the mutex with the GIL in hand; once somebody does, nothing of the HDU moves any more. With it, each action is one of
  ten steps as the buffer sees them (`Steps`), and the rest of the argument is about those. `Aligned` ties a
  pop and the extend that follows it to the cards: nobody moved the end of the image between the moment
  `aligned_drain_rows` looked at it and the commit. That it looks for the right number is
  `DrainEnds`, arithmetic with a divisor that is not fixed. For the rows, `Held` (image, what the drain has in its
  hands, buffer) only grows at its end, from the associativity of concatenation.

* **TiledImageProofs**, second part, under `Coordinated` as well and for any tile size, values, columns, capacities and number of threads.
  `ImageReadsBack`: every tile decodes to the rows that were written (`TilesReadBack`). `CacheIsCoherent`: a
  tile in the cache is the one in the file (`CacheCoherent`). Neither is inductive: a reader may be between two
  tiles and a writer between two encodings. `Content` says so of each. The file (`FileOK`): each
  descriptor points at units inside PCOUNT that spell its rows of the image, or is empty when a row was
  never written. The cache (`CacheOK`): its entries are tiles of the image. A call (`WorkOK`): the cards are
  still the ones it read; of its tiles, in order, some are done, each spelled in the heap of the call with the rows it will
  have (`Done`), and the rest are to do. A commit is then a statement about one tile at a time
  (`NewTilesKept`): a tile of the call is found in its heap, moved behind the old one (`PlacedIs`), and a tile that the
  call leaves alone has the same rows before and after (`Untouched`) and its units where the descriptor says.
  For a repack, the new offsets are running sums and every position of the new heap belongs to one
  blob (`PackedIs`), and the copies bring each blob there (below). The arithmetic of tiles, with a tile size that is not fixed, is in
  `TileIsThere` and `TileShape`.
  All of them hold up to a repack that copies a tile longer than a chunk up over its own end (`clobbered`).
  `RepackLeavesNoGaps` (`RepackCompacts`): short of that, the copies of a repack leave the table with its new descriptors and behind it
  the live blobs, each whole, one behind the other, and nothing else. That is a theorem about the loops of `BlobMoves`, proved in
  `PrefixSumTheorems` for any heap, plans and chunk size: a chunked copy that does not go up over itself is the copy at once (`StreamCopyIs`), the sorted plans are a
  permutation of the live ones (`SortedPlansAre`), under the check of the fast path no write reaches a blob that is still to be
  read, and neither do the copies to staging and back (`MovesInPlaceOrdered`, `ToStageOrdered`, `FromStageOrdered`), so the result is the packed heap on either path
  (`MovedHeapIs`). It needs that the table never lays claim to more units than the heap has (`Spare`), which extends and setitems
  have to be shown to keep; a call counts its units by the tiles it has encoded (`Reckoned`), and `SumOfPairs` brings the two columns together.
  `ImageTypeCorrect` (`TypeOK`) adds `Room`, that the rows of image, drain and buffer together
  stay within `MaxRows`, and `SectTyped`, that behind the table a section holds nothing but units.

* **TiledTableProofs**, for any tile size, rows, row lists, buffer and cache capacities. `TableReadsBack`: every request
  for one or two rows, out of order and repeated too, finds in the file what was written last, or an error where nothing
  was (`RowsReadBack`). `TableOriginalHeap`: the cells have places of their own in the heap of the uncompressed table, all below
  `ZPCOUNT` (`OriginalHeapSound`). `TableCacheCoherent`: a cached tile is the one in the file, unless write() has
  replaced the data under it, which is what `reads_see_writes` shows (`CacheCoherent`). `TableTypeCorrect`: `TypeOK` as long as no call raised
  after it had changed data without a taint, nor a repack clobbered a slab; the run stops there as well (`Unharmed`).
  None of them is inductive: a call encodes tile by tile, an append moves the heap before its cards are
  committed, a write overwrites it. `TableInv` (`TableInvHolds`) says, for some descriptors `D0` of the cells of the file: they lie
  apart in the original heap (`Origs`); as long as the call in progress has not touched the heap that the header describes
  (`Intact`), each tile of the section spells its rows of the table (`Content`); and the call is at work at its result (`Work`). This last is about the
  descriptors the cells will have. The old tiles that are still to be read are where the call looks for them (`OldThere`), the tiles that are done
  spell the rows of the result (`SlabsDone`, `BlobsDone`), those that are left have the places planned
  for them (`EditsLeft`, `PlanKept`). When nothing is left, this is `Content` of the new table. The steps: content moves with the heap and
  survives what is written behind it (`ContentMoved`); cells laid one behind the other lie at running sums (`LaidLies`, `FlattenPlaces`);
  cells added behind `ZPCOUNT` stay apart from those that are there (`OrigsAdded`); the `after` of a repack, a table defined
  by recursion over tiles and columns, exists (`PackStepsExist`, from `RecursionExists` below), and each of its steps copies one slab or one blob with its cells
  (`PackSlab`, `PackBlob`). Without a variable-length column the slabs are brought there by the chunked copies
  (`MovedHeapIs` again, with a `Spare` of its own), as long as none is copied over its own end.

* **HeaderEditProofs**, for any layout of the cards, keywords, values, comments and histories.
  `HeaderTypeCorrect`: the list of cards, live or staged, stays well formed through every call (`WellFormed`).
  `HeaderAgrees`: on a sound handle the structural card says what the data hold, and so does what `meta()`
  finds in its cache, under the hypothesis `Disciplined`, that nobody appends while an `edit()` is open
  (`EditKeepsStructure` in section 6 shows that it is needed). Assumed of the constants: rooms are numbers, a card has
  room for two characters and a line of text for one, no keyword of a user is structural or one of
  `HISTORY`, `CONTINUE`, `END` or blank, and the header is well formed, with a structural card that holds a number, when it is opened.
  The invariant (`CardsInv`, `RowsInv`) adds that the structural card is not in quotes, so that
  nothing hangs on it when an append replaces its text; that a staged copy which can still be committed
  has the row count of the data; and that metadata stored under the present version are those of the present
  cards, while a reader may hold any version up to it. Every edit is a splice (`SplicedSound`): what goes are whole chains
  (`ChainEndIs`), and what comes (`Built`) is a card of the keyword and CONTINUE cards, each behind one that ends in `&`. That
  `Chain` and `LongKeyCards` build nothing else (`BuildCardsBuilt`), that a value read back is one that can be set again (`ReadTyped`),
  and that `update()` keeps the list in order wherever it stops (`AfterActionsKeepsRows`) is about functions defined by recursion. No
  induction theorem with an operator parameter can be used for these; `RecursionExists` and `MeasureInduction`
  of `PrefixSumTheorems` take its place: a definition by recursion is a function `step` on pairs of a place and a table
  of values, and has a solution whenever `step` looks only at places of smaller measure.

The strengthenings (`ContentInv`, `PrintInv`, `Running`, `Seated`, `Solo`, `Aligned`, `Content`, `TableInv`, `CardsInv` and so on) were run
through TLC on the instances of section 3 before they were proved.

## 5. What is only model-checked, and what is left out

Out of the prover's reach: liveness and fairness (`RepackEnds` and the two `CallsEnd`), and what the codecs
compute for every input, which is recursion over data (`RiceLossless`, `PlioLossless`,
`HcompressLossless`, `ChecksumHolds`, in modules with RECURSIVE operators). Not proved, and checked by TLC: `ImplementsDict`, that
what is read from a chain of cards is the value that was laid out on it. The types of TiledTable are not claimed
after an error that harmed data.

Left out of the modules on purpose:

* FitsFile: failures of seek and metadata calls; a partial block of a header on
  a failed create; what a tainted file holds; a data block is assumed to contain
  at least one unprintable byte, so that it is never taken for a header; the exact first
  block an append touches; deleting every column of a table.
* HeapRepack: tables with a THEAP that is not the default (repack refuses them);
  descriptors that share bytes (this code never writes them: `HeapWellFormed`); the width of
  a descriptor; a VLA write that is rejected after room was made (FitsFile has it).
* GzHandle: the refusal of close inside `extending()` and `appending()`; power loss.
* TiledImage: tiles along the other axes, the values of pixels, masks and scaling; a
  THEAP that is not the default; what a reader makes of a tile while it is being extended
  (`MayRun`); the bytes of the section behind PCOUNT; a failing seek half-way through a repack, which raises without a taint
  (here and for tables an error of a repack taints); the checksum calls.
* TiledTable: threads; subset reads and writes inside `appending()`; the bytes between the end of the heap (PCOUNT)
  and the next HDU, which FitsFile has and no descriptor leads to; GZIP and RICE of a slab (a slab that is
  written with another RICE block size than the 32 of `read.rs:414` is not told apart).
* HeaderEdit: the text of numbers, complex numbers and their error when they are too long (`header.rs:1325`), case folding of plain keywords, what a rewrite does to
  the file (FitsFile), two edit objects at once, iteration while the header changes.
* Codecs: deflate, which is a library; quantization and dithering, which are floating-point;
  HCOMPRESS with a scale or smoothing, and its 32-bit overflow; the 64-bit duplicates of the
  same code; the header words of a PLIO tile, and the pixels that PLIO refuses (negative, or above 2^27 - 1).
* ASCII tables and the reading of tables: no state beyond what FitsFile has; the rest is conversion
  of values. Ranged remote reads: read-only, one block cache behind HTTP requests; they come next.
* Downloads, argument checks, formatting, conversion of values, the Python wrappers.

## 6. Disagreements found

Four are runs with `expect: violation`; PROJECT.json quotes the lines.

* `HeaderPersists`: deleting cards across a block boundary leaves blank blocks
  between END and the data that a reader does not expect.
* `NoClobbering`: repack corrupts a cell longer than 1 MiB that moves up by less than its length. The repacks of compressed images and of
  compressed tables without variable-length columns make the same check and the same copies, and corrupt a tile or slab
  in the same way, although "writes never clobber unread blobs" (`hdu_image_compressed/repack.rs:43-47`, `hdu_table_compressed/repack.rs:194-196`);
  `clobbered` in TiledImage and `harmed = "repack"` in TiledTable mark the states, and `tiled_image` and `tiled_table` reach them.
* `ReadsSeeWrites`: a write to a compressed table that was read before leaves the old tiles in the
  cache, where the next read finds them.
* `PlioLossless`: a lone pixel with a step of more than 4095, or behind a gap of a multiple of
  4095, is encoded to words that mean something else.

The others have a configuration of the same name, for `tlc -config <name>.cfg <module>`, each
violated within seconds or a few minutes:

| configuration | module | what the code does | where it is said otherwise |
|---|---|---|---|
| `HeapPersists` | `MCFitsFile` | a VLA write with a smaller heap announces a smaller section and keeps the larger one (`hdu_table/write_vla.rs:838`) | "round-trip bit-exactly", `docs/tutorial/tables.rst:14` |
| `AppendFits` | `MCFitsFile` | append ignores the heap of a table whose last VLA column was deleted (`hdu_table/write_fixed.rs:755`) | "the data section to fit the new rows", `hdu_table/hdu.rs:812` |
| `FailedWriteTaints` | `MCFitsFile` | a failed create does not taint, and creates ignore the taint (`fits.rs:873`) | `docs/tutorial/errors.rst:73-81` |
| `ValueErrorMeansFine` | `MCFitsFile` | insert_column can raise ValueError after it has rewritten the header (`hdu_table/edit.rs:661`) | `docs/tutorial/errors.rst:124` |
| `SyncIsDurable` | `MCGzHandle` | of two overlapping syncs of a `.gz`, the older may win (`fits.rs:2333`) | "durable mid-session", `fits.rs:2305` |
| `WritersDontRace` | `MCTiledImage` | two threads that change a compressed image: the second commits a section computed before the first (`hdu_image_compressed/write.rs:1778`) | "two threads ... don't race", `docs/tutorial/errors.rst:132` |
| `RejectedCallHarmless` | `MCTiledTable` | a cell that cannot be encoded raises after append has moved the heap (`hdu_table_compressed/append.rs:504`) | `docs/tutorial/errors.rst:124` |
| `EditKeepsStructure` | `MCHeaderEdit` | the end of `edit()` puts back the row count from before an append (`header.rs:2097`) | structural keys are managed, `header.rs:1437` |
| `CommentsWhole` | `MCHeaderEdit` | a comment of 48 to 64 characters on a short value is cut (`header.rs:1222`) | stored or raises, `header.rs:1735` |
| `SpellingKept` | `MCHeaderEdit` | after a blank card the stored spelling of a long keyword is not found (`header.rs:927`) | the existing spelling wins, `header.rs:848` |
| `HcompressLossless` | `MCCodecs` | a tile of one row, which an extend can leave, does not decode (`zimage/hcompress.rs:478`) | "at least 4 pixels", `fits.rs:1500` |
| `ChecksumAlways` | `MCCodecs` | a 1 MiB chunk (`hdu_image.rs:714`) overflows the halves of the sum as soon as the half-words of one column average 0x4000 (`checksum.rs:48`): a release build loses the carry, a debug build panics | "many additions fit in u32 without overflow", `checksum.rs:35` |

One more needs no configuration of its own, because the passing run reaches it: a thread that calls a compressed image while another one's
drain is in `numpy.concatenate` (`hdu_image_compressed/extending.rs:323-343`, with the mutex of the buffer held) waits for that mutex with the GIL in hand, and neither ever goes on. `CallsEnd`
with `\/ Stuck` left out is violated.

## 7. Plan

1. *Proofs.* `ImplementsDict`.
2. *Threads inside FitsFile's operations*: offsets read before Python code runs and
   used after it, against shifts by another thread; the statement of
   `common.rs:229-235` about a single writer.
3. *Ranged reads*: block cache, coalesced fetches and a remote file that changes.
4. *Table reading*: the run planner and heap chunk planner of `hdu_table/read.rs` as operators.
