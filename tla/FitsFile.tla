----------------------------- MODULE FitsFile -----------------------------
(***************************************************************************)
(* One open FITS file: the blocks on disk, the HDU records that the        *)
(* FileLayout and the cards of every HDU object keep in memory, and the    *)
(* operations that change both (src/fits.rs, src/header.rs,                *)
(* src/hdu_image.rs, src/hdu_table/).  The unit is the 2880-byte block.    *)
(* An operation is a fixed program of stages, in the order in which the    *)
(* code performs them; a step is one stage.  Any stage that does I/O may   *)
(* fail, and whether the failure taints the file is the code's choice.     *)
(***************************************************************************)
EXTENDS Integers, Sequences, FiniteSets

CONSTANTS
    CPB,        \* cards in a block (CARDS_PER_BLOCK, 36)
    UPB,        \* units of data in a block
    MinCards,   \* cards of the smallest header, END included
    MaxCards,   \* bound on the cards of a header
    MaxMain,    \* bound on the units of an image or of a table's rows
    MaxHeap,    \* bound on the units of a table's heap
    Kinds,      \* the kinds of HDU that are created
    MaxHdus,    \* bound on the number of HDUs
    MaxBlocks   \* no operation starts on a file longer than this

ASSUME KindsAssumption == Kinds \subseteq {"image", "table", "vla"}
ASSUME CpbAssumption == CPB \in Nat \ {0}
ASSUME UpbAssumption == UPB \in Nat \ {0}
ASSUME CardsAssumption == MinCards \in Nat \ {0} /\ MaxCards \in Nat /\ MinCards <= MaxCards
ASSUME BoundAssumption ==
    MaxMain \in Nat /\ MaxHeap \in Nat /\ MaxHdus \in Nat /\ MaxBlocks \in Nat

VARIABLES
    disk,       \* the blocks of the file, a function on 0 .. flen-1
    flen,       \* the length of the file in blocks
    hdus,       \* per HDU: HduOffsets and the in-memory cards
    tainted,    \* the TaintFlag
    mode,       \* "open" or "closed"
    job,        \* the operation in progress
    torn,       \* history: the error after which the disk was left behind memory
    flaws       \* history: "reopen" once the disk did not give back what memory had,
                \* "heap" once an append of fixed rows met a heap

vars == <<disk, flen, hdus, tainted, mode, job, torn, flaws>>

-----------------------------------------------------------------------------
(* Headers and blocks.                                                     *)

Kind == {"image", "table", "vla"}

\* What the cards of a header say: their number, and NAXISn and PCOUNT.
Cards == [kind : Kind, n : Nat \ {0}, main : Nat, heap : Nat]

\* div_ceil.
CeilDiv(a, b) == (a + b - 1) \div b

HeaderBlocks(c) == CeilDiv(c.n, CPB)
DataBlocks(units) == CeilDiv(units, UPB)
Extent(c) == DataBlocks(c.main + c.heap)

\* A block is the j-th of a serialized header, or written data, or filler.
Header(k, c, j) == [t |-> "header", id |-> k, c |-> c, j |-> j]
Data(k) == [t |-> "data", id |-> k]
Blank == [t |-> "blank"]
Zero == [t |-> "zero"]

Block == [t : {"header"}, id : Nat, c : Cards, j : Nat] \cup [t : {"data"}, id : Nat]
         \cup {Blank, Zero}

HduRec == [hoff : Nat, hblk : Nat \ {0}, doff : Nat, c : Cards]
End(k) == hdus[k].doff + Extent(hdus[k].c)

\* This block carries the END card.
HasEnd(b) == b.t = "header" /\ b.j = HeaderBlocks(b.c) - 1

-----------------------------------------------------------------------------
(* Reading the file back: parse_hdus_from_file.                            *)

\* The blocks a header that starts at p would consist of if it ended at q.
IsHeader(p, q) ==
    /\ disk[p].t = "header" /\ disk[p].j = 0
    /\ HasEnd(disk[q])
    /\ \A i \in p..q : disk[i].t \in {"header", "blank"}
    /\ \A i \in p..(q - 1) : ~HasEnd(disk[i])

\* The first card of a keyword wins, so the shape is that of the first block;
\* every card up to END is kept.
ParsedHdu(p, q) ==
    [hoff |-> p, hblk |-> q - p + 1, doff |-> q + 1,
     c |-> [disk[p].c EXCEPT !.n = (q - p) * CPB + disk[q].c.n - disk[q].j * CPB]]

\* The HDUs from offset p on.  A block that is neither a card image nor the
\* start of a header is an error; a data block is taken to hold some byte that
\* is not printable.
Parse ==
    LET from[p \in Nat] ==
          IF p >= flen THEN [ok |-> TRUE, hdus |-> <<>>]
          ELSE IF \A q \in p..(flen - 1) : ~IsHeader(p, q) THEN [ok |-> FALSE, hdus |-> <<>>]
          ELSE LET h == ParsedHdu(p, CHOOSE q \in p..(flen - 1) : IsHeader(p, q))
                   rest == from[h.doff + Extent(h.c)]
               IN  [ok |-> rest.ok, hdus |-> <<h>> \o rest.hdus]
    IN  from[0]

-----------------------------------------------------------------------------
(* Programs of stages.                                                     *)

NoCards == [kind |-> "image", n |-> 1, main |-> 0, heap |-> 0]
NoJob == [op |-> "none", h |-> 0, c |-> NoCards, pc |-> 0]

\* The stages of every operation, in the code's order.
Program(op) ==
    CASE op = "create" -> <<"append">>
      [] op = "create_first" -> <<"primary", "append">>
      [] op = "header" -> <<"headroom", "rewrite", "commit">>
      [] op = "write" -> <<"data">>
      [] op \in {"extend", "append"} -> <<"room", "puthdr", "commit", "data">>
      [] op \in {"vla", "setitem"} -> <<"room", "data", "puthdr", "commit">>
      [] op = "repack" -> <<"data", "shrink", "puthdr", "commit">>
      [] op = "repack_staged" -> <<"staging", "data", "shrink", "puthdr", "commit">>
      [] op = "insert" -> <<"headroom", "rewrite", "room", "data", "commit">>
      [] op = "delete" -> <<"headroom", "rewrite", "data", "shrink", "commit">>

At(s) == job # NoJob /\ Program(job.op)[job.pc] = s
Done(s) == \A i \in job.pc..Len(Program(job.op)) : Program(job.op)[i] # s

\* The operation takes its snapshot of the cards and works out the new ones, c.
Start(op, k, c) ==
    /\ mode = "open" /\ job = NoJob
    /\ flen <= MaxBlocks
    /\ job' = [op |-> op, h |-> k, c |-> c, pc |-> 1]
    /\ flaws' = flaws \cup IF op = "append" /\ c.heap > 0 THEN {"heap"} ELSE {}
    /\ UNCHANGED <<disk, flen, hdus, tainted, mode, torn>>

\* Every operation on an existing HDU calls check_not_tainted first, by itself or in
\* header_snapshot.
Begin(op, k, c) == ~tainted /\ Start(op, k, c)

\* The stage is over; the last one ends the operation.
Advance == job' = IF job.pc = Len(Program(job.op)) THEN NoJob ELSE [job EXCEPT !.pc = @ + 1]

Card(kind, n, main, heap) == [kind |-> kind, n |-> n, main |-> main, heap |-> heap]

\* create_image_hdu, create_table_hdu, create_ascii_table_hdu: no taint check; an
\* extension in an empty file gets a primary first.
Create(kind, n, main) ==
    /\ Len(hdus) < MaxHdus
    /\ Start(IF hdus = <<>> /\ kind # "image" THEN "create_first" ELSE "create",
             Len(hdus) + 1, Card(kind, n, main, 0))

\* FITSHeader __setitem__, __delitem__, update, FITSHeaderEdit commit.
EditHeader(k, n) ==
    /\ n # hdus[k].c.n
    /\ Begin("header", k, [hdus[k].c EXCEPT !.n = n])

\* ImageHDU write and __setitem__, and the rows of a fixed table: the data section
\* keeps its size.
WriteData(k) ==
    /\ hdus[k].c.kind # "vla"
    /\ Begin("write", k, hdus[k].c)

\* ImageHDU.extend past the end of the slow axis.
ExtendImage(k, main) ==
    /\ hdus[k].c.kind = "image" /\ main > hdus[k].c.main
    /\ Begin("extend", k, [hdus[k].c EXCEPT !.main = main])

\* append_fixed_only.
AppendRows(k, main) ==
    /\ hdus[k].c.kind = "table" /\ main > hdus[k].c.main
    /\ Begin("append", k, [hdus[k].c EXCEPT !.main = main])

\* write_vla_aware: the heap is rewritten from its start.
WriteVla(k, heap) ==
    /\ hdus[k].c.kind = "vla" /\ (heap > 0 => hdus[k].c.main > 0)
    /\ Begin("vla", k, [hdus[k].c EXCEPT !.heap = heap])

\* append_vla_aware: rows and heap both grow.
AppendVla(k, main, heap) ==
    /\ hdus[k].c.kind = "vla" /\ main > hdus[k].c.main /\ heap >= hdus[k].c.heap
    /\ Begin("vla", k, Card("vla", hdus[k].c.n, main, heap))

\* A table __setitem__ on VLA cells appends to the heap.
SetItemVla(k, heap) ==
    /\ hdus[k].c.kind = "vla" /\ heap >= hdus[k].c.heap /\ hdus[k].c.main > 0
    /\ Begin("setitem", k, [hdus[k].c EXCEPT !.heap = heap])

\* repack_table_heap, in place or through a staging area past the heap.
Repack(k, heap, op) ==
    /\ hdus[k].c.kind = "vla" /\ hdus[k].c.main > 0 /\ heap < hdus[k].c.heap
    /\ Begin(op, k, [hdus[k].c EXCEPT !.heap = heap])

\* insert_column_impl; a VLA column brings heap and makes the table a VLA table.
InsertColumn(k, n, main, heap, kind) ==
    LET c == hdus[k].c IN
    /\ c.kind # "image" /\ n > c.n
    /\ IF c.main = 0 THEN main = 0 ELSE main > c.main
    /\ kind \in {c.kind, "vla"}
    /\ heap = c.heap \/ (heap > c.heap /\ main > 0 /\ kind = "vla")
    /\ Begin("insert", k, Card(kind, n, main, heap))

\* delete_column_impl: the heap keeps the bytes of a deleted VLA column, also when
\* it was the last one.
DeleteColumn(k, n, main, kind) ==
    LET c == hdus[k].c IN
    /\ c.kind # "image" /\ n < c.n /\ kind \in {c.kind, "table"}
    /\ IF c.main = 0 THEN main = 0 ELSE main < c.main
    /\ Begin("delete", k, Card(kind, n, main, c.heap))

-----------------------------------------------------------------------------
(* Stages.                                                                 *)

SetLen(n) ==
    /\ flen' = n
    /\ disk' = [p \in 0..(n - 1) |-> IF p < flen THEN disk[p] ELSE Zero]

\* Mutant: the tail is shifted before the file is extended.
ShiftTailInPlace(a, d, fill) ==
    /\ flen' = flen
    /\ disk' = [p \in 0..(flen + d - 1) |-> IF p >= a + d THEN disk[p - d]
                                            ELSE IF p < flen THEN disk[p] ELSE Zero]

\* shift_file_tail_and_update_offsets; the gap still holds what stood there.
\* With fill, zero_fill_range clears it.
ShiftTail(a, d, fill) ==
    LET len == (IF flen < a THEN a ELSE flen) + d IN
    /\ flen' = len
    /\ disk' = [p \in 0..(len - 1) |->
                  IF p >= a + d THEN disk[p - d]
                  ELSE IF p < flen /\ ~(fill /\ p >= a) THEN disk[p] ELSE Zero]

\* Mutant: the HDU that starts at a is taken to lie before it.
MovedPast(a, d) ==
    [k \in DOMAIN hdus |->
       IF hdus[k].hoff > a
       THEN [hdus[k] EXCEPT !.hoff = @ + d, !.doff = @ + d] ELSE hdus[k]]

\* The records at or past a move by d.
Moved(a, d) ==
    [k \in DOMAIN hdus |->
       IF hdus[k].hoff >= a
       THEN [hdus[k] EXCEPT !.hoff = @ + d, !.doff = @ + d] ELSE hdus[k]]

\* Blocks p .. p+m-1 become those of the function b on 0..m-1; a write past the
\* end of a truncated file extends it.
Put(p, m, b) ==
    LET len == IF m > 0 /\ p + m > flen THEN p + m ELSE flen IN
    /\ flen' = len
    /\ disk' = [i \in 0..(len - 1) |->
                  IF i \in p..(p + m - 1) THEN b[i - p]
                  ELSE IF i < flen THEN disk[i] ELSE Zero]

\* append_header_and_data_to_file and finalize_hdu, at the end of the file.
AppendHdu(k, c) ==
    LET hb == HeaderBlocks(c) IN
    /\ flen' = flen + hb + Extent(c)
    /\ disk' = [p \in 0..(flen + hb + Extent(c) - 1) |->
                  IF p < flen THEN disk[p]
                  ELSE IF p < flen + hb THEN Header(k, c, p - flen) ELSE Zero]
    /\ hdus' = Append(hdus, [hoff |-> flen, hblk |-> hb, doff |-> flen + hb, c |-> c])

\* ensure_primary.
StagePrimary ==
    /\ At("primary")
    /\ AppendHdu(1, Card("image", MinCards, 0, 0))
    /\ job' = [job EXCEPT !.h = 2, !.pc = 2]
    /\ UNCHANGED <<tainted, mode, torn, flaws>>

StageAppend ==
    /\ At("append")
    /\ AppendHdu(job.h, job.c)
    /\ Advance
    /\ UNCHANGED <<tainted, mode, torn, flaws>>

\* rewrite_header_to_disk, first half: blocks are inserted when the cards do not
\* fit the reserved ones; reserved blocks are never given back.
HeadDelta == HeaderBlocks(job.c) - hdus[job.h].hblk

\* Mutant: the HDU's own data offset is forgotten.
StageHeadroomForgetful ==
    LET k == job.h  d == HeadDelta  m == Moved(hdus[k].doff, d) IN
    /\ At("headroom")
    /\ IF d > 0
       THEN /\ ShiftTail(hdus[k].doff, d, FALSE)
            /\ hdus' = [m EXCEPT ![k].hblk = @ + d]
       ELSE UNCHANGED <<disk, flen, hdus>>
    /\ Advance
    /\ UNCHANGED <<tainted, mode, torn, flaws>>

StageHeadroom ==
    LET k == job.h  d == HeadDelta  m == Moved(hdus[k].doff, d) IN
    /\ At("headroom")
    /\ IF d > 0
       THEN /\ ShiftTail(hdus[k].doff, d, FALSE)
            /\ hdus' = [m EXCEPT ![k].hblk = @ + d, ![k].doff = @ + d]
       ELSE UNCHANGED <<disk, flen, hdus>>
    /\ Advance
    /\ UNCHANGED <<tainted, mode, torn, flaws>>

\* rewrite_header_to_disk, second half: every reserved block is written, blanks
\* after END.
StageRewrite ==
    LET k == job.h  hb == HeaderBlocks(job.c) IN
    /\ At("rewrite")
    /\ Put(hdus[k].hoff, hdus[k].hblk,
           [i \in 0..(hdus[k].hblk - 1) |-> IF i < hb THEN Header(k, job.c, i) ELSE Blank])
    /\ Advance
    /\ UNCHANGED <<hdus, tainted, mode, torn, flaws>>

\* Mutant: the snapshot is serialized instead of the new cards.
StagePutHeaderStale ==
    LET k == job.h  c == hdus[k].c  hb == HeaderBlocks(c) IN
    /\ At("puthdr")
    /\ Put(hdus[k].doff - hb, hb, [i \in 0..(hb - 1) |-> Header(k, c, i)])
    /\ Advance
    /\ UNCHANGED <<hdus, tainted, mode, torn, flaws>>

\* The serialized header is written so that it ends where the data starts.
StagePutHeader ==
    LET k == job.h  hb == HeaderBlocks(job.c) IN
    /\ At("puthdr")
    /\ Put(hdus[k].doff - hb, hb, [i \in 0..(hb - 1) |-> Header(k, job.c, i)])
    /\ Advance
    /\ UNCHANGED <<hdus, tainted, mode, torn, flaws>>

\* The part of the data section an operation reckons with: append_fixed_only
\* knows only the rows.
Section(op, c) == IF op = "append" THEN DataBlocks(c.main) ELSE Extent(c)
RoomAt == hdus[job.h].doff + Section(job.op, hdus[job.h].c)
RoomDelta == Section(job.op, job.c) - Section(job.op, hdus[job.h].c)

\* Mutant: the gap is not zero-filled.
StageRoomUnfilled ==
    LET d == RoomDelta IN
    /\ At("room")
    /\ IF d <= 0 THEN UNCHANGED <<disk, flen, hdus>>
       ELSE IF flen > RoomAt THEN ShiftTail(RoomAt, d, FALSE) /\ hdus' = Moved(RoomAt, d)
       ELSE SetLen(RoomAt + d) /\ UNCHANGED hdus
    /\ Advance
    /\ UNCHANGED <<tainted, mode, torn, flaws>>

\* The data section grows past its padded end: a tail moves away, the end of the
\* file is extended.
StageRoom ==
    LET d == RoomDelta IN
    /\ At("room")
    /\ IF d <= 0 THEN UNCHANGED <<disk, flen, hdus>>
       ELSE IF flen > RoomAt THEN ShiftTail(RoomAt, d, TRUE) /\ hdus' = Moved(RoomAt, d)
       ELSE SetLen(RoomAt + d) /\ UNCHANGED hdus
    /\ Advance
    /\ UNCHANGED <<tainted, mode, torn, flaws>>

\* A staged repack keeps the old heap and the new one side by side.
StagedExtent(k) ==
    DataBlocks(hdus[k].c.main + hdus[k].c.heap
               + (IF job.op = "repack_staged" THEN job.c.heap ELSE 0))

\* grow_file_to_at_least: room up to the next HDU, or to the end of the file,
\* counts as free.
Following(k) == {hdus[i].hoff : i \in {i \in DOMAIN hdus : hdus[i].hoff > hdus[k].doff}}
FreeUpToEof(k) == flen      \* mutant: the file's padding counts as free
FreeUpTo(k) ==
    IF Following(k) = {} THEN flen ELSE CHOOSE p \in Following(k) : \A q \in Following(k) : p <= q
StagingDelta == hdus[job.h].doff + StagedExtent(job.h) - FreeUpTo(job.h)

StageStaging ==
    LET k == job.h  stop == FreeUpTo(k)  d == StagingDelta IN
    /\ At("staging")
    /\ IF d <= 0 THEN UNCHANGED <<disk, flen, hdus>>
       ELSE IF Following(k) = {} THEN SetLen(stop + d) /\ UNCHANGED hdus
       ELSE ShiftTail(stop, d, FALSE) /\ hdus' = Moved(stop, d)
    /\ Advance
    /\ UNCHANGED <<tainted, mode, torn, flaws>>

\* Rows, pixels and heap are written, moved or compacted inside the section, from
\* block lo of it on.  A write or an extend with a start may touch any end of it, or
\* nothing when the array is empty; an append ends with the last row, and a cell's
\* new heap bytes follow the heap (its descriptor is in the rows, which are data).
FirstBlock(m) ==
    CASE job.op \in {"write", "extend"} -> 0..m
      [] job.op = "append" -> 0..(m - 1)
      [] job.op = "setitem" -> 0..((hdus[job.h].c.main + hdus[job.h].c.heap) \div UPB)
      [] OTHER -> {0}
StageData ==
    LET k == job.h
        m == CASE job.op = "repack_staged" -> StagedExtent(k)
               [] job.op \in {"write", "extend", "append"} -> DataBlocks(job.c.main)
               [] OTHER -> Extent(job.c)
    IN
    /\ At("data")
    /\ \E lo \in FirstBlock(m) :
         Put(hdus[k].doff + lo, m - lo, [i \in 0..(m - lo - 1) |-> Data(k)])
    /\ Advance
    /\ UNCHANGED <<hdus, tainted, mode, torn, flaws>>

\* shift_file_tail_backward_and_update_offsets, or a cut when nothing follows.
ShrinkDelta == StagedExtent(job.h) - Extent(job.c)

StageShrink ==
    LET old == hdus[job.h].doff + StagedExtent(job.h)  d == ShrinkDelta IN
    /\ At("shrink")
    /\ IF d <= 0 THEN UNCHANGED <<disk, flen, hdus>>
       ELSE IF flen > old
       THEN /\ flen' = flen - d
            /\ disk' = [p \in 0..(flen - d - 1) |-> IF p >= old - d THEN disk[p + d] ELSE disk[p]]
            /\ hdus' = Moved(old, -d)
       ELSE SetLen(old - d) /\ UNCHANGED hdus
    /\ Advance
    /\ UNCHANGED <<tainted, mode, torn, flaws>>

\* CardsWriteGuard.commit: the in-memory cards follow the disk.
StageCommit ==
    /\ At("commit")
    /\ hdus' = [hdus EXCEPT ![job.h].c = job.c]
    /\ Advance
    /\ UNCHANGED <<disk, flen, tainted, mode, torn, flaws>>

-----------------------------------------------------------------------------
(* Failures, close and open.                                               *)

\* The operation returns an error e after which memory and disk may differ.
Stop(e) ==
    /\ torn' = e /\ job' = NoJob
    /\ UNCHANGED <<hdus, mode, flaws>>

\* This stage moves a tail, and starts with a set_len whose failure is clean.
ShiftsTail ==
    \/ At("headroom") /\ HeadDelta > 0
    \/ At("room") /\ RoomDelta > 0 /\ flen > RoomAt
    \/ At("staging") /\ StagingDelta > 0 /\ Following(job.h) # {}

\* This stage only extends or cuts the end of the file.
SetsLength ==
    \/ At("room") /\ RoomDelta > 0 /\ flen <= RoomAt
    \/ At("staging") /\ StagingDelta > 0 /\ Following(job.h) = {}

\* A failed read, write or flush, or a set_len that counts as one.  What a half-done
\* write leaves in the file is not described: nothing reads a tainted file.
FailTainted ==
    /\ \/ ShiftsTail
       \/ SetsLength /\ job.op \in {"insert", "repack_staged"}
       \/ At("shrink") /\ ShrinkDelta > 0
       \/ At("rewrite") \/ At("puthdr")
       \/ At("data") /\ Extent(job.c) > 0
    /\ tainted' = TRUE
    /\ Stop("IOError")
    /\ UNCHANGED <<disk, flen>>

\* append, extend: a cell that cannot be encoded, or an array that is not contiguous,
\* is found after the header is committed; whatever the error of write_table_data or
\* write_image_data is, it taints.
RejectLate ==
    /\ At("data") /\ job.op \in {"append", "extend"}
    /\ tainted' = TRUE
    /\ Stop("ValueError")
    /\ UNCHANGED <<disk, flen>>

\* A set_len fails before anything of this stage is touched: no taint.  The column
\* edits have rewritten the header on disk by then.
FailSetLen ==
    /\ \/ ShiftsTail
       \/ SetsLength /\ job.op \notin {"insert", "repack_staged"}
    /\ Stop(IF job.op = "insert" /\ Done("rewrite") THEN "IOError" ELSE torn)
    /\ UNCHANGED <<disk, flen, tainted>>

\* write_image_data (ImageHDU.write) returns an I/O error without tainting;
\* write_image_slice (ImageHDU __setitem__) taints.
FailImageWrite ==
    /\ At("data") /\ job.op = "write" /\ job.c.kind = "image" /\ Extent(job.c) > 0
    /\ Stop(torn)
    /\ UNCHANGED <<disk, flen, tainted>>

\* A cell turns out not to be encodable once room has been made, and for a new column
\* once the header is rewritten: no taint.
RejectCell ==
    /\ At("data") /\ job.c.main > 0
    /\ \/ job.op \in {"vla", "setitem"} /\ Stop(IF RoomDelta > 0 THEN "ValueError" ELSE torn)
       \/ job.op = "insert" /\ Stop("ValueError")
       \/ job.op = "write" /\ job.c.kind = "table" /\ Stop(torn)
    /\ UNCHANGED <<disk, flen, tainted>>

\* append_header_and_data_to_file fails after m blocks of the header: no taint,
\* and no HDU for the blocks that did land.
FailCreate(m) ==
    LET c == IF At("primary") THEN Card("image", MinCards, 0, 0) ELSE job.c IN
    /\ At("primary") \/ At("append")
    /\ m <= HeaderBlocks(c)
    /\ flen' = flen + m
    /\ disk' = [p \in 0..(flen + m - 1) |->
                  IF p < flen THEN disk[p] ELSE Header(Len(hdus) + 1, c, p - flen)]
    /\ Stop(IF m > 0 THEN "IOError" ELSE torn)
    /\ UNCHANGED tainted

\* The process dies between two stages.
Crash ==
    /\ mode = "open" /\ job # NoJob
    /\ mode' = "closed" /\ job' = NoJob /\ torn' = "crash"
    /\ UNCHANGED <<disk, flen, hdus, tainted, flaws>>

Close ==
    /\ mode = "open" /\ job = NoJob
    /\ mode' = "closed"
    /\ UNCHANGED <<disk, flen, hdus, tainted, job, torn, flaws>>

\* FITS.__new__ on an existing file: the layout comes from the disk alone.
Reopen ==
    /\ mode = "closed"
    /\ Parse.ok /\ Parse.hdus # <<>>
    /\ hdus' = Parse.hdus
    /\ mode' = "open" /\ tainted' = FALSE /\ torn' = "none"
    /\ flaws' = flaws \cup IF ~tainted /\ torn = "none" /\ Parse.hdus = hdus
                           THEN {} ELSE {"reopen"}
    /\ UNCHANGED <<disk, flen, job>>

-----------------------------------------------------------------------------

Init ==
    /\ flen = 0 /\ disk = [p \in 0..(flen - 1) |-> Zero]
    /\ hdus = <<>>
    /\ tainted = FALSE /\ mode = "open" /\ job = NoJob
    /\ torn = "none" /\ flaws = {}

Operation ==
    \/ \E kind \in Kinds, n \in MinCards..MaxCards, main \in 0..MaxMain : Create(kind, n, main)
    \/ \E k \in DOMAIN hdus :
         \/ WriteData(k)
         \/ \E n \in MinCards..MaxCards : EditHeader(k, n)
         \/ \E main \in 0..MaxMain : ExtendImage(k, main) \/ AppendRows(k, main)
         \/ \E heap \in 0..MaxHeap :
              \/ WriteVla(k, heap) \/ SetItemVla(k, heap)
              \/ Repack(k, heap, "repack") \/ Repack(k, heap, "repack_staged")
         \/ \E main \in 0..MaxMain, heap \in 0..MaxHeap : AppendVla(k, main, heap)
         \/ \E n \in MinCards..MaxCards, main \in 0..MaxMain, kind \in Kind :
              \/ DeleteColumn(k, n, main, kind)
              \/ \E heap \in 0..MaxHeap : InsertColumn(k, n, main, heap, kind)

StageStep ==
    \/ StagePrimary \/ StageAppend
    \/ StageHeadroom \/ StageRewrite \/ StagePutHeader
    \/ StageRoom \/ StageStaging \/ StageData \/ StageShrink \/ StageCommit

Failure ==
    \/ FailTainted \/ RejectLate \/ FailSetLen \/ FailImageWrite \/ RejectCell
    \/ \E m \in 0..MaxCards : FailCreate(m)

Next == Operation \/ StageStep \/ Failure \/ Crash \/ Close \/ Reopen

Spec == Init /\ [][Next]_vars

-----------------------------------------------------------------------------
(* Properties.                                                             *)

Op == {"none", "create", "create_first", "header", "write", "extend", "append", "vla",
       "setitem", "repack", "repack_staged", "insert", "delete"}
JobRec == [op : Op, h : Nat, c : Cards, pc : 0..5]

TypeOK ==
    /\ flen \in Nat /\ disk \in [0..(flen - 1) -> Block]
    /\ hdus \in Seq(HduRec)
    /\ tainted \in BOOLEAN /\ mode \in {"open", "closed"}
    /\ job \in JobRec
    /\ torn \in {"none", "IOError", "ValueError", "crash"}
    /\ flaws \subseteq {"reopen", "heap"}

\* Memory still describes the file.
Trusted == flaws = {} /\ ~tainted /\ torn # "crash"

\* A header's reserved blocks end where its data starts and hold all its cards.
HeadersFit ==
    \A k \in DOMAIN hdus :
      hdus[k].doff = hdus[k].hoff + hdus[k].hblk /\ HeaderBlocks(hdus[k].c) <= hdus[k].hblk

\* The blocks of data that are HDU k's at this stage of the running operation.
Claim(k) ==
    IF k # job.h THEN Extent(hdus[k].c)
    ELSE IF job.op \in {"repack", "repack_staged", "delete"}
    THEN CASE Done("shrink") -> Extent(job.c)
           [] ~Done("shrink") /\ Done("staging") -> StagedExtent(k)
           [] OTHER -> Extent(hdus[k].c)
    ELSE IF Done("room") /\ Extent(job.c) > Extent(hdus[k].c)
    THEN Extent(job.c) ELSE Extent(hdus[k].c)

Disjoint ==
    \A k \in DOMAIN hdus :
      /\ hdus[k].doff + Claim(k) <= flen
      /\ \A l \in DOMAIN hdus : k < l => hdus[k].doff + Claim(k) <= hdus[l].hoff

\* While the handle is not tainted, no HDU's section reaches into a later HDU or
\* past the end of the file, whatever operations ran and at whatever stage the
\* present one is: every shift, set_len and offset update of the grow and shrink
\* paths fits together.
SectionsDisjoint == Trusted => HeadersFit /\ Disjoint

\* What an operation in progress has already secured for its last stages.
JobFits ==
    job # NoJob =>
      /\ job.op # "none" /\ job.pc \in 1..Len(Program(job.op))
      /\ job.op \in {"create", "create_first"} => job.h = Len(hdus) + 1
      /\ job.op = "create_first" => Len(hdus) = job.pc - 1
      /\ job.op \notin {"create", "create_first"} =>
           LET c == hdus[job.h].c IN
           /\ job.h \in DOMAIN hdus
           /\ Done("headroom") => HeaderBlocks(job.c) <= hdus[job.h].hblk
           /\ job.op \in {"header", "write"} => Extent(job.c) = Extent(c)
           /\ job.op \in {"repack", "repack_staged", "delete"} => Extent(job.c) <= Extent(c)
           /\ job.op = "repack_staged" => c.heap > 0
           /\ job.op = "append" => c.heap = 0 /\ job.c.heap = 0

\* The inductive invariant behind SectionsDisjoint.
LayoutInv ==
    /\ mode = "closed" => job = NoJob
    /\ torn = "crash" => mode = "closed"
    /\ Trusted => /\ flen \in Nat /\ hdus \in Seq(HduRec) /\ job \in JobRec
                  /\ HeadersFit /\ Disjoint /\ JobFits

\* No HDU's data section holds a block of a header or of another HDU: the gap a
\* shift opens is filled before the grown section counts as data.
DataOwned ==
    (Trusted /\ job = NoJob) =>
      \A k \in DOMAIN hdus : \A p \in hdus[k].doff..(End(k) - 1) : disk[p] \in {Data(k), Zero}

\* The blocks of HDU k, wherever they stand.
Image(k) == [i \in 0..(End(k) - hdus[k].hoff - 1) |-> disk[hdus[k].hoff + i]]

\* An operation on one HDU leaves the header and the data of every other HDU as
\* they were, although the later ones move.
OthersIntact ==
    [][Trusted' =>
         \A k \in DOMAIN hdus : k # job.h => Image(k)' = Image(k)]_vars

Settled == mode = "open" /\ job = NoJob /\ ~tainted /\ torn = "none" /\ flaws = {}

\* The header uses its last reserved block; the data section ends where the next
\* HDU, or the end of the file, begins.
Snug(k) == hdus[k].hblk = HeaderBlocks(hdus[k].c)
Tight(k) == End(k) = IF k = Len(hdus) THEN flen ELSE hdus[k + 1].hoff

Agrees == Parse.ok /\ Parse.hdus = hdus

\* A file closed without error and opened again shows the same HDUs with the same
\* cards at the same offsets, when no header or section keeps spare blocks.
ReopenAgrees == Settled /\ (\A k \in DOMAIN hdus : Snug(k) /\ Tight(k)) => Agrees

-----------------------------------------------------------------------------
(* What the documentation says and the code does not do.                   *)

\* "Mutations write through to disk immediately" (FITSHeader), "Persistence across
\* close/reopen" (test_header_mutation.py): also after cards were deleted.
HeaderPersists == Settled /\ (\A k \in DOMAIN hdus : Tight(k)) => Agrees

\* VLA columns "round-trip bit-exactly" (tables.rst): also after a write whose heap
\* is smaller than the one it replaces.
HeapPersists == Settled /\ (\A k \in DOMAIN hdus : Snug(k)) => Agrees

\* "once the write has started and a write_all or flush call fails partway through
\* ... rustfits sets a per-file taint flag" (errors.rst).
FailedWriteTaints == torn = "IOError" => tainted

\* "ValueError / IndexError etc. mean the file is fine, fix the call and retry"
\* (errors.rst): after an insert_column that raises ValueError the file still shows the
\* cards that memory kept.
ValueErrorMeansFine ==
    /\ mode = "open" /\ job = NoJob /\ ~tainted /\ torn = "ValueError" /\ flaws = {}
    /\ \A k \in DOMAIN hdus : Snug(k) /\ Tight(k)
    => Agrees

\* "Grows NAXIS2 in the header and the data section to fit the new rows"
\* (TableHDU.append): the section the header announces stays clear of the next HDU.
AppendFits ==
    ("reopen" \notin flaws /\ ~tainted /\ torn # "crash" /\ job = NoJob) => Disjoint
=============================================================================
