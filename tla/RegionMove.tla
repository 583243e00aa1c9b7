---------------------------- MODULE RegionMove ----------------------------
(***************************************************************************)
(* The chunked in-file byte movers: shift_file_tail_and_update_offsets,    *)
(* shift_file_tail_backward_and_update_offsets and stream_copy_in_file of  *)
(* src/common.rs, relocate_region_forward and relocate_region_backward of  *)
(* src/hdu_table/edit.rs.  Each reads a chunk into a buffer and writes it  *)
(* back elsewhere in the same file; source and destination overlap, so the *)
(* order of the chunks decides whether bytes survive.  One step is one     *)
(* chunk, and every seek, read, write, flush and set_len may fail.         *)
(***************************************************************************)
EXTENDS Integers

CONSTANTS
    Hdu,     \* the HDUs that have an offset record in the FileLayout
    Byte,    \* what one position of the file may hold
    Zero,    \* what set_len fills new space with
    CHUNK,   \* the buffer size (1 MiB in the code)
    Deltas,  \* the distances a tail may be shifted by
    MaxLen   \* bound on the length of the file

ASSUME ByteAssumption == Zero \in Byte
ASSUME ChunkAssumption == CHUNK \in Nat \ {0}
ASSUME DeltasAssumption == Deltas \subseteq Nat \ {0}
ASSUME MaxLenAssumption == MaxLen \in Nat

VARIABLES
    file,       \* the bytes, a function on 0 .. flen-1
    flen,       \* the length of the file
    hoff,       \* HduOffsets.header_offset of every HDU
    doff,       \* HduOffsets.data_offset of every HDU
    tainted,    \* the file-wide TaintFlag
    op,         \* the running operation, or "idle"
    result,     \* what the last one returned: "ok" or "error", "none" while it runs
    src,        \* start of the region being moved
    dst,        \* where that start lands
    total,      \* bytes to move
    left,       \* bytes not moved yet
    before,     \* history: the file when the operation began
    beforeLen   \* history: its length

vars == <<file, flen, hoff, doff, tainted, op, result, src, dst, total, left,
          before, beforeLen>>
moveVars == <<src, dst, total, left, before, beforeLen>>

\* Operations that walk back to front, and operations that walk front to back.
Up == {"shift_forward", "relocate_forward"}
Down == {"shift_backward", "relocate_backward", "stream_copy"}
Shift == {"shift_forward", "shift_backward"}
Op == Up \cup Down

Least(a, b) == IF a < b THEN a ELSE b

Init ==
    /\ flen \in 0..MaxLen
    /\ file \in [0..(flen - 1) -> Byte]
    /\ hoff \in [Hdu -> 0..flen]
    /\ doff \in [Hdu -> 0..flen]
    /\ \A h \in Hdu : hoff[h] < doff[h]
    /\ tainted = FALSE
    /\ op = "idle" /\ result = "none"
    /\ src = 0 /\ dst = 0 /\ total = 0 /\ left = 0
    /\ before = file /\ beforeLen = flen

-----------------------------------------------------------------------------

Begin(o, s, t, n) ==
    /\ op = "idle" /\ ~tainted
    /\ op' = o /\ result' = "none" /\ src' = s /\ dst' = t /\ total' = n /\ left' = n
    /\ before' = file /\ beforeLen' = flen

\* set_len(n): cut, or extend with zeros.
SetLen(n) ==
    /\ flen' = n
    /\ file' = [i \in 0..(n - 1) |-> IF i < flen THEN file[i] ELSE Zero]

\* The file is extended by d before any byte of the tail [a, EOF) moves.
BeginShiftForward(a, d) ==
    /\ a <= flen /\ flen + d <= MaxLen
    /\ Begin("shift_forward", a, a + d, flen - a)
    /\ SetLen(flen + d)
    /\ UNCHANGED <<hoff, doff, tainted>>

\* The caller drops the d bytes before a, the free end of a data section:
\* no header starts there.
BeginShiftBackward(a, d) ==
    /\ d <= a /\ a <= flen
    /\ \A h \in Hdu : hoff[h] \notin (a - d)..(a - 1)
    /\ Begin("shift_backward", a, a - d, flen - a)
    /\ UNCHANGED <<file, flen, hoff, doff, tainted>>

\* The heap of a table moves inside a data section that is large enough.
BeginRelocate(s, t, n) ==
    /\ n > 0 /\ s + n <= flen /\ t + n <= flen /\ s # t
    /\ Begin(IF t > s THEN "relocate_forward" ELSE "relocate_backward", s, t, n)
    /\ UNCHANGED <<file, flen, hoff, doff, tainted>>

\* The caller chooses source and destination freely; see Smears.
BeginStreamCopy(s, t, n) ==
    /\ n > 0 /\ s + n <= flen /\ t + n <= flen
    /\ Begin("stream_copy", s, t, n)
    /\ UNCHANGED <<file, flen, hoff, doff, tainted>>

-----------------------------------------------------------------------------

\* The next chunk: its size, and its position relative to src and dst.
ChunkLen == Least(left, CHUNK)
ChunkAtFrontFirst == total - left     \* mutant: every move walks front to back
ChunkAt == IF op \in Up THEN left - ChunkLen ELSE total - left

\* Mutant: the last byte of a chunk is not written.
WriteChunkShort(k) ==
    file' = [i \in 0..(flen - 1) |->
               IF i \in (dst + ChunkAt)..(dst + ChunkAt + k - 2)
               THEN file[i - dst + src] ELSE file[i]]

\* read_exact of the chunk at src, write_all of its first k bytes at dst.
WriteChunk(k) ==
    file' = [i \in 0..(flen - 1) |->
               IF i \in (dst + ChunkAt)..(dst + ChunkAt + k - 1)
               THEN file[i - dst + src] ELSE file[i]]

\* Mutant: the last chunk is counted as a full one.
MoveChunkFull ==
    /\ op # "idle" /\ left > 0
    /\ WriteChunk(ChunkLen)
    /\ left' = left - CHUNK
    /\ UNCHANGED <<flen, hoff, doff, tainted, op, result, src, dst, total, before,
                   beforeLen>>

MoveChunk ==
    /\ op # "idle" /\ left > 0
    /\ WriteChunk(ChunkLen)
    /\ left' = left - ChunkLen
    /\ UNCHANGED <<flen, hoff, doff, tainted, op, result, src, dst, total, before,
                   beforeLen>>

\* A seek, read or write error taints; the write may have stored a prefix.
FailChunk ==
    /\ op # "idle" /\ left > 0
    /\ \E k \in 0..ChunkLen : WriteChunk(k)
    /\ tainted' = TRUE
    /\ op' = "idle" /\ result' = "error"
    /\ UNCHANGED <<flen, hoff, doff>> /\ UNCHANGED moveVars

\* Outside the shifts a seek error is returned without tainting.
FailSeek ==
    /\ op \in Op \ Shift /\ left > 0
    /\ op' = "idle" /\ result' = "error"
    /\ UNCHANGED <<file, flen, hoff, doff, tainted>> /\ UNCHANGED moveVars

\* Mutant: the HDU that starts exactly at the insertion point stays behind.
UpdateOffsetsPast(a, d) ==
    /\ hoff' = [h \in Hdu |-> IF hoff[h] > a THEN hoff[h] + d ELSE hoff[h]]
    /\ doff' = [h \in Hdu |-> IF hoff[h] > a THEN doff[h] + d ELSE doff[h]]

\* Every record at or past position a follows its bytes by d.
UpdateOffsets(a, d) ==
    /\ hoff' = [h \in Hdu |-> IF hoff[h] >= a THEN hoff[h] + d ELSE hoff[h]]
    /\ doff' = [h \in Hdu |-> IF hoff[h] >= a THEN doff[h] + d ELSE doff[h]]

FinishShiftForward ==
    /\ op = "shift_forward" /\ left = 0
    /\ UpdateOffsets(src, dst - src)
    /\ op' = "idle" /\ result' = "ok"
    /\ UNCHANGED <<file, flen, tainted>> /\ UNCHANGED moveVars

\* The tail has moved down: cut the file, then move the records.
FinishShiftBackward ==
    /\ op = "shift_backward" /\ left = 0
    /\ SetLen(flen - (src - dst))
    /\ UpdateOffsets(src, dst - src)
    /\ op' = "idle" /\ result' = "ok"
    /\ UNCHANGED tainted /\ UNCHANGED moveVars

\* The flush after the loop, or the final set_len, fails.
FailFinishShift ==
    /\ op \in Shift /\ left = 0
    /\ op = "shift_backward" \/ total > 0
    /\ tainted' = TRUE
    /\ op' = "idle" /\ result' = "error"
    /\ UNCHANGED <<file, flen, hoff, doff>> /\ UNCHANGED moveVars

\* Mutant: the loop runs as long as there is a full chunk to move.
FinishCopyShort ==
    /\ op \in Op \ Shift /\ left < CHUNK
    /\ op' = "idle" /\ result' = "ok"
    /\ UNCHANGED <<file, flen, hoff, doff, tainted>> /\ UNCHANGED moveVars

FinishCopy ==
    /\ op \in Op \ Shift /\ left = 0
    /\ op' = "idle" /\ result' = "ok"
    /\ UNCHANGED <<file, flen, hoff, doff, tainted>> /\ UNCHANGED moveVars

Next ==
    \/ \E a \in 0..flen, d \in Deltas : BeginShiftForward(a, d) \/ BeginShiftBackward(a, d)
    \/ \E s, t, n \in 0..flen : BeginRelocate(s, t, n) \/ BeginStreamCopy(s, t, n)
    \/ MoveChunk \/ FailChunk \/ FailSeek
    \/ FinishShiftForward \/ FinishShiftBackward \/ FailFinishShift \/ FinishCopy

Spec == Init /\ [][Next]_vars

-----------------------------------------------------------------------------

TypeOK ==
    /\ flen \in Nat /\ file \in [0..(flen - 1) -> Byte]
    /\ hoff \in [Hdu -> Nat] /\ doff \in [Hdu -> Nat]
    /\ tainted \in BOOLEAN
    /\ op \in Op \cup {"idle"} /\ result \in {"none", "ok", "error"}
    /\ src \in Nat /\ dst \in Nat /\ total \in Nat /\ left \in 0..total
    /\ beforeLen \in Nat /\ before \in [0..(beforeLen - 1) -> Byte]

\* Positions of the source that the running operation still has to read.
Unread ==
    IF op \in Up THEN src..(src + left - 1)
                 ELSE (src + total - left)..(src + total - 1)

\* The copy breaks the condition that the comment above stream_copy_in_file leaves to
\* its caller: it goes up over itself and is longer than a chunk.
Smears ==
    op = "stream_copy" /\ src < dst /\ dst < src + total /\ CHUNK < total

\* The claim of the comment above shift_file_tail_and_update_offsets, and of
\* stream_copy_in_file where its caller keeps the condition: no chunk is written
\* over source bytes that have not been read yet.
SourceNotClobbered ==
    op # "idle" /\ ~Smears => \A i \in Unread : file[i] = before[i]

\* Positions of the destination already written.
Written ==
    IF op \in Up THEN (dst + left)..(dst + total - 1)
                 ELSE dst..(dst + total - left - 1)

\* Where the region lies, before and after, for every operation.
Safe ==
    /\ src + total <= beforeLen
    /\ dst + total <= flen
    /\ op \in Up => dst > src
    /\ op = "relocate_backward" => dst < src
    /\ total <= CHUNK => left \in {0, total}
    /\ op \in Shift => src + total = beforeLen
    /\ op = "shift_forward" => (dst - src \in Deltas /\ flen = beforeLen + (dst - src))
    /\ op = "shift_backward" =>
         (dst < src /\ src - dst \in Deltas /\ \A h \in Hdu : hoff[h] \notin dst..(src - 1))
    /\ op # "shift_forward" => flen = beforeLen

\* A header comes before its data.
Ordered == \A h \in Hdu : hoff[h] < doff[h]

\* Position i as a copy without overlap leaves it.
Moved(i) ==
    file[i] = IF i \in Written THEN before[i - dst + src]
              ELSE IF i < beforeLen THEN before[i] ELSE Zero

\* Position i in a copy that smears: as it was, or some byte of the source.
Smeared(i) ==
    \/ file[i] = before[i]
    \/ /\ i \in dst..(dst + total - 1)
       /\ \E j \in src..(src + total - 1) : file[i] = before[j]

\* The inductive invariant: the file is the one the operation began with, except
\* for the written part of the destination, which holds the part of the source that
\* belongs there; or, when a stream copy smears, some bytes of the source.
MoveInv ==
    op # "idle" =>
      /\ Safe /\ ~tainted /\ result = "none"
      /\ \A i \in 0..(flen - 1) : IF Smears THEN Smeared(i) ELSE Moved(i)

\* The step ends a shift whose tail stands whole at its new place, whose prefix is
\* as it was, and after which every HDU still finds at its header offset the byte
\* it found there before.
Whole ==
    /\ flen' = beforeLen + (dst - src)
    /\ \A i \in 0..(Least(src, dst) - 1) : file'[i] = before[i]
    /\ \A i \in src..(beforeLen - 1) : file'[i + (dst - src)] = before[i]
    /\ \A h \in Hdu : hoff[h] < beforeLen =>
                     hoff'[h] < flen' /\ file'[hoff'[h]] = before[hoff[h]]

\* A shift either completes, or it leaves the file tainted: the "Taint semantics"
\* of the two shift functions of src/common.rs.
ShiftIsWhole ==
    [][(op \in Shift /\ op' = "idle" /\ ~tainted') => Whole]_vars

\* The caller sees the file before the operation or after it, never between.
Atomic == INSTANCE AtomicEdit WITH
            file <- IF op = "idle" THEN file ELSE before,
            flen <- IF op = "idle" THEN flen ELSE beforeLen

\* The chunked movers implement the atomic ones: a shift or a copy happens at once
\* with the records that follow it, or it fails and every byte is the old one or the
\* one that belongs there; only a stream copy up over itself does otherwise.
ImplementsAtomicEdit == Atomic!Spec
=============================================================================
