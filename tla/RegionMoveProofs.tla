------------------------- MODULE RegionMoveProofs -------------------------
(***************************************************************************)
(* Proofs about RegionMove, for every file, chunk size and shift distance. *)
(* The inductive invariant is Inv: the file is the one the operation began *)
(* with, except for the part of the destination already written.  A stream *)
(* copy of more than a chunk up over itself (Smears) is followed with a    *)
(* weaker one: its destination holds old bytes and bytes of the source.    *)
(***************************************************************************)
EXTENDS RegionMove, TLAPS

Inv == TypeOK /\ Ordered /\ MoveInv

USE ByteAssumption, ChunkAssumption, DeltasAssumption, MaxLenAssumption

\* Init establishes the invariant.
LEMMA InitInv == Init => Inv
  <1> SUFFICES ASSUME Init PROVE Inv
    OBVIOUS
  <1>1. TypeOK
    <2>1. flen \in Nat /\ 0..flen \subseteq Nat
      BY DEF Init
    <2>2. hoff \in [Hdu -> Nat] /\ doff \in [Hdu -> Nat]
      BY <2>1 DEF Init
    <2>3. tainted \in BOOLEAN /\ op \in Op \cup {"idle"}
      BY DEF Init
    <2>4. src \in Nat /\ dst \in Nat /\ total \in Nat /\ left \in 0..total
      BY DEF Init
    <2> QED BY <2>1, <2>2, <2>3, <2>4 DEF Init, TypeOK
  <1>2. Ordered /\ MoveInv
    BY DEF Init, Ordered, MoveInv
  <1> QED BY <1>1, <1>2 DEF Inv

\* Starting an operation: nothing is written yet, so Written is empty.
LEMMA BeginForwardInv ==
  ASSUME Inv, NEW a \in 0..flen, NEW d \in Deltas, BeginShiftForward(a, d)
  PROVE  Inv'
  <1> USE DEF Inv, BeginShiftForward, Begin, SetLen
  <1>1. TypeOK'
    BY DEF TypeOK, Op, Up
  <1>2. Ordered'
    BY DEF Ordered
  <1>3. MoveInv'
    BY DEF TypeOK, MoveInv, Moved, Smeared, Smears, Safe, Written, Op, Up, Down, Shift
  <1> QED BY <1>1, <1>2, <1>3

\* shift_file_tail_backward_and_update_offsets starts.
LEMMA BeginBackwardInv ==
  ASSUME Inv, NEW a \in 0..flen, NEW d \in Deltas, BeginShiftBackward(a, d)
  PROVE  Inv'
  <1> USE DEF Inv, BeginShiftBackward, Begin
  <1>1. TypeOK'
    BY DEF TypeOK, Op, Down
  <1>2. Ordered'
    BY DEF Ordered
  <1>3. MoveInv'
    BY DEF TypeOK, MoveInv, Moved, Smeared, Smears, Safe, Written, Op, Up, Down, Shift
  <1> QED BY <1>1, <1>2, <1>3

\* relocate_region_forward or relocate_region_backward starts.
LEMMA BeginRelocateInv ==
  ASSUME Inv, NEW s \in 0..flen, NEW t \in 0..flen, NEW n \in 0..flen,
         BeginRelocate(s, t, n)
  PROVE  Inv'
  <1> USE DEF Inv, BeginRelocate, Begin
  <1>1. TypeOK'
    BY DEF TypeOK, Op, Up, Down
  <1>2. Ordered'
    BY DEF Ordered
  <1>3. MoveInv'
    BY DEF TypeOK, MoveInv, Moved, Smeared, Smears, Safe, Written, Op, Up, Down, Shift
  <1> QED BY <1>1, <1>2, <1>3

\* stream_copy_in_file starts.
LEMMA BeginCopyInv ==
  ASSUME Inv, NEW s \in 0..flen, NEW t \in 0..flen, NEW n \in 0..flen,
         BeginStreamCopy(s, t, n)
  PROVE  Inv'
  <1> USE DEF Inv, BeginStreamCopy, Begin
  <1>1. TypeOK'
    BY DEF TypeOK, Op, Down
  <1>2. Ordered'
    BY DEF Ordered
  <1>3. MoveInv'
    BY DEF TypeOK, MoveInv, Moved, Smeared, Smears, Safe, Written, Op, Up, Down, Shift
  <1> QED BY <1>1, <1>2, <1>3

\* The size and the place of a chunk: it lies inside the region.
LEMMA ChunkBounds ==
  ASSUME Inv, op # "idle", left > 0
  PROVE  /\ ChunkLen \in 1..left
         /\ ChunkAt \in 0..(total - ChunkLen)
  BY DEF Inv, TypeOK, ChunkLen, ChunkAt, Least, Op

\* What a chunk writes are bytes of the file, wherever the write stopped.
LEMMA WriteChunkType ==
  ASSUME Inv, op # "idle", left > 0, NEW k \in 0..ChunkLen, WriteChunk(k)
  PROVE  file' \in [0..(flen - 1) -> Byte]
  <1>1. ChunkAt + k <= total /\ ChunkAt >= 0 /\ ChunkAt \in Int /\ k \in Nat
    BY ChunkBounds DEF Inv, TypeOK
  <1>2. Safe
    BY DEF Inv, MoveInv
  <1>3. ASSUME NEW i \in 0..(flen - 1),
               i \in (dst + ChunkAt)..(dst + ChunkAt + k - 1)
        PROVE  i - dst + src \in 0..(flen - 1)
    BY <1>1, <1>2, <1>3 DEF Inv, TypeOK, Safe, Op
  <1> QED BY <1>3 DEF WriteChunk, Inv, TypeOK

\* One chunk is read and written.
LEMMA MoveChunkInv == Inv /\ MoveChunk => Inv'
  <1> SUFFICES ASSUME Inv, MoveChunk PROVE Inv'
    OBVIOUS
  <1> DEFINE n == ChunkLen
  <1>0. op # "idle" /\ left > 0 /\ WriteChunk(n) /\ left' = left - n
    BY DEF MoveChunk
  <1>1. n \in 1..left /\ ChunkAt \in 0..(total - n)
    BY <1>0, ChunkBounds
  <1>2. TypeOK'
    <2>1. file' \in [0..(flen - 1) -> Byte]
      BY <1>0, <1>1, WriteChunkType DEF Inv, TypeOK
    <2> QED BY <2>1, <1>0, <1>1 DEF MoveChunk, Inv, TypeOK
  <1>3. Ordered'
    BY DEF Inv, Ordered, MoveChunk
  <1>4. Safe /\ ~tainted /\ result = "none"
    BY <1>0 DEF Inv, MoveInv
  <1>5. Safe' /\ ~tainted' /\ result' = "none" /\ (Smears' <=> Smears)
    <2>1. total <= CHUNK => left' \in {0, total}
      BY <1>0, <1>4 DEF Inv, TypeOK, Safe, ChunkLen, Least
    <2> QED BY <2>1, <1>4 DEF Safe, Smears, MoveChunk
  <1>6. ASSUME NEW i \in 0..(flen - 1), ~Smears
        PROVE  Moved(i)'
    <2> USE <1>0, <1>1, <1>4, <1>6
    <2>1. Moved(i)
      BY DEF Inv, MoveInv
    <2>2. CASE i \in (dst + ChunkAt)..(dst + ChunkAt + n - 1)
      <3>1. file'[i] = file[i - dst + src]
        BY <2>2 DEF WriteChunk
      <3>2. i - dst + src \in 0..(flen - 1) /\ i - dst + src < beforeLen
        BY <2>2 DEF Inv, TypeOK, Safe
      <3>3. i \in Written'
        BY <2>2 DEF Inv, TypeOK, Written, ChunkAt, MoveChunk, Op, Up, Down
      <3>4. i - dst + src \notin Written
        <4>1. CASE op \in Up
          BY <2>2, <4>1 DEF Inv, TypeOK, Safe, Written, ChunkAt, Up
        <4>2. CASE op \in Down
          <5>1. op \notin Up
            BY <4>2 DEF Up, Down
          <5>2. dst <= src \/ dst >= src + total \/ left = total
            BY <4>2 DEF Down, Safe, Smears, Inv, TypeOK
          <5>3. ChunkAt = total - left /\ Written = dst..(dst + total - left - 1)
            BY <5>1 DEF ChunkAt, Written
          <5> HIDE DEF n
          <5> QED BY <2>2, <5>2, <5>3 DEF Inv, TypeOK
        <4> QED BY <4>1, <4>2 DEF Inv, TypeOK, Op
      <3>5. Moved(i - dst + src)
        BY <3>2 DEF Inv, MoveInv
      <3>6. file[i - dst + src] = before[i - dst + src]
        BY <3>2, <3>4, <3>5 DEF Moved
      <3> QED BY <3>1, <3>3, <3>6 DEF Moved, MoveChunk
    <2>3. CASE i \notin (dst + ChunkAt)..(dst + ChunkAt + n - 1)
      <3>1. file'[i] = file[i]
        BY <2>3 DEF WriteChunk
      <3>2. i \in Written' <=> i \in Written
        BY <2>3 DEF Inv, TypeOK, Safe, Written, ChunkAt, MoveChunk, Op, Up, Down
      <3> QED BY <2>1, <3>1, <3>2 DEF Moved, MoveChunk
    <2> QED BY <2>2, <2>3
  <1>7. ASSUME NEW i \in 0..(flen - 1), Smears
        PROVE  Smeared(i)'
    <2>1. Smeared(i)'  <=> \/ file'[i] = before[i]
                          \/ /\ i \in dst..(dst + total - 1)
                             /\ \E j \in src..(src + total - 1) : file'[i] = before[j]
      BY DEF Smeared, MoveChunk
    <2>2. \A p \in 0..(flen - 1) : Smeared(p)
      BY <1>0, <1>7 DEF Inv, MoveInv
    <2>3. CASE i \in (dst + ChunkAt)..(dst + ChunkAt + n - 1)
      <3>1. file'[i] = file[i - dst + src]
        BY <1>0, <2>3 DEF WriteChunk
      <3>2. i - dst + src \in 0..(flen - 1) /\ i - dst + src \in src..(src + total - 1)
            /\ i \in dst..(dst + total - 1)
        BY <1>1, <1>4, <2>3 DEF Inv, TypeOK, Safe
      <3>3. \E j \in src..(src + total - 1) : file[i - dst + src] = before[j]
        BY <2>2, <3>2 DEF Smeared
      <3> QED BY <2>1, <3>1, <3>2, <3>3
    <2>4. CASE i \notin (dst + ChunkAt)..(dst + ChunkAt + n - 1)
      <3>1. file'[i] = file[i]
        BY <1>0, <2>4 DEF WriteChunk
      <3> QED BY <2>1, <2>2, <3>1 DEF Smeared
    <2> QED BY <2>3, <2>4
  <1>8. MoveInv'
    BY <1>5, <1>6, <1>7 DEF MoveInv, MoveChunk
  <1> QED BY <1>2, <1>3, <1>8 DEF Inv

\* A failed chunk ends the operation; the file stays a file of the same length.
LEMMA FailChunkInv == Inv /\ FailChunk => Inv'
  <1> SUFFICES ASSUME Inv, FailChunk PROVE Inv'
    OBVIOUS
  <1>1. PICK k \in 0..ChunkLen : WriteChunk(k)
    BY DEF FailChunk
  <1>2. file' \in [0..(flen - 1) -> Byte]
    BY <1>1, WriteChunkType DEF FailChunk
  <1> QED BY <1>2 DEF Inv, FailChunk, moveVars, TypeOK, Ordered, MoveInv

\* A failed seek, flush or set_len, and the end of a copy.
LEMMA FailInv == Inv /\ (FailSeek \/ FailFinishShift \/ FinishCopy) => Inv'
  BY DEF Inv, FailSeek, FailFinishShift, FinishCopy, moveVars, TypeOK, Ordered, MoveInv

\* A forward shift flushes and updates the offsets.
LEMMA FinishForwardInv == Inv /\ FinishShiftForward => Inv'
  <1> SUFFICES ASSUME Inv, FinishShiftForward PROVE Inv'
    OBVIOUS
  <1>1. dst - src \in Nat
    BY DEF Inv, TypeOK, MoveInv, Safe, FinishShiftForward, Up
  <1>2. hoff' \in [Hdu -> Nat] /\ doff' \in [Hdu -> Nat] /\ Ordered'
    BY <1>1 DEF Inv, TypeOK, Ordered, FinishShiftForward, UpdateOffsets
  <1> QED BY <1>2 DEF Inv, TypeOK, MoveInv, FinishShiftForward, moveVars

\* A backward shift cuts the file and updates the offsets.
LEMMA FinishBackwardInv == Inv /\ FinishShiftBackward => Inv'
  <1> SUFFICES ASSUME Inv, FinishShiftBackward PROVE Inv'
    OBVIOUS
  <1>1. Safe /\ dst < src /\ src + total = beforeLen /\ flen = beforeLen
    BY DEF Inv, MoveInv, Safe, FinishShiftBackward, Shift
  <1>2. flen - (src - dst) \in Nat /\ flen - (src - dst) <= flen
    BY <1>1 DEF Inv, TypeOK
  <1>3. flen' \in Nat /\ file' \in [0..(flen' - 1) -> Byte]
    BY <1>2 DEF Inv, TypeOK, FinishShiftBackward, SetLen
  <1>4. hoff' \in [Hdu -> Nat] /\ doff' \in [Hdu -> Nat] /\ Ordered'
    BY <1>1 DEF Inv, TypeOK, Ordered, FinishShiftBackward, UpdateOffsets
  <1> QED BY <1>3, <1>4 DEF Inv, TypeOK, MoveInv, FinishShiftBackward, moveVars

\* Every step keeps the invariant.
LEMMA NextInv == Inv /\ [Next]_vars => Inv'
  <1> SUFFICES ASSUME Inv, [Next]_vars PROVE Inv'
    OBVIOUS
  <1>1. CASE UNCHANGED vars
    BY <1>1 DEF Inv, vars, TypeOK, Ordered, MoveInv, Moved, Smeared, Smears, Safe, Written
  <1>2. ASSUME NEW a \in 0..flen, NEW d \in Deltas,
               BeginShiftForward(a, d) \/ BeginShiftBackward(a, d)
        PROVE  Inv'
    BY <1>2, BeginForwardInv, BeginBackwardInv
  <1>3. ASSUME NEW s \in 0..flen, NEW t \in 0..flen, NEW n \in 0..flen,
               BeginRelocate(s, t, n) \/ BeginStreamCopy(s, t, n)
        PROVE  Inv'
    BY <1>3, BeginRelocateInv, BeginCopyInv
  <1> QED
    BY <1>1, <1>2, <1>3, MoveChunkInv, FailChunkInv, FailInv, FinishForwardInv,
       FinishBackwardInv DEF Next

\* The invariant holds in every reachable state.
LEMMA Invariance == Spec => []Inv
  BY InitInv, NextInv, PTL DEF Spec

\* Every variable of the movers keeps its type; in particular no offset record and
\* no file length ever becomes negative when a tail is shifted down.
THEOREM TypeCorrect == Spec => []TypeOK
  <1>1. Inv => TypeOK
    BY DEF Inv
  <1> QED BY <1>1, Invariance, PTL

\* At every moment of a move the file is the one it started from with the chunks
\* written so far in their place (the loops of shift_file_tail and copy_region).
THEOREM MoveInvariance == Spec => []MoveInv
  <1>1. Inv => MoveInv
    BY DEF Inv
  <1> QED BY <1>1, Invariance, PTL

\* The invariant says that what is still to be read is as it was.
LEMMA InvNotClobbered == Inv => SourceNotClobbered
  <1> SUFFICES ASSUME Inv, op # "idle", ~Smears, NEW i \in Unread
               PROVE  file[i] = before[i]
    BY DEF SourceNotClobbered
  <1>1. Safe
    BY DEF Inv, MoveInv
  <1>2. i \in 0..(flen - 1) /\ i < beforeLen /\ i \notin Written
    BY <1>1 DEF Inv, TypeOK, Safe, Smears, Unread, Written, Op, Up, Down, Shift
  <1> QED BY <1>2 DEF Inv, MoveInv, Moved

\* No chunk is ever written over source bytes that were not read yet, whatever the
\* chunk size, the distance and the overlap, except by a stream copy of more than a
\* chunk up over itself, which stream_copy_in_file leaves to its callers to avoid.
THEOREM NeverClobbers == Spec => []SourceNotClobbered
  BY InvNotClobbered, Invariance, PTL

\* A shift that ends untainted has moved the whole tail, kept the prefix, and left
\* every HDU's header byte where its offset record says.
LEMMA WholeStep ==
  ASSUME Inv, Next, op \in Shift, op' = "idle", ~tainted'
  PROVE  Whole
  <1>0. \A i \in 0..(flen - 1) : Moved(i)
    BY DEF Inv, MoveInv, Smears, Shift
  <1>1. CASE FinishShiftForward
    <2>1. left = 0 /\ flen = beforeLen + (dst - src) /\ src < dst
          /\ src + total = beforeLen /\ file' = file /\ flen' = flen
      BY <1>1 DEF Inv, MoveInv, Safe, FinishShiftForward, Shift, Up
    <2>2. Written = dst..(dst + total - 1)
      BY <1>1, <2>1 DEF Written, FinishShiftForward, Up, Inv, TypeOK
    <2>3. \A i \in 0..(src - 1) : file[i] = before[i]
      BY <1>0, <2>1, <2>2 DEF Moved, Inv, TypeOK
    <2>4. \A i \in src..(beforeLen - 1) : file[i + (dst - src)] = before[i]
      <3> TAKE i \in src..(beforeLen - 1)
      <3>1. i + (dst - src) \in 0..(flen - 1) /\ i + (dst - src) \in Written
            /\ (i + (dst - src)) - dst + src = i
        BY <2>1, <2>2 DEF Inv, TypeOK
      <3> QED BY <1>0, <3>1 DEF Moved
    <2>5. \A h \in Hdu : hoff[h] < beforeLen =>
                         hoff'[h] < flen' /\ file[hoff'[h]] = before[hoff[h]]
      BY <1>1, <2>1, <2>3, <2>4 DEF Inv, TypeOK, FinishShiftForward, UpdateOffsets
    <2> QED BY <2>1, <2>3, <2>4, <2>5 DEF Whole, Least, Inv, TypeOK
  <1>2. CASE FinishShiftBackward
    <2>1. left = 0 /\ flen = beforeLen /\ dst < src /\ src + total = beforeLen
          /\ flen' = flen - (src - dst)
          /\ \A h \in Hdu : hoff[h] \notin dst..(src - 1)
      BY <1>2 DEF Inv, MoveInv, Safe, FinishShiftBackward, Shift, SetLen
    <2>2. Written = dst..(dst + total - 1)
      BY <1>2, <2>1 DEF Written, FinishShiftBackward, Up, Inv, TypeOK
    <2>3. \A i \in 0..(flen' - 1) : file'[i] = file[i]
      BY <1>2, <2>1 DEF FinishShiftBackward, SetLen, Inv, TypeOK
    <2>4. \A i \in 0..(dst - 1) : file'[i] = before[i]
      BY <1>0, <2>1, <2>2, <2>3 DEF Moved, Inv, TypeOK
    <2>5. \A i \in src..(beforeLen - 1) : file'[i + (dst - src)] = before[i]
      <3> TAKE i \in src..(beforeLen - 1)
      <3>1. i + (dst - src) \in 0..(flen' - 1) /\ i + (dst - src) \in 0..(flen - 1)
            /\ i + (dst - src) \in Written /\ (i + (dst - src)) - dst + src = i
        BY <2>1, <2>2 DEF Inv, TypeOK
      <3> QED BY <1>0, <2>3, <3>1 DEF Moved
    <2>6. \A h \in Hdu : hoff[h] < beforeLen =>
                         hoff'[h] < flen' /\ file'[hoff'[h]] = before[hoff[h]]
      <3> SUFFICES ASSUME NEW h \in Hdu, hoff[h] < beforeLen
                   PROVE  hoff'[h] < flen' /\ file'[hoff'[h]] = before[hoff[h]]
        OBVIOUS
      <3>1. hoff'[h] = IF hoff[h] >= src THEN hoff[h] + (dst - src) ELSE hoff[h]
        BY <1>2 DEF FinishShiftBackward, UpdateOffsets
      <3>2. hoff[h] \in Nat /\ hoff[h] \notin dst..(src - 1)
        BY <2>1 DEF Inv, TypeOK
      <3>3. CASE hoff[h] >= src
        BY <2>1, <2>5, <3>1, <3>2, <3>3 DEF Inv, TypeOK
      <3>4. CASE hoff[h] < src
        BY <2>1, <2>4, <3>1, <3>2, <3>4 DEF Inv, TypeOK
      <3> QED BY <3>2, <3>3, <3>4 DEF Inv, TypeOK
    <2> QED BY <2>1, <2>4, <2>5, <2>6 DEF Whole, Least, Inv, TypeOK
  <1>3. FinishShiftForward \/ FinishShiftBackward
    BY DEF Next, Shift, Op, BeginShiftForward, BeginShiftBackward, BeginRelocate, BeginStreamCopy,
           Begin, MoveChunk, FailChunk, FailSeek, FailFinishShift, FinishCopy
  <1> QED BY <1>1, <1>2, <1>3

\* A shift that returns moved every byte of the tail by the same distance, together
\* with the offset record of every HDU in it (the return of
\* shift_file_tail_and_update_offsets and of its backward twin).
THEOREM ShiftsAreWhole == Spec => ShiftIsWhole
  <1>1. Inv /\ [Next]_vars => [(op \in Shift /\ op' = "idle" /\ ~tainted') => Whole]_vars
    BY WholeStep
  <1> QED BY <1>1, Invariance, PTL DEF Spec, ShiftIsWhole

-----------------------------------------------------------------------------

\* The start of a move is a call of the atomic edit.
LEMMA CallStep ==
  ASSUME Inv, NEW o \in Op, NEW s \in 0..flen, NEW t \in Nat, NEW n \in 0..(flen - s),
         Begin(o, s, t, n), UNCHANGED <<hoff, doff, tainted>>,
         o \notin Shift => t + n <= flen,
         o \in Shift => n = flen - s,
         o \in Up => t > s,
         o \in {"shift_backward", "relocate_backward"} => t < s
  PROVE  Atomic!Call
  <1>1. op = "idle" /\ ~tainted /\ op' = o /\ op' # "idle"
        /\ src' = s /\ dst' = t /\ total' = n
        /\ result' = "none" /\ before' = file /\ beforeLen' = flen
    BY DEF Begin, Op, Up, Down
  <1>2. Op = Atomic!Copies \cup {"shift_forward", "shift_backward"}
        /\ Shift = {"shift_forward", "shift_backward"}
        /\ Up = {"shift_forward", "relocate_forward"}
        /\ \A x \in Op : x \in Atomic!Copies <=> x \notin Shift
    BY DEF Op, Up, Down, Shift, Atomic!Copies
  <1> QED BY <1>1, <1>2 DEF Atomic!Call

\* The four ways to start.
LEMMA BeginCalls ==
  ASSUME Inv,
         \/ \E a \in 0..flen, d \in Deltas : BeginShiftForward(a, d) \/ BeginShiftBackward(a, d)
         \/ \E s, t, n \in 0..flen : BeginRelocate(s, t, n) \/ BeginStreamCopy(s, t, n)
  PROVE  Atomic!Call
  <1>0. flen \in Nat
    BY DEF Inv, TypeOK
  <1>1. ASSUME NEW a \in 0..flen, NEW d \in Deltas, BeginShiftForward(a, d)
        PROVE  Atomic!Call
    BY <1>0, <1>1, CallStep DEF BeginShiftForward, Op, Up, Down, Shift
  <1>2. ASSUME NEW a \in 0..flen, NEW d \in Deltas, BeginShiftBackward(a, d)
        PROVE  Atomic!Call
    BY <1>0, <1>2, CallStep DEF BeginShiftBackward, Op, Up, Down, Shift
  <1>3. ASSUME NEW s \in 0..flen, NEW t \in 0..flen, NEW n \in 0..flen, BeginRelocate(s, t, n)
        PROVE  Atomic!Call
    <2>1. CASE t > s
      BY <1>0, <1>3, <2>1, CallStep DEF BeginRelocate, Op, Up, Down, Shift
    <2>2. CASE ~(t > s)
      BY <1>0, <1>3, <2>2, CallStep DEF BeginRelocate, Op, Up, Down, Shift
    <2> QED BY <2>1, <2>2
  <1>4. ASSUME NEW s \in 0..flen, NEW t \in 0..flen, NEW n \in 0..flen, BeginStreamCopy(s, t, n)
        PROVE  Atomic!Call
    BY <1>0, <1>4, CallStep DEF BeginStreamCopy, Op, Up, Down, Shift
  <1> QED BY <1>1, <1>2, <1>3, <1>4

\* The file at a failing chunk: every position is as it was or holds what belongs there.
Mixed(i) ==
  \/ i \in dst..(dst + total - 1) /\ file'[i] = before[i - dst + src]
  \/ file'[i] = IF i < beforeLen THEN before[i] ELSE Zero

\* A failing chunk keeps that, wherever the write stopped.
LEMMA MixedStep ==
  ASSUME Inv, FailChunk \/ FailFinishShift, ~Smears, NEW i \in 0..(flen - 1)
  PROVE  Mixed(i)
  <1>0. op # "idle" /\ Safe
    BY DEF FailChunk, FailFinishShift, Shift, Inv, MoveInv
  <1>1. Moved(i)
    BY <1>0 DEF Inv, MoveInv
  <1>2. i \in Written => i \in dst..(dst + total - 1)
    BY DEF Written, Inv, TypeOK
  <1>3. CASE file'[i] = file[i]
    BY <1>1, <1>2, <1>3 DEF Moved, Mixed
  <1>4. CASE file'[i] # file[i]
    <2>1. FailChunk
      BY <1>4 DEF FailFinishShift
    <2>2. PICK k \in 0..ChunkLen : WriteChunk(k)
      BY <2>1 DEF FailChunk
    <2>3. ChunkLen \in 1..left /\ ChunkAt \in 0..(total - ChunkLen) /\ left > 0
      BY <1>0, <2>1, ChunkBounds DEF FailChunk
    <2>4. i \in (dst + ChunkAt)..(dst + ChunkAt + k - 1) /\ file'[i] = file[i - dst + src]
      BY <1>4, <2>2 DEF WriteChunk
    <2>5. i - dst + src \in Unread /\ i \in dst..(dst + total - 1)
      <3>1. CASE op \in Up
        BY <2>3, <2>4, <3>1 DEF Unread, ChunkAt, Inv, TypeOK
      <3>2. CASE op \notin Up
        BY <2>3, <2>4, <3>2 DEF Unread, ChunkAt, Inv, TypeOK
      <3> QED BY <3>1, <3>2
    <2>6. file[i - dst + src] = before[i - dst + src]
      BY <1>0, <2>5, InvNotClobbered DEF SourceNotClobbered
    <2> QED BY <2>4, <2>5, <2>6 DEF Mixed
  <1> QED BY <1>3, <1>4

\* A failing chunk, flush or set_len of a move that does not smear.
LEMMA BreakStep ==
  ASSUME Inv, Inv', FailChunk \/ FailFinishShift, ~Smears
  PROVE  Atomic!Next
  <1>1. op # "idle" /\ op' = "idle" /\ tainted' = TRUE /\ flen' = flen /\ result' = "error"
        /\ UNCHANGED <<hoff, doff, src, dst, total>> /\ Safe
    BY DEF FailChunk, FailFinishShift, Shift, moveVars, Inv, MoveInv
  <1>2. file' \in [0..(flen - 1) -> Byte] /\ op \in Op
    BY <1>1 DEF Inv, TypeOK
  <1>3. \A i \in 0..(flen - 1) : Mixed(i)
    BY MixedStep
  <1> USE DEF Mixed
  <1>0. dst \in Nat /\ total \in Nat /\ beforeLen \in Nat /\ src \in Nat
    BY DEF Inv, TypeOK
  <1>4. Atomic!Return("error")
    BY <1>1 DEF Atomic!Return, Atomic!callVars
  <1>5. CASE op = "shift_forward"
    <2>1. flen = beforeLen + (dst - src)
      BY <1>1, <1>5 DEF Safe
    <2>2. \A i \in 0..(beforeLen + (dst - src) - 1) :
            \/ i >= dst /\ file'[i] = before[i - dst + src]
            \/ file'[i] = IF i < beforeLen THEN before[i] ELSE Zero
      BY <1>3, <1>0, <2>1
    <2> DEFINE e == beforeLen + (dst - src)
    <2>3. flen = e
      BY <2>1
    <2>4. file' \in [0..(e - 1) -> Byte]
      <3> HIDE DEF e
      <3> QED BY <1>2, <2>3
    <2>5. flen' = e
      BY <1>1, <2>1
    <2>6. Atomic!BreakInsert
      BY <1>0, <1>1, <1>4, <1>5, <2>2, <2>4, <2>5 DEF Atomic!BreakInsert
    <2> QED BY <2>6 DEF Atomic!Next
  <1>6. CASE op # "shift_forward"
    <2>1. flen = beforeLen /\ op \in Atomic!Copies \cup {"shift_backward"}
      BY <1>1, <1>2, <1>6 DEF Safe, Op, Up, Down, Atomic!Copies
    <2>2. \A i \in 0..(beforeLen - 1) :
            \/ i \in dst..(dst + total - 1) /\ file'[i] = before[i - dst + src]
            \/ file'[i] = before[i]
      BY <1>3, <1>0, <2>1
    <2>3. Atomic!Break
      BY <1>1, <1>2, <1>4, <2>1, <2>2 DEF Atomic!Break
    <2> QED BY <2>3 DEF Atomic!Next
  <1> QED BY <1>5, <1>6

\* A copy that gives up at a seek has moved one end of the region, or smeared.
LEMMA GiveUpStep ==
  ASSUME Inv, FailSeek, ~Smears
  PROVE  Atomic!Next
  <1>1. op # "idle" /\ op \in Op \ Shift /\ op' = "idle" /\ Safe /\ result' = "error"
        /\ UNCHANGED <<src, dst, total>>
    BY DEF FailSeek, Inv, MoveInv, Op, Up, Down, Shift, moveVars
  <1>2. UNCHANGED <<file, flen, hoff, doff, tainted>> /\ flen = beforeLen
    BY <1>1 DEF FailSeek, Safe, Shift
  <1>3. op \in Atomic!Copies /\ (op \in Up <=> op = "relocate_forward")
    BY <1>1 DEF Op, Up, Down, Shift, Atomic!Copies
  <1> DEFINE k == total - left
  <1> DEFINE done == IF op = "relocate_forward" THEN (dst + total - k)..(dst + total - 1)
                                                ELSE dst..(dst + k - 1)
  <1>4. k \in 0..total /\ done = Written
    BY <1>3 DEF Written, Inv, TypeOK
  <1>5. file = [i \in 0..(beforeLen - 1) |->
                  IF i \in done THEN before[i - dst + src] ELSE before[i]]
    BY <1>1, <1>2, <1>4 DEF Inv, MoveInv, Moved, TypeOK
  <1>6. Atomic!Return("error")
    BY <1>1 DEF Atomic!Return, Atomic!callVars
  <1>7. Atomic!GiveUp
    BY <1>1, <1>2, <1>3, <1>4, <1>5, <1>6 DEF Atomic!GiveUp
  <1> QED BY <1>7 DEF Atomic!Next

\* The end of a copy that smears, however it comes.
LEMMA SmearStep ==
  ASSUME Inv, Inv', FailChunk \/ FailSeek \/ FinishCopy, Smears
  PROVE  Atomic!Next
  <1>1. op = "stream_copy" /\ src < dst /\ dst < src + total /\ CHUNK < total
    BY DEF Smears
  <1>2. op' = "idle" /\ UNCHANGED <<flen, hoff, doff, src, dst, total>> /\ Safe
        /\ flen = beforeLen
        /\ \/ result' = "ok" /\ tainted' = tainted
           \/ result' = "error" /\ tainted' \in BOOLEAN
    BY <1>1 DEF FailChunk, FailSeek, FinishCopy, moveVars, Inv, TypeOK, MoveInv, Safe
  <1>3. file' \in [0..(flen - 1) -> Byte]
    BY <1>2 DEF Inv, TypeOK
  <1>4. \A i \in 0..(flen - 1) : Smeared(i)
    BY <1>1 DEF Inv, MoveInv
  <1>5. ASSUME NEW i \in 0..(flen - 1)
        PROVE  \/ file'[i] = before[i]
               \/ /\ i \in dst..(dst + total - 1)
                  /\ \E j \in src..(src + total - 1) : file'[i] = before[j]
    <2>1. CASE file'[i] = file[i]
      BY <1>4, <2>1 DEF Smeared
    <2>2. CASE file'[i] # file[i]
      <3>1. FailChunk
        BY <2>2 DEF FailSeek, FinishCopy
      <3>2. PICK k \in 0..ChunkLen : WriteChunk(k)
        BY <3>1 DEF FailChunk
      <3>3. ChunkLen \in 1..left /\ ChunkAt \in 0..(total - ChunkLen)
        BY <1>1, <3>1, ChunkBounds DEF FailChunk
      <3>4. i \in (dst + ChunkAt)..(dst + ChunkAt + k - 1) /\ file'[i] = file[i - dst + src]
        BY <2>2, <3>2 DEF WriteChunk
      <3>5. i - dst + src \in 0..(flen - 1) /\ i - dst + src \in src..(src + total - 1)
            /\ i \in dst..(dst + total - 1)
        BY <1>2, <3>3, <3>4 DEF Safe, Inv, TypeOK
      <3>6. \E j \in src..(src + total - 1) : file[i - dst + src] = before[j]
        BY <1>4, <3>5 DEF Smeared
      <3> QED BY <3>4, <3>5, <3>6
    <2> QED BY <2>1, <2>2
  <1>6. Atomic!Smear
    BY <1>1, <1>2, <1>3, <1>5 DEF Atomic!Smear, Atomic!Return, Atomic!callVars
  <1> QED BY <1>6 DEF Atomic!Next

\* A copy that finishes without smearing is one memmove.
LEMMA CopyStep ==
  ASSUME Inv, FinishCopy, ~Smears
  PROVE  Atomic!Next
  <1>1. op # "idle" /\ op \in Op \ Shift /\ op' = "idle" /\ left = 0 /\ Safe
        /\ result' = "ok" /\ UNCHANGED <<src, dst, total>>
    BY DEF FinishCopy, Inv, MoveInv, Op, Up, Down, Shift, moveVars
  <1>2. UNCHANGED <<file, flen, hoff, doff, tainted>> /\ flen = beforeLen
    BY <1>1 DEF FinishCopy, Safe, Shift
  <1>3. op \in Atomic!Copies
    BY <1>1 DEF Op, Up, Down, Shift, Atomic!Copies
  <1>4. Written = dst..(dst + total - 1)
    BY <1>1 DEF Written, Inv, TypeOK
  <1>5. file = [i \in 0..(beforeLen - 1) |->
                  IF i \in dst..(dst + total - 1) THEN before[i - dst + src] ELSE before[i]]
    BY <1>1, <1>2, <1>4 DEF Inv, MoveInv, Moved, TypeOK
  <1>6. Atomic!Copy
    BY <1>1, <1>2, <1>3, <1>5 DEF Atomic!Copy, Atomic!Return, Atomic!callVars
  <1> QED BY <1>6 DEF Atomic!Next

\* A shift that finishes is one insertion or one removal.
LEMMA ShiftStep ==
  ASSUME Inv, Inv', FinishShiftForward \/ FinishShiftBackward
  PROVE  Atomic!Next
  <1>1. op \in Shift /\ op # "idle" /\ op' = "idle" /\ ~tainted /\ tainted' = tainted /\ Safe
        /\ result' = "ok" /\ UNCHANGED <<src, dst, total>>
    BY DEF FinishShiftForward, FinishShiftBackward, Shift, Inv, MoveInv, moveVars
  <1>2. Whole
    BY <1>1, WholeStep DEF Next
  <1>3. Atomic!OffsetsFollow
    BY DEF FinishShiftForward, FinishShiftBackward, UpdateOffsets, Atomic!OffsetsFollow
  <1>4. Atomic!Return("ok")
    BY <1>1 DEF Atomic!Return, Atomic!callVars
  <1>5. CASE FinishShiftForward
    <2>1. op = "shift_forward" /\ flen' = beforeLen + (dst - src) /\ src < dst
      BY <1>1, <1>2, <1>5 DEF FinishShiftForward, Safe, Whole, Up
    <2>2. file' \in [0..(beforeLen + (dst - src) - 1) -> Byte]
      BY <2>1 DEF Inv, TypeOK
    <2>3. /\ \A i \in 0..(src - 1) : file'[i] = before[i]
          /\ \A i \in src..(beforeLen - 1) : file'[i + (dst - src)] = before[i]
      BY <1>2, <2>1 DEF Whole, Least, Inv, TypeOK
    <2>4. Atomic!Insert
      BY <1>1, <1>3, <1>4, <2>1, <2>2, <2>3 DEF Atomic!Insert
    <2> QED BY <2>4 DEF Atomic!Next
  <1>6. CASE FinishShiftBackward
    <2> DEFINE d == src - dst
    <2>1. op = "shift_backward" /\ dst < src /\ flen' = beforeLen - d /\ src <= beforeLen
      BY <1>1, <1>2, <1>6 DEF FinishShiftBackward, Safe, Whole, Inv, TypeOK
    <2>2. file' \in [0..(beforeLen - d - 1) -> Byte]
      BY <2>1 DEF Inv, TypeOK
    <2>3. ASSUME NEW i \in 0..(beforeLen - d - 1)
          PROVE  file'[i] = IF i < dst THEN before[i] ELSE before[i + d]
      <3>1. CASE i < dst
        BY <1>2, <2>1, <3>1 DEF Whole, Least, Inv, TypeOK
      <3>2. CASE ~(i < dst)
        <4>1. i + d \in src..(beforeLen - 1) /\ (i + d) + (dst - src) = i
          BY <2>1, <3>2 DEF Inv, TypeOK
        <4> QED BY <1>2, <3>2, <4>1 DEF Whole
      <3> QED BY <3>1, <3>2
    <2>4. file' = [i \in 0..(beforeLen - d - 1) |->
                     IF i < dst THEN before[i] ELSE before[i + d]]
      BY <2>2, <2>3
    <2>5. Atomic!Remove
      BY <1>1, <1>3, <1>4, <2>1, <2>4 DEF Atomic!Remove
    <2> QED BY <2>5 DEF Atomic!Next
  <1> QED BY <1>5, <1>6

\* Every step is a step of the atomic edit or stutters.
LEMMA NextRefines ==
  ASSUME Inv, Inv', [Next]_vars
  PROVE  [Atomic!Next]_(Atomic!vars)
  <1>1. CASE UNCHANGED vars
    BY <1>1 DEF vars, Atomic!vars
  <1>2. CASE \/ \E a \in 0..flen, d \in Deltas :
                  BeginShiftForward(a, d) \/ BeginShiftBackward(a, d)
             \/ \E s, t, n \in 0..flen : BeginRelocate(s, t, n) \/ BeginStreamCopy(s, t, n)
    BY <1>2, BeginCalls DEF Atomic!Next
  <1>3. CASE MoveChunk
    BY <1>3 DEF MoveChunk, Atomic!vars
  <1>4. CASE FailChunk \/ FailSeek \/ FailFinishShift \/ FinishCopy
    <2>1. Smears => ~FailFinishShift
      BY DEF Smears, FailFinishShift, Shift
    <2> QED BY <1>4, <2>1, BreakStep, GiveUpStep, CopyStep, SmearStep
  <1> QED BY <1>1, <1>2, <1>3, <1>4, ShiftStep DEF Next

\* The chunked movers implement the atomic ones, for every chunk size, file and
\* distance: a call that returns Ok has made exactly the edit it was asked for, a
\* call that fails has left old bytes and bytes in their new place, and only a
\* stream copy of more than a chunk up over itself does otherwise.
THEOREM Refinement == Spec => ImplementsAtomicEdit
  <1>1. Init => Atomic!Init
    BY InitInv DEF Init, Inv, TypeOK, Atomic!Init
  <1>2. Inv /\ Inv' /\ [Next]_vars => [Atomic!Next]_(Atomic!vars)
    BY NextRefines
  <1> QED BY <1>1, <1>2, Invariance, PTL DEF Spec, ImplementsAtomicEdit, Atomic!Spec
=============================================================================
