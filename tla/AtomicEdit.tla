---------------------------- MODULE AtomicEdit ----------------------------
(***************************************************************************)
(* What the in-file byte movers of src/common.rs and src/hdu_table/edit.rs *)
(* promise whoever calls them.  A call that returns Ok has moved the whole *)
(* region in one step, and a shift the offset records with it.  A call     *)
(* that returns an error leaves the records alone and, at every position,  *)
(* the old byte or the one that belongs there; it taints the file, unless  *)
(* it is a copy that stopped between two chunks.  A stream copy of more    *)
(* than a chunk up over itself promises less (Smear).  RegionMove, the     *)
(* chunked implementation, is shown to implement this specification.       *)
(***************************************************************************)
EXTENDS Integers

CONSTANTS
    Hdu,    \* the HDUs that have an offset record in the FileLayout
    Byte,   \* what one position of the file may hold
    Zero,   \* what set_len fills new space with
    CHUNK   \* the longest stream copy that may go up over itself

VARIABLES
    file,    \* the bytes, a function on 0 .. flen-1
    flen,    \* the length of the file
    hoff,    \* HduOffsets.header_offset of every HDU
    doff,    \* HduOffsets.data_offset of every HDU
    tainted, \* the file-wide TaintFlag
    op,      \* the mover that was called, or "idle"
    result,  \* what it returned: "ok" or "error", "none" before it does
    src,     \* its arguments: start of the region,
    dst,     \* where that start is to land
    total    \* and how many bytes are to move

vars == <<file, flen, hoff, doff, tainted, op, result, src, dst, total>>
callVars == <<src, dst, total>>

Copies == {"relocate_forward", "relocate_backward", "stream_copy"}

Init ==
    /\ flen \in Nat
    /\ file \in [0..(flen - 1) -> Byte]
    /\ hoff \in [Hdu -> Nat]
    /\ doff \in [Hdu -> Nat]
    /\ tainted = FALSE
    /\ op = "idle" /\ result = "none"
    /\ src = 0 /\ dst = 0 /\ total = 0

\* A mover is called: a shift takes everything from src to the end of the file.
Call ==
    /\ op = "idle" /\ ~tainted
    /\ op' \in Copies \cup {"shift_forward", "shift_backward"}
    /\ result' = "none"
    /\ src' \in 0..flen /\ dst' \in Nat /\ total' \in 0..(flen - src')
    /\ op' \in Copies => dst' + total' <= flen
    /\ op' \notin Copies => total' = flen - src'
    /\ op' \in {"shift_forward", "relocate_forward"} => dst' > src'
    /\ op' \in {"shift_backward", "relocate_backward"} => dst' < src'
    /\ UNCHANGED <<file, flen, hoff, doff, tainted>>

Return(r) == op' = "idle" /\ result' = r /\ UNCHANGED callVars

\* Every record at or past src follows its bytes.
OffsetsFollow ==
    /\ hoff' = [h \in Hdu |-> IF hoff[h] >= src THEN hoff[h] + (dst - src) ELSE hoff[h]]
    /\ doff' = [h \in Hdu |-> IF hoff[h] >= src THEN doff[h] + (dst - src) ELSE doff[h]]

\* Open a gap at src: the tail moves up, what the gap holds is unspecified.
Insert ==
    /\ op = "shift_forward"
    /\ flen' = flen + (dst - src)
    /\ file' \in [0..(flen + (dst - src) - 1) -> Byte]
    /\ \A i \in 0..(src - 1) : file'[i] = file[i]
    /\ \A i \in src..(flen - 1) : file'[i + (dst - src)] = file[i]
    /\ OffsetsFollow
    /\ Return("ok") /\ UNCHANGED tainted

\* Drop the bytes between dst and src: the tail moves down over them.
Remove ==
    /\ op = "shift_backward"
    /\ flen' = flen - (src - dst)
    /\ file' = [i \in 0..(flen - (src - dst) - 1) |->
                   IF i < dst THEN file[i] ELSE file[i + (src - dst)]]
    /\ OffsetsFollow
    /\ Return("ok") /\ UNCHANGED tainted

\* The destination holds what the source held.
Copy ==
    /\ op \in Copies
    /\ file' = [i \in 0..(flen - 1) |->
                   IF i \in dst..(dst + total - 1) THEN file[i - dst + src] ELSE file[i]]
    /\ Return("ok") /\ UNCHANGED <<flen, hoff, doff, tainted>>

\* An insertion failed after the file was extended: a position below the old end
\* holds its byte or the one that belongs there, a new one zero or that byte.
BreakInsert ==
    /\ op = "shift_forward"
    /\ flen' = flen + (dst - src)
    /\ file' \in [0..(flen + (dst - src) - 1) -> Byte]
    /\ \A i \in 0..(flen + (dst - src) - 1) :
         \/ i >= dst /\ file'[i] = file[i - dst + src]
         \/ file'[i] = IF i < flen THEN file[i] ELSE Zero
    /\ Return("error") /\ tainted' = TRUE /\ UNCHANGED <<hoff, doff>>

\* A removal failed before the file was cut, or a copy failed in a chunk.
Break ==
    /\ op \in Copies \cup {"shift_backward"}
    /\ file' \in [0..(flen - 1) -> Byte]
    /\ \A i \in 0..(flen - 1) :
         \/ i \in dst..(dst + total - 1) /\ file'[i] = file[i - dst + src]
         \/ file'[i] = file[i]
    /\ Return("error") /\ tainted' = TRUE /\ UNCHANGED <<flen, hoff, doff>>

\* A copy gave up between two chunks, untainted: its first k bytes, or its last k
\* bytes when it moves up from the back, are in place and the rest is as it was.
GiveUp ==
    /\ op \in Copies
    /\ \E k \in 0..total :
         LET done == IF op = "relocate_forward"
                     THEN (dst + total - k)..(dst + total - 1)
                     ELSE dst..(dst + k - 1)
         IN  file' = [i \in 0..(flen - 1) |->
                         IF i \in done THEN file[i - dst + src] ELSE file[i]]
    /\ Return("error") /\ UNCHANGED <<flen, hoff, doff, tainted>>

\* A front-first copy of more than a chunk up over itself, finished or failed: the
\* destination holds old bytes and bytes of the source in some order.
Smear ==
    /\ op = "stream_copy" /\ src < dst /\ dst < src + total /\ CHUNK < total
    /\ file' \in [0..(flen - 1) -> Byte]
    /\ \A i \in 0..(flen - 1) :
         \/ file'[i] = file[i]
         \/ /\ i \in dst..(dst + total - 1)
            /\ \E j \in src..(src + total - 1) : file'[i] = file[j]
    /\ \/ Return("ok") /\ UNCHANGED tainted
       \/ Return("error") /\ tainted' \in BOOLEAN
    /\ UNCHANGED <<flen, hoff, doff>>

Next == Call \/ Insert \/ Remove \/ Copy \/ BreakInsert \/ Break \/ GiveUp \/ Smear

Spec == Init /\ [][Next]_vars
=============================================================================
