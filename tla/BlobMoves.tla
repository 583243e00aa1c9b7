---------------------------- MODULE BlobMoves -----------------------------
(***************************************************************************)
(* How the repack of a compressed HDU moves the live blobs of its heap     *)
(* (hdu_image_compressed/repack.rs, and hdu_table_compressed/repack.rs for *)
(* a table without variable-length columns): the blobs by their old        *)
(* offsets, each copied in chunks, front first, in place or through a      *)
(* staging area behind the heap.  A plan is [old, new, n], offsets from 0; *)
(* a heap is a sequence of units.                                          *)
(***************************************************************************)
EXTENDS PrefixSums, FiniteSets

\* n units are read into the buffer, then written.
CopyChunk(h, src, dst, n) ==
    [p \in DOMAIN h |-> IF p \in (dst + 1)..(dst + n) THEN h[src + p - dst] ELSE h[p]]

\* stream_copy_in_file: one chunk after the other, from the front.
StreamCopy(h, m, chunk) ==
    LET loop[j \in 0..m.n] ==
          IF j = 0 THEN [at |-> 0, h |-> h]
          ELSE LET s    == loop[j - 1]
                   take == IF m.n - s.at < chunk THEN m.n - s.at ELSE chunk
               IN  [at |-> s.at + take, h |-> CopyChunk(s.h, m.src + s.at, m.dst + s.at, take)]
    IN  loop[m.n].h

\* The moves [src, dst, n], one after the other.
CopyAll(h, moves, chunk) ==
    LET run[k \in 0..Len(moves)] ==
          IF k = 0 THEN h ELSE StreamCopy(run[k - 1], moves[k], chunk)
    IN  run[Len(moves)]

\* The blobs that are not empty, and how many of them sort_by_key puts before blob b: it
\* is stable.
LivePlans(plans) == {b \in DOMAIN plans : plans[b].n > 0}
PlansBefore(plans, b) ==
    {a \in LivePlans(plans) :
       plans[a].old < plans[b].old \/ (plans[a].old = plans[b].old /\ a < b)}
PlanAt(plans, k) ==
    CHOOSE b \in LivePlans(plans) : Cardinality(PlansBefore(plans, b)) = k - 1
SortedPlans(plans) == [k \in 1..Cardinality(LivePlans(plans)) |-> plans[PlanAt(plans, k)]]

\* Mutant: the check looks at where the blobs start.
InPlaceSafeStarts(s, end) ==
    \A i \in DOMAIN s : s[i].new <= IF i < Len(s) THEN s[i + 1].old ELSE end

\* fast_path_safe: no blob is written over the next one.
InPlaceSafe(s, end) ==
    \A i \in DOMAIN s : s[i].new + s[i].n <= IF i < Len(s) THEN s[i + 1].old ELSE end

\* The moves in place (one onto itself changes nothing: the code skips it), to the
\* staging area at base, and back.
MovesInPlace(s) == [k \in DOMAIN s |-> [src |-> s[k].old, dst |-> s[k].new, n |-> s[k].n]]
ToStage(s, base) == [k \in DOMAIN s |-> [src |-> s[k].old, dst |-> base + s[k].new, n |-> s[k].n]]
FromStage(s, base) == [k \in DOMAIN s |-> [src |-> base + s[k].new, dst |-> s[k].new, n |-> s[k].n]]

\* What the moves make of a heap.  Staging first grows the section; what the new room holds
\* is never read.
CopiedHeap(h, plans, size, chunk) ==
    LET s      == SortedPlans(plans)
        grown  == h \o [p \in 1..size |-> h[1]]
        staged == CopyAll(grown, ToStage(s, Len(h)), chunk)
    IN  IF InPlaceSafe(s, Len(h)) THEN CopyAll(h, MovesInPlace(s), chunk)
        ELSE CopyAll(staged, FromStage(s, Len(h)), chunk)

\* Mutant: the section is not cut.
MovedHeapUncut(h, plans, size, chunk) == CopiedHeap(h, plans, size, chunk)

\* The heap once the blobs are where their plans say, cut to size.
MovedHeap(h, plans, size, chunk) == SubSeq(CopiedHeap(h, plans, size, chunk), 1, size)

\* A blob longer than a chunk moves up, in place, onto its own end: a chunk is written
\* over units that are still to be read.
Clobbers(plans, end, chunk) ==
    LET s == SortedPlans(plans) IN
    /\ InPlaceSafe(s, end)
    /\ \E i \in DOMAIN s : s[i].old < s[i].new /\ s[i].new < s[i].old + s[i].n /\ s[i].n > chunk
=============================================================================
