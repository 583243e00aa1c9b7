---------------------------- MODULE MCFitsFile ----------------------------
(* FitsFile for model checking.                                            *)
EXTENDS FitsFile, FiniteSetsExt

CONSTANT MaxSpare   \* bound on the blocks that belong to no HDU

Spare == flen - MapThenSumSet(LAMBDA k : hdus[k].hblk + Extent(hdus[k].c), DOMAIN hdus)

\* The cards of all HDUs, and those of the running operation.
InPlay == {hdus[k].c : k \in DOMAIN hdus} \cup IF job = NoJob THEN {} ELSE {job.c}

\* Three regions of the state space, searched together: files of images; files in
\* which headers grow and shrink around small tables; files in which headers stay at
\* one block around tables of several blocks.
Short == job = NoJob => flen <= 5
OnlyImages == \A c \in InPlay : c.kind = "image"
SmallTables ==
    \A c \in InPlay : IF c.kind = "image" THEN c.main = 0 ELSE c.main <= 1 /\ c.heap <= 1
SmallHeaders ==
    /\ \A c \in InPlay : c.n = MinCards /\ (c.kind = "image" => c.main <= 1)
    /\ \A k \in DOMAIN hdus : hdus[k].hblk = 1

\* Failed creates and loose sections leave spare blocks: not too many of them.
\* No property says anything of a session that began with a file the session
\* before it had left in disorder, so there the search stops.
Explored ==
    /\ flaws = {}
    /\ job = NoJob => Spare <= MaxSpare
    /\ (Short /\ (OnlyImages \/ SmallTables)) \/ SmallHeaders

\* One session in which nothing fails.
NoErrors == mode = "open" /\ ~tainted /\ torn = "none"

\* One session in which no I/O fails.
NoIOErrors == mode = "open" /\ ~tainted /\ torn \in {"none", "ValueError"}
=============================================================================
