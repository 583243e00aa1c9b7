--------------------------- MODULE MCHeapRepack ---------------------------
(* HeapRepack for model checking.                                          *)
EXTENDS HeapRepack

\* One column of three rows and a long heap, or two columns of two rows and a short one.
OneColumnOrTwo == Len(cols) < 2 \/ (Len(rows) < 3 /\ pcount <= 3)

Explored == NoUpwardOverlap /\ OneColumnOrTwo
=============================================================================
