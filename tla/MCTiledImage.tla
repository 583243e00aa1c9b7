--------------------------- MODULE MCTiledImage ---------------------------
(* TiledImage for model checking.                                          *)
EXTENDS TiledImage

Values == {2, 3}
WideValues == {2}
CacheSizes == {0, 2}

\* Nothing is said of a handle that is tainted or a heap that a repack has clobbered, and
\* nothing happens to a closed handle.
Alive == open /\ ~tainted /\ ~clobbered
=============================================================================
