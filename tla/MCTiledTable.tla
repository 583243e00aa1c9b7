--------------------------- MODULE MCTiledTable ---------------------------
(* TiledTable for model checking.                                          *)
EXTENDS TiledTable

\* A cell that is stored as it is, one that is compressed, and cells that cannot be
\* converted; a cell of a tile that setitem begins is empty.
Rows == {[f |-> 1, v |-> <<1>>], [f |-> 2, v |-> <<2, 2>>], [f |-> 9, v |-> <<9>>]}
Unconvertible == {9}
UnconvertibleCells == {<<9>>}
\* One row, rows of two tiles out of order, one row twice.
KeysOfRows == {<<2>>, <<3, 1>>, <<1, 1>>}
CacheSizes == {0, 2}

\* Nothing is said of a handle that is tainted or of data that a call has harmed.
Unharmed == ~tainted /\ harmed = "no" /\ ~lost
=============================================================================
