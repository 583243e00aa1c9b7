--------------------------- MODULE MCGzHandle ---------------------------
(* GzHandle for model checking.                                            *)
EXTENDS GzHandle
=============================================================================
