----------------------------- MODULE MCDdrStats -----------------------------
(* Records of three bytes, chunks of two, and an int that ends at 7: sizes of *)
(* no chunk, of a short last one, of three whole ones, a size that wraps to a *)
(* negative number and one that wraps to a small one.                         *)
EXTENDS DdrStats

CONSTANTS r1, r2

LoopCounts == {0, 1, 2, 4, 6}
=============================================================================
