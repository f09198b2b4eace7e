----------------------------- MODULE MC_DirTree -----------------------------
(***************************************************************************)
(* Model-checking instance of DirTree: two names, a root and three more    *)
(* nodes, and four heap blocks, enough for a directory to grow one array  *)
(* twice (so realloc can move it) while another array is live.           *)
(***************************************************************************)
EXTENDS DirTree, TLC

CONSTANTS n1, n2, r, x1, x2, x3, b1, b2, b3, b4

MCNames == {n1, n2}
MCNodes == {r, x1, x2, x3}
MCBlocks == {b1, b2, b3, b4}

\* Names, non-root nodes and blocks are interchangeable model values.
MCSymmetry == Permutations(MCNames) \cup Permutations({x1, x2, x3})
                \cup Permutations(MCBlocks)
=============================================================================
