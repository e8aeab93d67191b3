--------------------------- MODULE MCTouchdbChain ---------------------------
(* Few enough blocks that freed ones are reused.  Blocks are exchangeable:   *)
(* touchdb_malloc may return any free one, and no call orders them.          *)
EXTENDS TouchdbChain, TLC

CONSTANTS n1, n2, n3, n4, a, b

MCNodes == {n1, n2, n3, n4}
MCVals == {a, b}

MCSymmetry == Permutations(MCNodes)
=============================================================================
