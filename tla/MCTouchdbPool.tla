--------------------------- MODULE MCTouchdbPool ----------------------------
(* Two size classes, blocks of 24 and 32 bytes, and a pool for four blocks. *)
EXTENDS TouchdbPool

(* Both ends of class 0, class 1, the size the bounds check lets through, and
   a size that has no class. *)
MCSizes == {1, 8, 9, 17, 25}
=============================================================================
