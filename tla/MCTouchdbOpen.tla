--------------------------- MODULE MCTouchdbOpen ----------------------------
(* Two creators that race and a third process that comes before, between or   *)
(* after them.                                                               *)
EXTENDS TouchdbOpen

CONSTANTS p1, p2, p3

MCProcs == {p1, p2, p3}
=============================================================================
