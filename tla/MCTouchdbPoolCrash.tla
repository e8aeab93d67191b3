------------------------- MODULE MCTouchdbPoolCrash -------------------------
(* One request size per class, and room for three or four blocks. *)
EXTENDS TouchdbPoolCrash

MCSizes == {8, 16}
=============================================================================
