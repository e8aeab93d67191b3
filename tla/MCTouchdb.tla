----------------------------- MODULE MCTouchdb ------------------------------
(* k1 is used with every call, k2 holds a string, k3 a list.  k1 and k2 have *)
(* the same hash, and all three share a bucket; bucket 1 stays empty.        *)
EXTENDS Touchdb, TLC

CONSTANTS k1, k2, k3, x, y

MCStrKeys == {k1, k2}
MCRawKeys == {k1}
MCListKeys == {k1, k3}
MCTexts == {x, y}
MCOneKey == {k1}
MCNoKey == {}
MCHashOf == k1 :> 4 @@ k2 :> 4 @@ k3 :> 6

(* The calls copy texts and compare only keys. *)
MCSymmetry == Permutations(MCTexts)
=============================================================================
