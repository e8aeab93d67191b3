---------------------------- MODULE MCTouchdbShm ----------------------------
(* Two lists, so that a pop of one recycles blocks for the other, and a      *)
(* string, all in one bucket; s and l have one hash.                         *)
EXTENDS TouchdbShm

CONSTANTS s, l, m, x, y, r

MCStrKeys == {s}
MCListKeys == {l, m}
MCTexts == {x, y}
MCReaders == {r}
MCHashOf == s :> 4 @@ l :> 4 @@ m :> 6

(* Texts are copied but never compared, so every behaviour is one whose     *)
(* first text is x, up to the names of the texts.                          *)
FirstTextIsX == pool.fresh["text"] = 0 => y \notin {todo'[i][3] : i \in DOMAIN todo'}
=============================================================================
