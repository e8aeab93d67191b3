------------------------------ MODULE KvStore -------------------------------
(***************************************************************************)
(* "A key-value memory store" (README.md): what touchdb.h offers, without  *)
(* blocks, buckets or chains.  A key is absent, or bound to a text, or to  *)
(* a list of texts.  out is the text the last pop returned.                *)
(***************************************************************************)
EXTENDS Sequences

CONSTANTS Keys, Texts, None

VARIABLES kv, out

Text(t) == [kind |-> "text", text |-> t]

List(s) == [kind |-> "list", texts |-> s]

Absent == [kind |-> "absent"]

Init == kv = [k \in Keys |-> Absent] /\ out = [k \in Keys |-> None]

Put(k, t) == kv' = [kv EXCEPT ![k] = Text(t)] /\ UNCHANGED out

(* A push to a key that is no list makes it one. *)
Push(k, t) ==
  /\ kv' = [kv EXCEPT ![k] = List(IF @.kind = "list" THEN Append(@.texts, t) ELSE <<t>>)]
  /\ UNCHANGED out

Pop(k) ==
  /\ kv[k].kind = "list" /\ kv[k].texts # <<>>
  /\ out' = [out EXCEPT ![k] = Head(kv[k].texts)]
  /\ kv' = [kv EXCEPT ![k] = List(Tail(@.texts))]

PopNothing(k) ==
  /\ kv[k].kind = "list" => kv[k].texts = <<>>
  /\ out' = [out EXCEPT ![k] = None]
  /\ UNCHANGED kv

Next ==
  \E k \in Keys :
    \/ \E t \in Texts : Put(k, t) \/ Push(k, t)
    \/ Pop(k)
    \/ PopNothing(k)

Spec == Init /\ [][Next]_<<kv, out>>
=============================================================================
