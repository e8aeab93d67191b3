------------------------------ MODULE AbsList -------------------------------
(***************************************************************************)
(* What the callers of touchdb_chain.c rely on: a chain is a sequence of   *)
(* values.  A queue grows at its tail and shrinks at its head, a stack     *)
(* grows and shrinks at its tail, and an edited list grows at its tail,    *)
(* takes a value after one of its elements and loses any of them.  What a  *)
(* list is used as is its kind; out is the value the last pull returned.   *)
(***************************************************************************)
EXTENDS Integers, SequencesExt

CONSTANTS Vals, None

VARIABLES list, out, kind

Init == list = <<>> /\ out = None /\ kind \in {"queue", "stack", "edit"}

PushTail(v) == list' = Append(list, v) /\ UNCHANGED out

PullHead == list # <<>> /\ list' = Tail(list) /\ out' = Head(list)

PullTail == list # <<>> /\ list' = Front(list) /\ out' = Last(list)

PullNothing == list = <<>> /\ out' = None /\ UNCHANGED list

InsertAfter(i, v) == list' = InsertAt(list, i + 1, v) /\ UNCHANGED out

Delete(i) == list' = RemoveAt(list, i) /\ UNCHANGED out

QueueNext == kind = "queue" /\ (PullHead \/ PullNothing)

StackNext == kind = "stack" /\ (PullTail \/ PullNothing)

EditNext ==
  /\ kind = "edit"
  /\ \/ \E i \in DOMAIN list, v \in Vals : InsertAfter(i, v)
     \/ \E i \in DOMAIN list : Delete(i)

Next ==
  /\ (\E v \in Vals : PushTail(v)) \/ QueueNext \/ StackNext \/ EditNext
  /\ UNCHANGED kind

Spec == Init /\ [][Next]_<<list, out, kind>>
=============================================================================
