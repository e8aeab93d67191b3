----------------------------- MODULE Allocator ------------------------------
(***************************************************************************)
(* What the callers of touchdb_pool_malloc and touchdb_pool_free rely on,  *)
(* without free lists, headers or size classes: a block handed out lies    *)
(* inside the pool, holds at least the bytes asked for, and shares no byte *)
(* with a block some caller still holds.                                   *)
(*                                                                         *)
(* held maps the data offset of every extent some caller holds to the size *)
(* asked for and the bytes the holder may use; got is the last answer.     *)
(***************************************************************************)
EXTENDS Integers

CONSTANTS
  POOL_SIZE,   \* the bytes of the pool are the offsets 0 .. POOL_SIZE - 1
  Sizes        \* the request sizes

VARIABLES held, got

NULL == 0

Disjoint(p, n, q, m) == p + n <= q \/ q + m <= p

Init == held = [p \in {} |-> NULL] /\ got = NULL

(* One new extent, inside the pool, large enough, and visible to no holder. *)
Malloc(size) ==
  \E p \in DOMAIN held' \ DOMAIN held :
    LET n == held'[p].bytes IN
    /\ size <= n
    /\ NULL < p /\ p + n <= POOL_SIZE
    /\ \A q \in DOMAIN held : Disjoint(p, n, q, held[q].bytes)
    /\ held' = [q \in DOMAIN held \cup {p} |->
                  IF q = p THEN [size |-> size, bytes |-> n] ELSE held[q]]
    /\ got' = p

Refuse == got' = NULL /\ UNCHANGED held

Free(p) ==
  /\ p \in DOMAIN held
  /\ held' = [q \in DOMAIN held \ {p} |-> held[q]]
  /\ UNCHANGED got

Next ==
  \/ \E size \in Sizes : Malloc(size)
  \/ Refuse
  \/ \E p \in DOMAIN held : Free(p)

Spec == Init /\ [][Next]_<<held, got>>
=============================================================================
