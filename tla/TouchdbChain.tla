---------------------------- MODULE TouchdbChain ----------------------------
(***************************************************************************)
(* touchdb_chain.c: a doubly linked list whose nodes are blocks of the     *)
(* shared pool and whose links are pool addresses.  A freed node keeps its *)
(* contents until touchdb_malloc hands the block out again, so a stale     *)
(* link can be followed, and written through, without anyone noticing.     *)
(*                                                                         *)
(* touchdb_malloc is the allocator of TouchdbAlloc: it returns some block  *)
(* nobody holds, or never returns.  A value is the touchdb_val_t copied    *)
(* into the node.  fault means that a call touched memory it does not own  *)
(* or dereferenced NULL; the model stops there.                            *)
(*                                                                         *)
(* Not every mixture of the calls is sound: pull_head leaves the prev link *)
(* of the new header, and pull_tail the next link of the new tail,         *)
(* pointing at a freed node.  A behaviour of ChainSpec keeps to one of the *)
(* disciplines under which the chain works: a queue, a stack or an edited  *)
(* list.                                                                   *)
(***************************************************************************)
EXTENDS Integers, Sequences, FiniteSets

CONSTANTS
  Nodes,   \* the blocks of the node size class
  Vals,
  None     \* no value

NIL == 0

ASSUME ChainAssumption ==
  /\ IsFiniteSet(Nodes) /\ NIL \notin Nodes
  /\ None \notin Vals

VARIABLES
  chain,   \* header, tail and size
  node,    \* prev, next and val of every block, freed ones included
  alloc,   \* the nodes that are allocated
  ret,     \* the value the last pull returned
  gone,    \* touchdb_chain_destory was called
  fault,
  discipline  \* the calls this chain is used with, chosen once

memVars == <<chain, node, alloc, ret, gone, fault>>

chainVars == <<memVars, discipline>>

-----------------------------------------------------------------------------
(* next_node, prev_node and chain_header give NULL for NIL, else the node. *)

(* Step k of a loop that starts at chain_header and follows next_node. *)
Walk ==
  LET at[k \in 0 .. Cardinality(Nodes)] ==
        IF k = 0 THEN chain.header
        ELSE IF at[k - 1] = NIL THEN NIL ELSE node[at[k - 1]].next
  IN at

(* Whether a loop over the whole chain comes to an end. *)
WalkEnds == \E k \in DOMAIN Walk : Walk[k] = NIL

Walked == {Walk[k] : k \in DOMAIN Walk} \ {NIL}

(* The idx-th node, counted from 1, or NIL. *)
touchdb_chain_node_idx(idx) ==
  IF idx >= 1 /\ idx - 1 \in DOMAIN Walk THEN Walk[idx - 1] ELSE NIL

(* touchdb_chain_node compares with touchdb_val_cmp, whose switch has no    *)
(* case left for strings and chains: it falls off its end and its result   *)
(* is undefined.  Any node may be found equal, or none.                    *)
touchdb_chain_node(v) == Walked \cup {NIL}

Crash == fault' = TRUE /\ UNCHANGED <<chain, node, alloc, ret, gone>>

-----------------------------------------------------------------------------

ChainInit(uses) ==
  /\ discipline \in uses
  /\ chain = [header |-> NIL, tail |-> NIL, size |-> 0]
  /\ node = [n \in Nodes |-> [prev |-> NIL, next |-> NIL, val |-> None]]
  /\ alloc = {}
  /\ ret = None
  /\ gone = FALSE
  /\ fault = FALSE

(* A new node n, linked as the arguments say, in the memory of the nodes. *)
touchdb_chain_node_new(n, next, prev, val) ==
  [node EXCEPT ![n] = [prev |-> prev, next |-> next, val |-> val]]

(* head->next is assigned where head->prev should be. *)
touchdb_chain_push_head(v) ==
  \E n \in Nodes \ alloc :
    LET new == touchdb_chain_node_new(n, chain.header, NIL, v) IN
    /\ alloc' = alloc \cup {n}
    /\ IF chain.size = 0
         THEN /\ node' = new
              /\ chain' = [header |-> n, tail |-> n, size |-> 1]
         ELSE /\ node' = [new EXCEPT ![chain.header].next = n]
              /\ chain' = [chain EXCEPT !.header = n, !.size = @ + 1]
    /\ UNCHANGED <<ret, gone, fault>>

linked_after_forgets_prev(n, tail, v) ==
  IF tail = NIL THEN touchdb_chain_node_new(n, NIL, tail, v)
  ELSE [touchdb_chain_node_new(n, NIL, NIL, v) EXCEPT ![tail].next = n]

linked_after_forgets_next(n, tail, v) == touchdb_chain_node_new(n, NIL, tail, v)

(* n as the new last node, after the old tail if there is one. *)
linked_after(n, tail, v) ==
  IF chain.size = 0 THEN touchdb_chain_node_new(n, NIL, tail, v)
  ELSE [touchdb_chain_node_new(n, NIL, tail, v) EXCEPT ![tail].next = n]

touchdb_chain_push_tail(v) ==
  \E n \in Nodes \ alloc :
    /\ node' = linked_after(n, chain.tail, v)
    /\ chain' = [header |-> IF chain.size = 0 THEN n ELSE chain.header,
                 tail   |-> n,
                 size   |-> chain.size + 1]
    /\ alloc' = alloc \cup {n}
    /\ UNCHANGED <<ret, gone, fault>>

without_header_forgets_last(next) ==
  [header |-> IF next = NIL THEN chain.header ELSE next,
   tail   |-> IF next = NIL THEN NIL ELSE chain.tail,
   size   |-> chain.size - 1]

without_header(next) ==
  [header |-> next,
   tail   |-> IF next = NIL THEN NIL ELSE chain.tail,
   size   |-> chain.size - 1]

without_tail_keeps_header(prev) ==
  [header |-> chain.header, tail |-> prev, size |-> chain.size - 1]

without_tail(prev) ==
  [header |-> IF prev = NIL THEN NIL ELSE chain.header,
   tail   |-> prev,
   size   |-> chain.size - 1]

(* What both pulls do with the end n they unlinked: its value is copied,    *)
(* then the node is destroyed.  Destroying a freed node is a fault.        *)
pull(n, rest) ==
  IF n = NIL
    THEN /\ ret' = None
         /\ UNCHANGED <<chain, node, alloc, gone, fault>>
    ELSE /\ chain' = rest
         /\ ret' = node[n].val
         /\ alloc' = alloc \ {n}
         /\ fault' = (n \notin alloc)
         /\ UNCHANGED <<node, gone>>

touchdb_chain_pull_head == pull(chain.header, without_header(node[chain.header].next))

touchdb_chain_pull_tail == pull(chain.tail, without_tail(node[chain.tail].prev))

inserted_one_way(new, n, v) ==
  [touchdb_chain_node_new(new, node[n].next, n, v) EXCEPT ![n].next = new]

(* new between n and its successor. *)
inserted(new, n, v) ==
  [touchdb_chain_node_new(new, node[n].next, n, v) EXCEPT
     ![node[n].next].prev = new,
     ![n].next = new]

(* next_n is dereferenced without a test: n must not be the tail. *)
touchdb_chain_insert(n, v) ==
  IF node[n].next = NIL THEN Crash
  ELSE \E new \in Nodes \ alloc :
         /\ node' = inserted(new, n, v)
         /\ alloc' = alloc \cup {new}
         /\ chain' = [chain EXCEPT !.size = @ + 1]
         /\ UNCHANGED <<ret, gone, fault>>

(* touchdb_chain_node_idx returns the address of a value, and it is taken   *)
(* for the address of its node: the next link is read behind the node, in  *)
(* the unused end of its block, and NIL there is dereferenced.             *)
touchdb_chain_insert_idx(idx, v) ==
  IF touchdb_chain_node_idx(idx) = NIL THEN UNCHANGED memVars ELSE Crash

unlinked_one_way(n) ==
  [m \in Nodes |-> IF m = node[n].prev THEN [node[m] EXCEPT !.next = node[n].next] ELSE node[m]]

(* The nodes after n was taken out; n itself stays allocated. *)
unlinked(n) ==
  LET p == node[n].prev
      q == node[n].next
  IN
  [m \in Nodes |->
     [node[m] EXCEPT !.next = IF m = p THEN q ELSE @,
                     !.prev = IF m = q THEN p ELSE @]]

(* Deletes the node touchdb_chain_node found, if it found one.  Writing     *)
(* through a stale prev link is a fault.                                   *)
touchdb_chain_del(v) ==
  \E n \in touchdb_chain_node(v) :
    IF n = NIL THEN UNCHANGED memVars
    ELSE /\ node' = unlinked(n)
         /\ chain' = [header |-> IF n = chain.header THEN node[n].next ELSE chain.header,
                      tail   |-> IF n = chain.tail THEN node[n].prev ELSE chain.tail,
                      size   |-> chain.size - 1]
         /\ fault' = (node[n].prev \notin alloc \cup {NIL})
         /\ UNCHANGED <<alloc, ret, gone>>

(* Every node met on the way is destroyed; the chain itself is not reset.   *)
touchdb_chain_destory ==
  /\ alloc' = alloc \ Walked
  /\ gone' = TRUE
  /\ fault' = ~(WalkEnds /\ Walked \subseteq alloc)
  /\ UNCHANGED <<chain, node, ret>>

-----------------------------------------------------------------------------
(* The disciplines.  A destroyed chain is not used again. *)

Use(d) == discipline = d /\ ~gone /\ ~fault /\ UNCHANGED discipline

(* The calls of touchdb.c: touchdb_list_push and touchdb_list_pop. *)
QueueNext ==
  /\ Use("queue")
  /\ \/ \E v \in Vals : touchdb_chain_push_tail(v)
     \/ touchdb_chain_pull_head
     \/ touchdb_chain_destory

StackNext ==
  /\ Use("stack")
  /\ \/ \E v \in Vals : touchdb_chain_push_tail(v)
     \/ touchdb_chain_pull_tail

(* The nodes a caller can know. *)
Reached == {n \in Walked : n \in alloc}

EditNext ==
  /\ Use("edit")
  /\ \/ \E v \in Vals : touchdb_chain_push_tail(v)
     \/ \E n \in Reached \ {chain.tail}, v \in Vals : touchdb_chain_insert(n, v)
     \/ \E v \in Vals : touchdb_chain_del(v)
     \/ touchdb_chain_destory

ChainNext == QueueNext \/ StackNext \/ EditNext

ChainSpec == ChainInit({"queue", "stack", "edit"}) /\ [][ChainNext]_chainVars

(* The calls of test/chain_test.c, and those of the example that ends       *)
(* touchdb.c: no discipline above allows them.                             *)
ChainTestNext ==
  /\ Use("chain_test")
  /\ \/ \E v \in Vals : touchdb_chain_push_tail(v)
     \/ \E v \in Vals : touchdb_chain_del(v)
     \/ \E idx \in 1 .. 3, v \in Vals : touchdb_chain_insert_idx(idx, v)

PushHeadNext == Use("push_head") /\ \E v \in Vals : touchdb_chain_push_head(v)

ChainTestSpec == ChainInit({"chain_test"}) /\ [][ChainTestNext]_chainVars
PushHeadSpec == ChainInit({"push_head"}) /\ [][PushHeadNext]_chainVars

-----------------------------------------------------------------------------
(* The links stay inside the node class, and ret is a value or nothing. *)
ChainTypeOK ==
  /\ chain \in [header : Nodes \cup {NIL}, tail : Nodes \cup {NIL}, size : 0 .. Cardinality(Nodes)]
  /\ node \in [Nodes -> [prev : Nodes \cup {NIL}, next : Nodes \cup {NIL}, val : Vals \cup {None}]]
  /\ alloc \subseteq Nodes
  /\ ret \in Vals \cup {None}
  /\ gone \in BOOLEAN /\ fault \in BOOLEAN

Listings == {s \in [1 .. chain.size -> alloc] : \A i, j \in DOMAIN s : s[i] = s[j] => i = j}

LinkedForward(s) ==
  /\ chain.header = IF chain.size = 0 THEN NIL ELSE s[1]
  /\ \A i \in DOMAIN s : node[s[i]].next = IF i = chain.size THEN NIL ELSE s[i + 1]

LinkedBackward(s) ==
  /\ chain.tail = IF chain.size = 0 THEN NIL ELSE s[chain.size]
  /\ \A i \in DOMAIN s : i # 1 => node[s[i]].prev = s[i - 1]

(* In a queue and in an edited list, following next from the header, a     *)
(* reader passes size allocated nodes, ends at the tail and finds NIL      *)
(* there: however nodes are freed and their blocks reused, no iteration    *)
(* runs into a freed node or in a circle.  The prev links agree, except    *)
(* that the header's may be stale.                                         *)
ForwardSound ==
  discipline # "stack" /\ ~gone =>
    \E s \in Listings : LinkedForward(s) /\ LinkedBackward(s)

(* In a stack, following prev from the tail, pull_tail passes size         *)
(* allocated nodes, ends at the header and finds NIL there.                *)
BackwardSound ==
  discipline = "stack" =>
    \E s \in Listings :
      /\ LinkedBackward(s)
      /\ chain.header = IF chain.size = 0 THEN NIL ELSE s[1]
      /\ chain.size # 0 => node[s[1]].prev = NIL

(* No call frees a node twice, follows NULL or writes to a freed node. *)
NoFault == ~fault

(* A queue owns exactly the nodes it reaches, and destroying it returns    *)
(* every one of them to the pool: push, pull and destory leak no node.     *)
NoNodeLeaks == discipline = "queue" => alloc = IF gone THEN {} ELSE Walked

(* An iteration over the chain comes to an end. *)
IterationEnds == WalkEnds

Contents ==
  [i \in 1 .. chain.size |->
     LET n == touchdb_chain_node_idx(i) IN IF n = NIL THEN None ELSE node[n].val]

Abs == INSTANCE AbsList WITH list <- Contents, out <- ret, kind <- discipline

(* Under each discipline the chain is the sequence its caller expects: the *)
(* values of a queue come out at its head and those of a stack at its      *)
(* tail, in order, none lost or repeated, and an edited list changes by    *)
(* one element at a time.                                                  *)
ImplementsList == Abs!Spec
=============================================================================
