------------------------------ MODULE Touchdb -------------------------------
(***************************************************************************)
(* The data operations of touchdb.c over the map of touchdb_map.c, the     *)
(* strings of touchdb_str.c and the chains of touchdb_chain.c, all made of *)
(* blocks of one pool.                                                     *)
(*                                                                         *)
(* The pool is the one of TouchdbPool seen by its size classes: a class    *)
(* hands out the block it got back first, or a new one, and a freed block  *)
(* keeps its contents.  A touchdb_val_t and a touchdb_str_t are of one     *)
(* class and of one layout, an int and an address, so a freed string read  *)
(* again may be a value; keys and texts, of at most 8 bytes, share a class *)
(* as well.  Chains, nodes and map entries have a class each.              *)
(***************************************************************************)
EXTENDS Integers, Sequences, FiniteSets

CONSTANTS
  StrKeys, RawKeys, ListKeys,  \* the keys used with touchdb_put_str, touchdb_put
                               \* and touchdb_list_push
  Texts,      \* the strings stored
  None,       \* no text
  Garbage,    \* what is read from a block that holds no text
  HashOf,     \* hash(hash_code(k))
  BUCKETS,    \* bulk_list_count, a power of 2
  RewriteKeys,  \* the keys that are put again after they have a value
  MAX_OPS     \* calls per behaviour

Keys == StrKeys \cup RawKeys \cup ListKeys

ASSUME DbAssumption ==
  /\ HashOf \in [Keys -> Nat]
  /\ BUCKETS \in Nat \ {0}
  /\ RewriteKeys \subseteq Keys
  /\ MAX_OPS \in Nat

Classes == {"text", "pair", "chain", "node", "entry"}

NIL == <<"nil", 0>>

STR == "TOUCHDB_VAL_STR"
CHAIN == "TOUCHDB_VAL_CHAIN"

VARIABLES
  db,        \* the files: mem, the contents of the blocks; held, those
             \* allocated; free, the free list of each class; fresh, how many
             \* blocks of it were carved; bulk, the buckets of the map;
             \* map_size; fault, whether a free block was freed again
  ret,       \* the text that the last pop from a key returned
  popped,    \* the blocks of the values that pops returned
  last,      \* the last call: op, key and text
  ops,       \* calls so far
  rewritten, \* whether a key was put again after it had a value
  view       \* Value(db, k) of every key: no state of its own

dbVars == <<db, ret, popped, last, ops, rewritten, view>>

-----------------------------------------------------------------------------
(* touchdb_malloc and touchdb_free, on a state p of db. *)

Blk(p, c) == IF p.free[c] = <<>> THEN <<c, p.fresh[c]>> ELSE Head(p.free[c])

(* The contents mem of the blocks with x in the block b. *)
Filled(mem, b, x) == [a \in DOMAIN mem \cup {b} |-> IF a = b THEN x ELSE mem[a]]

(* The pool after the block Blk(p, c) was handed out and filled with x. *)
New(p, c, x) ==
  [p EXCEPT !.mem      = Filled(@, Blk(p, c), x),
            !.held     = @ \cup {Blk(p, c)},
            !.free[c]  = IF @ = <<>> THEN @ ELSE Tail(@),
            !.fresh[c] = IF p.free[c] = <<>> THEN @ + 1 ELSE @]

(* touchdb_pool_free does not notice a block that is already free. *)
Free(p, b) ==
  [p EXCEPT !.held = @ \ {b},
            !.free[b[1]] = Append(@, b),
            !.fault = @ \/ b \notin p.held]

Set(p, b, x) == [p EXCEPT !.mem[b] = x]

Val(type, addr) == [type |-> type, addr |-> addr]

-----------------------------------------------------------------------------
(* touchdb_str.c *)

(* The string t for the value block v. *)
touchdb_str_new2(p, v, t) ==
  LET s    == Blk(p, "pair")
      p1   == New(p, "pair", Val("len", NIL))
      data == Blk(p1, "text")
      p2   == New(p1, "text", t)
  IN
  Set(Set(p2, s, Val("len", data)), v, Val(STR, s))

(* The text first, then the string. *)
touchdb_str_destory(p, val) == Free(Free(p, p.mem[val.addr].addr), val.addr)

touchdb_val_destroy_nothing(p, val) == p

(* Chains are left alone, and touchdb_map_destory is empty. *)
touchdb_val_destroy(p, val) == IF val.type = STR THEN touchdb_str_destory(p, val) ELSE p

ReadText(p, b) == IF b[1] = "text" THEN p.mem[b] ELSE Garbage

touchdb_str_data(p, val) ==
  IF val.addr[1] = "pair" THEN ReadText(p, p.mem[val.addr].addr) ELSE Garbage

-----------------------------------------------------------------------------
(* touchdb_map.c *)

index_for(k) == HashOf[k] % BUCKETS

(* What next_entry passes in bucket i, from its header until NULL.  The     *)
(* walk is cut off one step after it passed as many entries as there are.  *)
Entries(p, i) ==
  LET at[j \in 0 .. p.fresh["entry"]] ==
        IF j = 0 THEN p.bulk[i].header
        ELSE IF at[j - 1] = NIL THEN NIL ELSE p.mem[at[j - 1]].next
      passed == {j \in 0 .. p.fresh["entry"] : at[j] # NIL}
  IN [j \in 1 .. Cardinality(passed) |-> at[j - 1]]

is_entry_of_by_hash(p, e, k) == p.mem[e].hash = HashOf[k]

is_entry_of(p, e, k) == p.mem[e].hash = HashOf[k] /\ ReadText(p, p.mem[e].key) = k

(* The first entry of k's bucket with its hash and its text, or NIL.  The   *)
(* entry at offset 0 that an empty bucket leads to matches no key (README).*)
get_entry(p, k) ==
  LET es    == Entries(p, index_for(k))
      found == {j \in DOMAIN es : is_entry_of(p, es[j], k)}
  IN IF found = {} THEN NIL ELSE es[CHOOSE j \in found : \A m \in found : j <= m]

touchdb_map_contains(p, k) == get_entry(p, k) # NIL

(* The entries in the order in which the callback gets them. *)
touchdb_map_iter(p) ==
  LET upto[i \in 0 .. BUCKETS] == IF i = 0 THEN <<>> ELSE upto[i - 1] \o Entries(p, i - 1)
  IN upto[BUCKETS]

bulk_after_keeps_tail(b, e) ==
  [header |-> IF b.size = 0 THEN e ELSE b.header,
   tail   |-> IF b.size = 0 THEN e ELSE b.tail,
   size   |-> b.size + 1]

(* The bucket b with e as its last entry. *)
bulk_after(b, e) ==
  [header |-> IF b.size = 0 THEN e ELSE b.header, tail |-> e, size |-> b.size + 1]

(* The end of both puts: entry e for k goes to the tail of its bucket. *)
add_entry(p, k, e, key, val) ==
  LET i    == index_for(k)
      tail == p.bulk[i].tail
      p1   == IF p.bulk[i].size = 0 THEN p ELSE [p EXCEPT !.mem[tail].next = e]
  IN
  [Set(p1, e, [prev |-> IF p.bulk[i].size = 0 THEN NIL ELSE tail, next |-> NIL,
               hash |-> HashOf[k], key |-> key, val |-> val])
     EXCEPT !.bulk[i] = bulk_after(@, e), !.map_size = @ + 1]

text_replaced_frees_old(p, e, data) ==
  LET p1 == [p EXCEPT !.mem[e].val = Val(STR, data)] IN
  IF p.mem[e].val.type = STR THEN Free(p1, p.mem[e].val.addr) ELSE p1

(* Replacing a string frees &old_val->value after entry->val.value was      *)
(* assigned, and the two are the same field: the new text is freed.        *)
text_replaced(p, e, data) ==
  LET p1 == [p EXCEPT !.mem[e].val = Val(STR, data)] IN
  IF p.mem[e].val.type = STR THEN Free(p1, data) ELSE p1

touchdb_map_put(p, k, t) ==
  LET e == get_entry(p, k) IN
  IF e # NIL
    THEN text_replaced(New(p, "text", t), e, Blk(p, "text"))
    ELSE LET entry == Blk(p, "entry")
             p1    == New(p, "entry", NIL)
             key   == Blk(p1, "text")
             p2    == New(p1, "text", k)
             data  == Blk(p2, "text")
         IN add_entry(New(p2, "text", t), k, entry, key, Val(STR, data))

map_replaced_keeps_old(p, e, v) == touchdb_val_destroy(p, v)

(* old_val is the address of the field that was just assigned, so it is the *)
(* new value that touchdb_val_destroy gets.                                *)
map_replaced(p, e, v) == touchdb_val_destroy([p EXCEPT !.mem[e].val = v], v)

touchdb_map_put2(p, k, v) ==
  LET e == get_entry(p, k) IN
  IF e # NIL
    THEN map_replaced(p, e, v)
    ELSE LET entry == Blk(p, "entry")
             p1    == New(p, "entry", NIL)
             key   == Blk(p1, "text")
         IN add_entry(New(p1, "text", k), k, entry, key, v)

-----------------------------------------------------------------------------
(* touchdb_chain.c, the calls touchdb.c makes; TouchdbChain has them all. *)

touchdb_chain_push_tail(p, c, v) ==
  LET n    == Blk(p, "node")
      ch   == p.mem[c]
      p1   == New(p, "node", [prev |-> ch.tail, next |-> NIL, val |-> v])
      p2   == IF ch.size = 0 THEN p1 ELSE [p1 EXCEPT !.mem[ch.tail].next = n]
  IN
  Set(p2, c, [header |-> IF ch.size = 0 THEN n ELSE ch.header, tail |-> n, size |-> ch.size + 1])

(* The block of the returned value is filled before the node, its string    *)
(* and the string's text are freed.                                        *)
touchdb_chain_pull_head(p, c) ==
  LET head == p.mem[c].header
      next == p.mem[head].next
      val  == p.mem[head].val
      p1   == Set(p, c, [header |-> next, tail |-> IF next = NIL THEN NIL ELSE p.mem[c].tail,
                         size |-> p.mem[c].size - 1])
  IN
  Free(touchdb_val_destroy(New(p1, "pair", val), val), head)

(* touchdb_chain_node_idx: the i-th node of chain c, counted from 1. *)
touchdb_chain_node_idx(p, c, i) ==
  LET at[j \in 1 .. i] == IF j = 1 THEN p.mem[c].header
                          ELSE IF at[j - 1] = NIL THEN NIL ELSE p.mem[at[j - 1]].next
  IN at[i]

-----------------------------------------------------------------------------
(* touchdb.c *)

get_chain(p, k) ==
  LET e == get_entry(p, k) IN
  IF e # NIL /\ p.mem[e].val.type = CHAIN THEN p.mem[e].val.addr ELSE NIL

(* What a client can read under k, with the call that fits the value. *)
Value(p, k) ==
  LET e    == get_entry(p, k)
      val  == p.mem[e].val
      node(i) == touchdb_chain_node_idx(p, val.addr, i)
  IN
  CASE e = NIL          -> [kind |-> "absent"]
    [] e # NIL /\ val.type = CHAIN ->
         [kind  |-> "list",
          texts |-> [i \in 1 .. p.mem[val.addr].size |-> touchdb_str_data(p, p.mem[node(i)].val)]]
    [] e # NIL /\ val.type = STR ->
         [kind |-> "text",
          text |-> IF val.addr[1] = "pair" THEN touchdb_str_data(p, val) ELSE ReadText(p, val.addr)]

DbInit ==
  /\ db = [mem |-> [b \in {NIL} |-> NIL], held |-> {}, fault |-> FALSE, map_size |-> 0,
           free |-> [c \in Classes |-> <<>>], fresh |-> [c \in Classes |-> 0],
           bulk |-> [i \in 0 .. BUCKETS - 1 |-> [header |-> NIL, tail |-> NIL, size |-> 0]]]
  /\ ret = [k \in Keys |-> None]
  /\ popped = {}
  /\ last = [op |-> "init", key |-> None, text |-> None]
  /\ ops = 0
  /\ rewritten = FALSE
  /\ view = [k \in Keys |-> Value(db, k)]

Call(op, k, t) ==
  /\ ~db.fault
  /\ ops < MAX_OPS
  /\ ops' = ops + 1
  /\ last' = [op |-> op, key |-> k, text |-> t]

(* A string value for t: the block of the value, and the state with it. *)
new_str_val(p, t) == touchdb_str_new2(New(p, "pair", NIL), Blk(p, "pair"), t)

touchdb_put_str(k, t) ==
  LET v == Blk(db, "pair")
      p == new_str_val(db, t)
  IN
  /\ Call("put_str", k, t)
  /\ db' = Free(touchdb_map_put2(p, k, p.mem[v]), v)
  /\ UNCHANGED <<ret, popped>>

touchdb_put(k, t) ==
  /\ Call("put", k, t)
  /\ db' = touchdb_map_put(db, k, t)
  /\ UNCHANGED <<ret, popped>>

(* The chain for a new list goes through a value block that is freed again. *)
list_push_new(p, k, v) ==
  LET val == Blk(p, "pair")
      p1  == New(p, "pair", NIL)
      c   == Blk(p1, "chain")
      p2  == New(p1, "chain", [header |-> NIL, tail |-> NIL, size |-> 0])
      p3  == Set(p2, val, Val(CHAIN, c))
  IN
  Free(touchdb_map_put2(touchdb_chain_push_tail(p3, c, v), k, p3.mem[val]), val)

(* The caller makes the value with touchdb_str_new, and frees its block     *)
(* when it was pushed: the node has a copy.                                *)
touchdb_list_push(k, t) ==
  LET v == Blk(db, "pair")
      p == new_str_val(db, t)
      c == get_chain(p, k)
  IN
  /\ Call("list_push", k, t)
  /\ db' = Free(IF c # NIL THEN touchdb_chain_push_tail(p, c, p.mem[v])
                           ELSE list_push_new(p, k, p.mem[v]), v)
  /\ UNCHANGED <<ret, popped>>

(* The caller reads the value at once; it never learns how to free it. *)
touchdb_list_pop(k) ==
  LET c == get_chain(db, k)
      p == touchdb_chain_pull_head(db, c)
      v == Blk(db, "pair")
      t == touchdb_str_data(p, p.mem[v])
  IN
  /\ Call("list_pop", k, None)
  /\ IF c = NIL \/ db.mem[c].header = NIL
       THEN /\ ret' = [ret EXCEPT ![k] = None]
            /\ UNCHANGED <<db, popped>>
       ELSE /\ db' = p
            /\ ret' = [ret EXCEPT ![k] = t]
            /\ popped' = popped \cup {v}

touchdb_get_str(k) ==
  LET e == get_entry(db, k) IN
  IF e # NIL /\ db.mem[e].val.type = STR THEN touchdb_str_data(db, db.mem[e].val) ELSE None

(* Whatever the type of the value, its address is taken for the text's. *)
touchdb_get(k) ==
  LET e == get_entry(db, k) IN
  IF e # NIL THEN ReadText(db, db.mem[e].val.addr) ELSE None

touchdb_iter == touchdb_map_iter(db)

touchdb_size == db.map_size

(* Every key is put once, and then only read, pushed to or popped from,     *)
(* unless it is one of RewriteKeys.                                        *)
MayPut(k) == k \in RewriteKeys \/ ~touchdb_map_contains(db, k)

(* A put of k stores a value where another one was. *)
Rewrites(k) == rewritten' = (rewritten \/ touchdb_map_contains(db, k))

DbNext ==
  /\ \/ \E k \in StrKeys, t \in Texts : MayPut(k) /\ touchdb_put_str(k, t) /\ Rewrites(k)
     \/ \E k \in RawKeys, t \in Texts : MayPut(k) /\ touchdb_put(k, t) /\ Rewrites(k)
     \/ \E k \in ListKeys, t \in Texts :
          MayPut(k) /\ get_chain(db, k) = NIL /\ touchdb_list_push(k, t) /\ Rewrites(k)
     \/ \E k \in ListKeys, t \in Texts :
          get_chain(db, k) # NIL /\ touchdb_list_push(k, t) /\ UNCHANGED rewritten
     \/ \E k \in ListKeys : touchdb_list_pop(k) /\ UNCHANGED rewritten
  /\ view' = [k \in Keys |-> Value(db', k)]

DbSpec == DbInit /\ [][DbNext]_dbVars

-----------------------------------------------------------------------------

AllEntries == LET es == touchdb_iter IN {es[j] : j \in DOMAIN es}

Chains == {db.mem[e].val.addr : e \in {x \in AllEntries : db.mem[x].val.type = CHAIN}}

NodesOf(c) == {touchdb_chain_node_idx(db, c, i) : i \in 1 .. db.mem[c].size}

ListNodes == UNION {NodesOf(c) : c \in Chains}

KeyBlocks == {db.mem[e].key : e \in AllEntries}
ListStrs  == {db.mem[n].val.addr : n \in ListNodes}
ListTexts == {db.mem[s].addr : s \in ListStrs}

(* No block is freed twice.  Replacing a value frees the new one instead   *)
(* of the old, and the freed blocks are handed out again as parts of other *)
(* values; yet nothing frees them a second time.                           *)
NoDoubleFree == ~db.fault

(* The buckets stay sound: a walk from header passes size allocated        *)
(* entries, comes to an end at tail and can be walked back, every entry is *)
(* in the bucket of its hash and the only one of its key, and touchdb_iter *)
(* passes as many entries as touchdb_size counts; a replaced value never   *)
(* damages the map around it.                                              *)
MapSound ==
  /\ \A i \in DOMAIN db.bulk :
       LET b  == db.bulk[i]
           es == Entries(db, i)
       IN
       /\ Len(es) = b.size
       /\ b.tail = IF b.size = 0 THEN NIL ELSE es[b.size]
       /\ \A j \in 1 .. b.size :
            /\ es[j] \in db.held
            /\ db.mem[es[j]].prev = IF j = 1 THEN NIL ELSE es[j - 1]
            /\ \E k \in Keys : /\ index_for(k) = i
                               /\ is_entry_of(db, es[j], k)
                               /\ get_entry(db, k) = es[j]
  /\ touchdb_size = Len(touchdb_iter)

(* The blocks of the map and of the lists are allocated, and each of them  *)
(* belongs to one place: what touchdb_put_str and touchdb_put free by      *)
(* mistake is never part of a list, of a key or of a popped value.         *)
OwnersApart ==
  LET keep  == {AllEntries, Chains, ListNodes, KeyBlocks, ListStrs, ListTexts, popped}
      paths == 3 * Cardinality(ListNodes) + 2 * Cardinality(AllEntries)
                 + Cardinality(Chains) + Cardinality(popped)
  IN
  /\ UNION keep \subseteq db.held
  /\ Cardinality(UNION keep) = paths

(* A put is read back by the next get of its key, also when it replaced a  *)
(* value: the string was freed, but nothing has taken its blocks yet.      *)
ReadYourWrite ==
  /\ last.op = "put_str" => touchdb_get_str(last.key) = last.text
  /\ last.op = "put" => touchdb_get(last.key) = last.text

(* Until a key is rewritten, every allocated block is reachable from the   *)
(* map, or is the value of a pop: nothing else leaks.                      *)
OnlyPopsLeak ==
  LET vals  == {db.mem[e].val : e \in AllEntries}
      strs  == {v.addr : v \in {w \in vals : w.type = STR}}
      texts == {db.mem[s].addr : s \in {t \in strs : t[1] = "pair"}}
  IN
  ~rewritten =>
    db.held = AllEntries \cup KeyBlocks \cup Chains \cup ListNodes \cup ListStrs \cup ListTexts
                \cup strs \cup texts \cup popped

Stable == Keys \ RewriteKeys

StableStore == INSTANCE KvStore WITH
  Keys <- Stable,
  kv <- [k \in Stable |-> view[k]],
  out <- [k \in Stable |-> ret[k]]

Store == INSTANCE KvStore WITH
  kv <- view,
  out <- ret

(* The keys that are not rewritten are a key-value store with lists, for   *)
(* all that happens to the others: their texts and the contents of their   *)
(* lists change only by a call for that key, and as that call says.        *)
ImplementsStableStore == StableStore!Spec

(* All the keys together are a key-value store. *)
ImplementsStore == Store!Spec
=============================================================================
