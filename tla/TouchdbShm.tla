----------------------------- MODULE TouchdbShm -----------------------------
(***************************************************************************)
(* "multiple processes can read while a process is writing to it"          *)
(* (README.md).  One process calls touchdb_put_str for new keys,           *)
(* touchdb_list_push and touchdb_list_pop, and its writes to the mapped    *)
(* files are seen by the others one by one, in program order; it may stop  *)
(* after any of them, waiting in touchdb_malloc for ever or killed, and    *)
(* after a kill another writer goes on with the files as they are.  Other  *)
(* processes call touchdb_get_str and touchdb_list_node_idx and read the   *)
(* text, or touchdb_iter, one read of the files a step.  There is no lock. *)
(*                                                                         *)
(* Blocks and free lists are those of Touchdb.  The free lists, map_size   *)
(* and the prev links are not read by readers.  A call gets its blocks when *)
(* it begins; asks remembers when it asks for them in the code, so that a  *)
(* kill gives back what was not asked for, and may come in the middle of   *)
(* the unlink in touchdb_pool_malloc.  A kill in touchdb_pool_free leaves  *)
(* the block in the list or outside it; what else it leaves, and what a    *)
(* torn list does in the pool, is in TouchdbPoolCrash.  A touchdb_val_t is *)
(* written at once, a text in halves.                                      *)
(***************************************************************************)
EXTENDS Integers, FiniteSets, FiniteSetsExt, Sequences, SequencesExt, TLC

CONSTANTS
  StrKeys, ListKeys,
  Texts, None,
  HashOf,      \* hash(hash_code(k))
  BUCKETS,     \* bulk_list_count
  ListTextClass,  \* the class of the texts in lists: "text", or "entry" when
                  \* they are 33 to 40 bytes long
  Readers,     \* each makes one call
  MAX_INDEX,   \* largest index given to touchdb_list_node_idx
  MAX_OPS,     \* calls of the writer, killed ones not counted
  MAX_KILLS

Keys == StrKeys \cup ListKeys

ASSUME ShmAssumption ==
  /\ StrKeys \cap ListKeys = {}
  /\ HashOf \in [Keys -> Nat]
  /\ BUCKETS \in Nat \ {0} /\ MAX_INDEX \in Nat \ {0} /\ MAX_OPS \in Nat /\ MAX_KILLS \in Nat
  /\ ListTextClass \in {"text", "entry"}

Classes == {"text", "pair", "chain", "node", "entry"}

NIL == <<"nil", 0>>
WILD == <<"wild", 0>>   \* an address made of other bytes

STR == "TOUCHDB_VAL_STR"
CHAIN == "TOUCHDB_VAL_CHAIN"

Val(type, addr) == [type |-> type, addr |-> addr]

VARIABLES
  mem,     \* block |-> field |-> contents; the buckets are blocks as well
  pool,    \* the free list and the number of carved blocks of each class
  todo,    \* the writer's call: what is still to be written, in order
  call,    \* the call's name and key
  asks,    \* its touchdb_mallocs: the pool before them, the classes, and the
           \* length of todo when each is made; NoAsks when all were made
  torn,    \* the classes with a list that a kill left in the middle of an
           \* unlink: <<"size", c>> when it counts one block too many,
           \* <<"tail", c>> when its only block is not its tail
  ruined,  \* the start of the pool was taken for a block
  ops,     \* calls so far
  kills,
  out,     \* per key, the text of the element that was last unlinked from it
  lost,    \* per key whose call was cut short, what it held then
  view,    \* what a client can read under each key
  rd,      \* per reader: pc, key, idx, at (the block it is at), i, half, passed
  seen,    \* per reader: the right answers since its call began
  disturbed  \* the readers whose list was popped during their call

writerVars == <<mem, pool, todo, call, asks, torn, ruined, ops, kills, out, lost, view>>
shmVars == <<writerVars, rd, seen, disturbed>>

-----------------------------------------------------------------------------
(* The blocks that requests for the classes cs get in turn. *)
Blocks(cs) ==
  [i \in DOMAIN cs |->
     LET c == cs[i]
         n == Cardinality({j \in 1 .. i : cs[j] = c})
     IN IF n <= Len(pool.free[c]) THEN pool.free[c][n]
        ELSE <<c, pool.fresh[c] + n - Len(pool.free[c])>>]

(* A pool p after those requests. *)
TakenFrom(p, cs) ==
  LET asked(c) == Cardinality({j \in DOMAIN cs : cs[j] = c})
      freed(c) == Min({asked(c), Len(p.free[c])})
  IN [free  |-> [c \in Classes |-> SubSeq(p.free[c], freed(c) + 1, Len(p.free[c]))],
      fresh |-> [c \in Classes |-> p.fresh[c] + asked(c) - freed(c)]]

Taken(cs) == TakenFrom(pool, cs)

Blank(c) ==
  CASE c = "text"  -> [h1 |-> None, h2 |-> None]
    [] c = "pair"  -> [val |-> Val("", NIL)]
    [] c = "chain" -> [header |-> NIL, tail |-> NIL, size |-> 0]
    [] c = "node"  -> [next |-> NIL, val |-> Val("", NIL)]
    [] c = "entry" -> [next |-> NIL, hash |-> 0, key |-> NIL, val |-> Val("", NIL),
                       h1 |-> None, h2 |-> None]

(* What a read of field f of a block finds.  (A function, as the next ones  *)
(* are, so that TLC evaluates an argument once.)                           *)
Addr == (Classes \X Nat) \cup {NIL, WILD}

Read(addr, f) ==
  LET at[b \in Addr] == IF b \in DOMAIN mem /\ f \in DOMAIN mem[b] THEN mem[b][f] ELSE WILD
  IN at[addr]

(* The address in the value, or in the string, at a block. *)
ValueAt(addr) ==
  LET at[b \in Addr] == IF b \in DOMAIN mem /\ "val" \in DOMAIN mem[b] THEN mem[b].val.addr ELSE WILD
  IN at[addr]

bulk(k) == <<"bulk", HashOf[k] % BUCKETS>>

W(b, f, x) == <<b, f, x>>

Free(b) == <<b, "free", NIL>>

(* The bytes of a long text lie where an entry has its links. *)
TextWrites(d, t) ==
  (IF d[1] = "entry" THEN <<W(d, "next", WILD)>> ELSE <<>>) \o <<W(d, "h1", t), W(d, "h2", t)>>

(* touchdb_str_new2: the string, and then its text. *)
touchdb_str_new2(v, s, d, t) ==
  <<W(v, "val", Val(STR, s)), W(s, "val", Val("len", d))>> \o TextWrites(d, t)

Count(b, n) == <<W(b, "size", mem[b].size + n)>>

link_entry_swaps_links(k, e) ==
  LET b == bulk(k) IN
  IF mem[b].size = 0
    THEN <<W(b, "tail", e), W(b, "header", e), W(e, "next", NIL)>> \o Count(b, 1)
    ELSE <<W(mem[b].tail, "next", e), W(b, "tail", e), W(e, "next", mem[b].tail)>> \o Count(b, 1)

link_entry_counts_first(k, e) ==
  LET b == bulk(k) IN
  Count(b, 1)
  \o (IF mem[b].size = 0
        THEN <<W(b, "tail", e), W(b, "header", e)>>
        ELSE <<W(mem[b].tail, "next", e), W(b, "tail", e)>>)
  \o <<W(e, "next", NIL)>>

(* The end of touchdb_map_put2 for a new key.  The entry is reachable       *)
(* before its next link is cleared, and counted last.                      *)
link_entry(k, e) ==
  LET b == bulk(k) IN
  (IF mem[b].size = 0
     THEN <<W(b, "tail", e), W(b, "header", e)>>
     ELSE <<W(mem[b].tail, "next", e), W(b, "tail", e)>>)
  \o <<W(e, "next", NIL)>> \o Count(b, 1)

entry_fields(k, e, kb, v) ==
  <<W(e, "hash", HashOf[k]), W(e, "val", v), W(e, "key", kb), W(kb, "h1", k), W(kb, "h2", k)>>

touchdb_map_put2_value_last(k, e, kb, v) ==
  SelectSeq(entry_fields(k, e, kb, v), LAMBDA w : w[2] # "val") \o link_entry(k, e) \o <<W(e, "val", v)>>

touchdb_map_put2(k, e, kb, v) == entry_fields(k, e, kb, v) \o link_entry(k, e)

node_new(n, v) == <<W(n, "next", NIL), W(n, "val", v)>>

push_linked_early(c, n, v) ==
  <<W(mem[c].tail, "next", n), W(c, "tail", n)>> \o node_new(n, v) \o Count(c, 1)

(* touchdb_chain_push_tail to a chain whose size is not 0. *)
push_linked(c, n, v) ==
  node_new(n, v) \o <<W(mem[c].tail, "next", n), W(c, "tail", n)>> \o Count(c, 1)

push_first(c, n, v) ==
  node_new(n, v) \o <<W(c, "tail", n), W(c, "header", n), W(c, "size", 1)>>

-----------------------------------------------------------------------------
(* What a client can read under each key; compare Touchdb!Value. *)

IsKey(e, k) ==
  /\ e[1] = "entry"
  /\ mem[e].hash = HashOf[k]
  /\ Read(mem[e].key, "h1") = k /\ Read(mem[e].key, "h2") = k

Whole(d) == IF Read(d, "h1") = Read(d, "h2") THEN Read(d, "h1") ELSE WILD

TextAt(b) == Whole(ValueAt(ValueAt(b)))

(* The first entry of k, and the texts of a chain, along next.  No bucket   *)
(* or chain has more than MAX_OPS blocks.                                  *)
Far == MAX_OPS + MAX_KILLS

EntryOf(k) ==
  LET from[p \in Addr \X (0 .. Far)] ==
        IF p[1] = NIL \/ p[2] = 0 THEN NIL
        ELSE IF IsKey(p[1], k) THEN p[1] ELSE from[<<Read(p[1], "next"), p[2] - 1>>]
  IN from[<<mem[bulk(k)].header, Far>>]

TextsOf(c) ==
  LET from[p \in Addr \X (0 .. Far)] ==
        IF p[1] = NIL \/ p[2] = 0 THEN <<>>
        ELSE <<TextAt(p[1])>> \o from[<<Read(p[1], "next"), p[2] - 1>>]
  IN from[<<Read(c, "header"), Far>>]

ValueOf(k) ==
  LET of[e \in Addr] ==
        CASE e = NIL -> [kind |-> "absent"]
          [] e # NIL /\ mem[e].val.type = CHAIN ->
               [kind |-> "list", texts |-> TextsOf(mem[e].val.addr)]
          [] OTHER -> [kind |-> "text", text |-> TextAt(e)]
  IN of[EntryOf(k)]

View == [k \in Keys |-> ValueOf(k)]

(* touchdb_get_str for idx = 0, touchdb_list_node_idx for others. *)
Answer(k, idx) ==
  CASE k \in StrKeys /\ view[k].kind = "text" -> view[k].text
    [] k \in ListKeys /\ view[k].kind = "list" ->
         IF idx \in DOMAIN view[k].texts THEN view[k].texts[idx] ELSE None
    [] OTHER -> None

-----------------------------------------------------------------------------
(* The writer. *)

NoAsks == [from |-> <<>>, cs |-> <<>>, due |-> <<>>]

ShmInit ==
  /\ mem = [b \in {<<"bulk", i>> : i \in 0 .. BUCKETS - 1} |->
              [header |-> NIL, tail |-> NIL, size |-> 0]]
  /\ pool = [free |-> [c \in Classes |-> <<>>], fresh |-> [c \in Classes |-> 0]]
  /\ todo = <<>>
  /\ call = [op |-> "none", key |-> None]
  /\ asks = NoAsks
  /\ torn = {}
  /\ ruined = FALSE
  /\ ops = 0
  /\ kills = 0
  /\ out = [k \in Keys |-> None]
  /\ lost = <<>>
  /\ view = View
  /\ rd = [r \in Readers |-> [pc |-> "idle"]]
  /\ seen = [r \in Readers |-> {}]
  /\ disturbed = {}

(* The key that the running call enters into the map. *)
BeingPut == IF todo # <<>> /\ call.op \in {"put_str", "list_new"} THEN {call.key} ELSE {}

Reading(r) == rd[r].pc \notin {"idle", "answered", "iterated"}

Seeks(r) == "key" \in DOMAIN rd[r]   \* every call but touchdb_iter

(* The writer is in no call and may make one. *)
Between == todo = <<>> /\ ops < MAX_OPS

(* The blocks that a write names: the one it goes to, and a link or value. *)
Named(w) ==
  {w[1]} \cup (CASE w[2] = "val" -> {w[3].addr}
                 [] w[2] \in {"next", "header", "tail", "key"} -> {w[3]}
                 [] OTHER -> {})

(* A block is asked for right before the first write that names it. *)
Requests(cs, writes) ==
  LET a == Blocks(cs) IN
  [from |-> pool, cs |-> cs,
   due |-> [i \in DOMAIN cs |->
              Len(writes) + 1 - Min({j \in DOMAIN writes : a[i] \in Named(writes[j])})]]

(* A call that asks for blocks of the classes cs and makes the writes. *)
Begin(op, k, cs, writes) ==
  LET carved == {Blocks(cs)[i] : i \in DOMAIN cs} \ DOMAIN mem IN
  /\ ops' = ops + 1
  /\ call' = [op |-> op, key |-> k]
  /\ pool' = Taken(cs)
  /\ mem' = [b \in DOMAIN mem \cup carved |-> IF b \in carved THEN Blank(b[1]) ELSE mem[b]]
  /\ todo' = writes
  /\ asks' = Requests(cs, writes)

(* touchdb_map_put2 looks for the key only in a bucket whose size is not 0. *)
touchdb_put_str(k, t) ==
  LET cs == <<"pair", "pair", "text", "entry", "text">>
      a  == Blocks(cs)
  IN
  /\ EntryOf(k) = NIL \/ mem[bulk(k)].size = 0
  /\ Begin("put_str", k, cs,
           touchdb_str_new2(a[1], a[2], a[3], t)
             \o touchdb_map_put2(k, a[4], a[5], Val(STR, a[2])) \o <<Free(a[1])>>)
  /\ UNCHANGED <<torn, ruined, kills, out, lost, disturbed>>

(* The caller makes the value, and frees its block afterwards. *)
touchdb_list_push_new(k, t) ==
  LET cs == <<"pair", "pair", ListTextClass, "pair", "chain", "node", "entry", "text">>
      a  == Blocks(cs)
  IN
  /\ EntryOf(k) = NIL
  /\ Begin("list_new", k, cs,
           touchdb_str_new2(a[1], a[2], a[3], t)
             \o <<W(a[4], "val", Val(CHAIN, a[5]))>>
             \o push_first(a[5], a[6], Val(STR, a[2]))
             \o touchdb_map_put2(k, a[7], a[8], Val(CHAIN, a[5]))
             \o <<Free(a[4]), Free(a[1])>>)
  /\ UNCHANGED <<torn, ruined, kills, out, lost, disturbed>>

ChainOf(k) == mem[EntryOf(k)].val.addr

touchdb_list_push(k, t) ==
  LET cs == <<"pair", "pair", ListTextClass, "node">>
      a  == Blocks(cs)
      c  == ChainOf(k)
  IN
  /\ EntryOf(k) # NIL
  /\ Begin("list_push", k, cs,
           touchdb_str_new2(a[1], a[2], a[3], t)
             \o (IF mem[c].size = 0 THEN push_first(c, a[4], Val(STR, a[2]))
                                    ELSE push_linked(c, a[4], Val(STR, a[2])))
             \o <<Free(a[1])>>)
  /\ UNCHANGED <<torn, ruined, kills, out, lost, disturbed>>

unlink_head_counts_not_last(c, next) ==
  <<W(c, "header", next)>> \o (IF next = NIL THEN <<W(c, "tail", NIL)>> ELSE Count(c, -1))

unlink_head(c, next) ==
  <<W(c, "header", next)>> \o (IF next = NIL THEN <<W(c, "tail", NIL)>> ELSE <<>>)
    \o Count(c, -1)

pull_head_frees_first(c, v) ==
  LET head == mem[c].header
      val  == mem[head].val
  IN <<W(v, "val", val), Free(ValueAt(val.addr)), Free(val.addr), Free(head)>>
       \o unlink_head(c, mem[head].next)

(* The head is unlinked before touchdb_malloc is called for the result. *)
pull_head(c, v) ==
  LET head == mem[c].header
      val  == mem[head].val
  IN unlink_head(c, mem[head].next) \o <<W(v, "val", val)>>
       \o <<Free(ValueAt(val.addr)), Free(val.addr), Free(head)>>

touchdb_list_pop(k) ==
  /\ EntryOf(k) # NIL
  /\ mem[ChainOf(k)].header # NIL
  /\ Begin("list_pop", k, <<"pair">>, pull_head(ChainOf(k), Blocks(<<"pair">>)[1]))
  /\ disturbed' = disturbed \cup {r \in Readers : Seeks(r) /\ rd[r].key = k}
  /\ UNCHANGED <<torn, ruined, kills, out, lost>>

-----------------------------------------------------------------------------
(* The requests to the pool that come before the next write. *)
Now == {i \in DOMAIN asks.cs : asks.due[i] = Len(todo)}

(* Whether request i gets a block from the free list of its class. *)
FromList(i) ==
  LET c == asks.cs[i]
  IN Cardinality({j \in 1 .. i : asks.cs[j] = c}) <= Len(asks.from.free[c])

(* The header of a list that counts a block too many is NIL once its last   *)
(* block is served; so is the tail then.                                   *)
ServesNil(i) == <<"size", asks.cs[i]>> \in torn /\ ~FromList(i)

FreesToNil(c) ==
  \/ <<"size", c>> \in torn /\ pool.free[c] = <<>>
  \/ <<"tail", c>> \in torn /\ pool.free[c] # <<>>

(* What the call does next takes the start of the pool for a block. *)
UsesNil ==
  \/ \E i \in Now : ServesNil(i)
  \/ Head(todo)[2] = "free" /\ FreesToNil(Head(todo)[1][1])

(* The next write of the call, or the next free. *)
Write ==
  LET w == Head(todo)
      b == w[1]
  IN
  /\ todo # <<>>
  /\ b # NIL
  /\ ~UsesNil
  /\ todo' = Tail(todo)
  /\ IF w[2] = "free"
       THEN /\ pool' = [pool EXCEPT !.free[b[1]] = Append(@, b)]
            /\ torn' = IF pool.free[b[1]] = <<>> THEN torn \ {<<"tail", b[1]>>} ELSE torn
            /\ UNCHANGED mem
       ELSE /\ mem' = [mem EXCEPT ![b][w[2]] = w[3]]
            /\ UNCHANGED <<pool, torn>>
  /\ asks' = IF \A i \in DOMAIN asks.cs : asks.due[i] >= Len(todo) THEN NoAsks ELSE asks
  /\ out' = IF call.op = "list_pop" /\ w[2] = "header" /\ call.key \notin DOMAIN lost
              THEN [out EXCEPT ![call.key] = TextAt(mem[b].header)]
              ELSE out
  /\ UNCHANGED <<call, ruined, ops, kills, lost, disturbed>>

(* The start of the pool is the bucket array: what follows may damage any   *)
(* key.  The model stops here.                                             *)
use_nil_offset ==
  /\ todo # <<>>
  /\ UsesNil
  /\ ruined' = TRUE
  /\ UNCHANGED <<mem, pool, todo, call, asks, torn, ops, kills, out, lost, view>>
  /\ UNCHANGED <<rd, seen, disturbed>>

CutShort ==
  /\ todo' = <<>>
  /\ asks' = NoAsks
  /\ lost' = [k \in DOMAIN lost \cup {call.key} |-> IF k \in DOMAIN lost THEN lost[k] ELSE view[k]]
  /\ UNCHANGED <<call, ruined, out, disturbed>>

(* Only the first n requests were made. *)
AskedOnly(n) ==
  IF n = Len(asks.cs)
    THEN UNCHANGED <<mem, pool>>
    ELSE /\ pool' = TakenFrom(asks.from, SubSeq(asks.cs, 1, n))
         /\ mem' = [b \in {d \in DOMAIN mem : d[1] \in Classes => d[2] <= pool'.fresh[d[1]]} |-> mem[b]]

(* The next request gets a block from its list, and the kill comes after   *)
(* list->tail_offset = NIL for the last block, or after list->header_offset *)
(* = hdr->next_offset; list->size-- is still to come.                      *)
kill_in_unlink(n) ==
  LET c    == asks.cs[n + 1]
      rest == TakenFrom(asks.from, SubSeq(asks.cs, 1, n)).free[c]
  IN
  /\ n + 1 \in Now
  /\ FromList(n + 1)
  /\ \/ AskedOnly(n + 1) /\ torn' = torn \cup {<<"size", c>>}
     \/ Len(rest) = 1 /\ AskedOnly(n) /\ torn' = torn \cup {<<"tail", c>>}

(* The kill comes before, between or in the requests for the next write, or *)
(* after them.  MAX_KILLS bounds the kills, and a behaviour has a kill or a *)
(* reader: what a reader meets when the writer was killed is what it meets *)
(* while the writer does not move.                                         *)
kill ==
  /\ todo # <<>>
  /\ ~ruined
  /\ kills < MAX_KILLS
  /\ \A r \in Readers : rd[r].pc = "idle"
  /\ kills' = kills + 1
  /\ ops' = ops - 1
  /\ \E n \in 0 .. Len(asks.cs) :
       /\ \A i \in DOMAIN asks.cs :
            IF i <= n THEN asks.due[i] >= Len(todo) /\ (i \in Now => ~ServesNil(i))
                      ELSE asks.due[i] <= Len(todo)
       /\ \/ AskedOnly(n) /\ UNCHANGED torn
          \/ kill_in_unlink(n)
  /\ CutShort

(* touchdb_chain_push_tail writes through the NULL that chain_tail returns. *)
crash ==
  /\ todo # <<>>
  /\ ~UsesNil
  /\ Head(todo)[1] = NIL
  /\ CutShort
  /\ UNCHANGED <<mem, pool, torn, ops, kills>>

WriterNext ==
  /\ \/ /\ Between
        /\ \/ \E k \in StrKeys, t \in Texts : touchdb_put_str(k, t)
           \/ \E k \in ListKeys, t \in Texts : touchdb_list_push_new(k, t) \/ touchdb_list_push(k, t)
           \/ \E k \in ListKeys : touchdb_list_pop(k)
     \/ Write
     \/ kill
     \/ crash
  /\ view' = View'
  /\ UNCHANGED rd
  /\ seen' = [r \in Readers |->
                IF Seeks(r)
                  THEN seen[r] \cup {Answer(rd[r].key, rd[r].idx)'} ELSE seen[r]]

-----------------------------------------------------------------------------
(* The readers. *)

Calls == (StrKeys \X {0}) \cup (ListKeys \X (1 .. MAX_INDEX))

start(r, k, idx) ==
  /\ rd[r].pc = "idle"
  /\ kills = 0
  /\ rd' = [rd EXCEPT ![r] = [pc |-> "bulk", key |-> k, idx |-> idx, at |-> bulk(k), i |-> 1,
                              half |-> None]]
  /\ seen' = [seen EXCEPT ![r] = {Answer(k, idx)}]
  /\ disturbed' = IF todo # <<>> /\ call = [op |-> "list_pop", key |-> k]
                    THEN disturbed \cup {r} ELSE disturbed
  /\ UNCHANGED writerVars

(* The reader is at a block of the class the code expects. *)
At(r, pc) == rd[r].pc = pc /\ UNCHANGED writerVars

Goto(r, pc, b) ==
  /\ rd' = [rd EXCEPT ![r].pc = pc, ![r].at = b]
  /\ UNCHANGED <<seen, disturbed>>

(* The call ends, and only what a client asks of its answer is kept. *)
Return(r, pc, right) ==
  /\ rd' = [rd EXCEPT ![r] = [pc |-> pc, right |-> right]]
  /\ seen' = [seen EXCEPT ![r] = {}]
  /\ disturbed' = disturbed \ {r}

ReturnText(r, t) == Return(r, "answered", r \in disturbed \/ t \in seen[r])

(* NULL is the answer NULL; other bytes lead the reader astray. *)
Move(r, pc, b) ==
  CASE b = NIL -> ReturnText(r, None)
    [] b = WILD -> ReturnText(r, WILD)
    [] OTHER -> Goto(r, pc, b)

get_bulk(r) == At(r, "bulk") /\ Move(r, "entry", mem[rd[r].at].header)

(* get_entry: an entry is found, or the next one is looked at. *)
get_entry(r) ==
  /\ At(r, "entry")
  /\ Goto(r, IF IsKey(rd[r].at, rd[r].key) THEN "val" ELSE "next", rd[r].at)

next_entry(r) == At(r, "next") /\ Move(r, "entry", Read(rd[r].at, "next"))

entry_val(r) ==
  LET v == mem[rd[r].at].val IN
  At(r, "val") /\ Move(r, IF v.type = CHAIN THEN "chain" ELSE "str", v.addr)

chain_header(r) == At(r, "chain") /\ Move(r, "node", Read(rd[r].at, "header"))

(* touchdb_chain_node_idx *)
next_node(r) ==
  /\ At(r, "node")
  /\ rd[r].i < rd[r].idx
  /\ LET b == Read(rd[r].at, "next") IN
     IF b = NIL
       THEN ReturnText(r, None)
       ELSE /\ rd' = [rd EXCEPT ![r].at = b, ![r].i = @ + 1]
            /\ UNCHANGED <<seen, disturbed>>

node_val(r) ==
  /\ At(r, "node")
  /\ rd[r].i = rd[r].idx
  /\ Move(r, "str", ValueAt(rd[r].at))

str_data(r) == At(r, "str") /\ Move(r, "first", ValueAt(rd[r].at))

first_half(r) ==
  /\ At(r, "first")
  /\ rd' = [rd EXCEPT ![r].pc = "second", ![r].half = Read(rd[r].at, "h1")]
  /\ UNCHANGED <<seen, disturbed>>

second_half(r) ==
  LET h2 == Read(rd[r].at, "h2") IN
  /\ At(r, "second")
  /\ ReturnText(r, IF h2 = rd[r].half THEN h2 ELSE WILD)

(* touchdb_iter: idx is the bucket, passed the keys given to the callback. *)
start_iter(r) ==
  /\ rd[r].pc = "idle"
  /\ kills = 0
  /\ rd' = [rd EXCEPT ![r] = [pc |-> "size", idx |-> 0, at |-> NIL, passed |-> <<>>]]
  /\ seen' = [seen EXCEPT ![r] = {k \in Keys : view[k].kind # "absent"} \ BeingPut]
  /\ UNCHANGED <<writerVars, disturbed>>

iter_size(r) ==
  /\ At(r, "size")
  /\ rd[r].idx < BUCKETS
  /\ rd' = [rd EXCEPT ![r].pc = IF mem[<<"bulk", rd[r].idx>>].size # 0 THEN "header" ELSE "size",
                      ![r].idx = IF mem[<<"bulk", @>>].size # 0 THEN @ ELSE @ + 1]
  /\ UNCHANGED <<seen, disturbed>>

iter_header(r) ==
  /\ At(r, "header")
  /\ Goto(r, "pass", mem[<<"bulk", rd[r].idx>>].header)

iter_entry(r) ==
  LET b == rd[r].at IN
  /\ At(r, "pass")
  /\ IF b[1] = "entry"
       THEN /\ rd' = [rd EXCEPT ![r].passed = Append(@, Whole(Read(b, "key"))), ![r].pc = "step"]
            /\ UNCHANGED <<seen, disturbed>>
       ELSE Return(r, "iterated", FALSE)

iter_next(r) ==
  LET b == Read(rd[r].at, "next") IN
  /\ At(r, "step")
  /\ IF b = NIL
       THEN /\ rd' = [rd EXCEPT ![r].pc = "size", ![r].idx = @ + 1]
            /\ UNCHANGED <<seen, disturbed>>
       ELSE Goto(r, "pass", b)

iter_ends(r) ==
  LET passed == ToSet(rd[r].passed) IN
  /\ At(r, "size")
  /\ rd[r].idx = BUCKETS
  /\ Return(r, "iterated", /\ IsInjective(rd[r].passed)
                           /\ seen[r] \subseteq passed
                           /\ passed \subseteq {k \in Keys : view[k].kind # "absent"})

read(r) ==
  \/ get_bulk(r) \/ get_entry(r) \/ next_entry(r) \/ entry_val(r)
  \/ chain_header(r) \/ next_node(r) \/ node_val(r)
  \/ str_data(r) \/ first_half(r) \/ second_half(r)
  \/ iter_size(r) \/ iter_header(r) \/ iter_entry(r) \/ iter_next(r) \/ iter_ends(r)

ShmNext ==
  \/ WriterNext
  \/ use_nil_offset
  \/ \E r \in Readers :
       \/ read(r)
       \/ \E c \in Calls : start(r, c[1], c[2])
       \/ start_iter(r)

(* A reader keeps running; the writer may stop in the middle of a call. *)
ShmSpec == ShmInit /\ [][ShmNext]_shmVars /\ \A r \in Readers : WF_shmVars(read(r))

-----------------------------------------------------------------------------

(* The store of which a killed call's key has the value it had then. *)
Kept == [k \in Keys |-> IF k \in DOMAIN lost THEN lost[k] ELSE view[k]]

Store == INSTANCE KvStore WITH kv <- Kept, out <- out

(* Seen by the readers, a call of the writer happens at one of its writes: *)
(* between any two writes, and where the writer stopped for good, the files *)
(* hold the store before the call or after it, with no text cut short.  A  *)
(* pop that hangs in touchdb_malloc has already removed its element.  When *)
(* a call was killed, all of this holds on for the keys of other calls,    *)
(* until the start of the pool is taken for a block.                       *)
ImplementsStore == Store!Spec

(* A call of a reader answers what was right at some moment during the     *)
(* call, unless its own list was popped meanwhile; pops of other lists,    *)
(* whose blocks become parts of anything, do not disturb it.               *)
ReadsCurrent == \A r \in Readers : rd[r].pc = "answered" => rd[r].right

(* touchdb_iter passes every key that was put before it began, no key      *)
(* twice, and none that is not there, although the bucket counts an entry  *)
(* only after it has linked it.                                            *)
IteratesAll == \A r \in Readers : rd[r].pc = "iterated" => rd[r].right

(* No call for another key crashes after a kill: a pop killed before it     *)
(* counts leaves a chain to which nobody can push any more, but the kill   *)
(* damages no more than the key whose call it cuts short.  This holds also *)
(* when the kill tore a free list, as long as that list still has blocks;  *)
(* then the start of the pool is taken for one, and nothing is promised.   *)
OneKeyPerKill == ~ruined => Cardinality(DOMAIN lost) <= kills

(* While no call was killed, the size and the tail of a list agree when a   *)
(* push reads them, whatever was pushed and popped before: it never writes *)
(* through a tail that is NULL.                                            *)
NoNullWrite == kills = 0 /\ todo # <<>> => Head(todo)[1] # NIL

(* No write of a call changes what can be read under another key, although *)
(* its blocks may have been parts of that key's value, or be so still in   *)
(* the links that a kill left behind.                                      *)
OnlyOwnKey ==
  [][\A k \in Keys \ DOMAIN lost : view'[k] # view[k] => k = call.key]_shmVars

(* A reader never waits for the writer and never runs in a circle, whatever *)
(* links it meets and even where the writer was stopped.                   *)
ReadsEnd == \A r \in Readers : Reading(r) ~> ~Reading(r)
=============================================================================
