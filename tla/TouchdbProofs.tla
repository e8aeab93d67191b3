--------------------------- MODULE TouchdbProofs ----------------------------
(***************************************************************************)
(* The calls of touchdb.c keep the database sound, and what follows from   *)
(* it: no block is freed twice, no two owners share one, what is put is    *)
(* read back, the table is sound, blocks are lost by touchdb_list_pop      *)
(* only, and the keys that are never rewritten are a key-value store: for  *)
(* any keys, texts, hashes and number of buckets.                          *)
(*                                                                         *)
(* Every block that is held has one owner.  Four tables that the code does *)
(* not have name the owners: own, of blocks, what each block is to whom;   *)
(* ent, of keys, the entry of each; es, of buckets, the keys each links;   *)
(* and ns, of keys, the nodes of each key's chain.  A block with the tag   *)
(* TMP belongs to the running call, one with the tag POPPED to the client. *)
(* Sound says that the memory is as the tables say.  The invariant is that *)
(* there are such tables, and a call changes only blocks of the key it is  *)
(* of, of its own, or new ones.  That is why two owners never come to      *)
(* share a block, however many calls there are.                            *)
(*                                                                         *)
(* Replacing a value frees the new value in place of the old one, which    *)
(* may then be reused while the key names it.  So Sound says of the value  *)
(* of a rewritten key only that its address is one of a string or a chain, *)
(* and that a chain is whole.                                              *)
(*                                                                         *)
(* First the functions of touchdb_map.c, touchdb_str.c and touchdb_chain.c *)
(* as they keep Sound; then each call, from memory to memory, with the     *)
(* tables (PutNew to Pop); then without them (InvAt, StepText, StepPush,   *)
(* StepPop), as the actions of Touchdb use them; then the invariant DbInv, *)
(* the properties of it, and the refinement of KvStore.                    *)
(***************************************************************************)
EXTENDS Touchdb, FiniteSetTheorems, SequenceTheorems, TLAPS

(* A set of natural numbers that is not empty has a least element. *)
LEMMA LeastElement ==
  ASSUME NEW n \in Nat, NEW T \in SUBSET (0 .. n), T # {}
  PROVE  \E x \in T : \A y \in T : x <= y
<1>1. PICK R : R = OpToRel(<, Nat)
  OBVIOUS
<1>2. \A x, y \in Nat : x < y => <<x, y>> \in R
  BY <1>1 DEF OpToRel
<1>3. IsWellFoundedOn(R, Nat)
  BY <1>1, NatLessThanWellFounded
<1>4. PICK x \in T : \A y \in T : ~(<<y, x>> \in R)
  <2>1. T \subseteq Nat
    OBVIOUS
  <2> QED
    BY ONLY <1>3, <2>1, T # {}, WFMin
<1>5. ASSUME NEW y \in T PROVE x <= y
  <2>1. x \in Nat /\ y \in Nat
    OBVIOUS
  <2>2. ~(y < x)
    BY ONLY <1>2, <1>4, <2>1, y \in T
  <2> QED
    BY ONLY <2>1, <2>2
<1> QED
  BY ONLY <1>5, x \in T

(* Two functions that begin alike and go on alike are alike. *)
GoAlike(f, g, n) == f[0] = g[0] /\ \A k \in 1 .. n : f[k - 1] = g[k - 1] => f[k] = g[k]

Alike(f, g, n) == \A k \in 0 .. n : f[k] = g[k]

(* Two functions that start alike and go on alike are alike. *)
LEMMA SameSteps ==
  ASSUME NEW n \in Nat, NEW f, NEW g, GoAlike(f, g, n)
  PROVE  Alike(f, g, n)
<1> USE DEF GoAlike
<1> SUFFICES ASSUME NEW j \in 0 .. n, f[j] # g[j] PROVE FALSE
  BY DEF Alike
<1> DEFINE T == {k \in 0 .. n : f[k] # g[k]}
<1>1. PICK k \in T : \A y \in T : k <= y
  BY LeastElement
<1>2. k \in 1 .. n
  BY <1>1
<1>3. k - 1 \in 0 .. n /\ k - 1 \notin T
  BY <1>1, <1>2
<1> QED
  BY <1>1, <1>2, <1>3

(* f begins with x and takes the steps of step. *)
StepsBy(f, x, step, n) == f[0] = x /\ \A k \in 1 .. n : f[k] = step[k][f[k - 1]]

(* A function that is defined step by step exists. *)
LEMMA StepsExist ==
  ASSUME NEW S, NEW n \in Nat, NEW x \in S, NEW step \in [1 .. n -> [S -> S]]
  PROVE  \E f \in [0 .. n -> S] : StepsBy(f, x, step, n)
<1> DEFINE Stepped(f, m) == f[0] = x /\ \A k \in 1 .. m : f[k] = step[k][f[k - 1]]
           T == {m \in 0 .. n : ~\E f \in [0 .. m -> S] : Stepped(f, m)}
<1>1. T = {}
  <2> SUFFICES ASSUME T # {} PROVE FALSE
    OBVIOUS
  <2>1. \E m \in T : \A y \in T : m <= y
    <3>1. T \in SUBSET (0 .. n)
      OBVIOUS
    <3> HIDE DEF T
    <3> QED
      BY <3>1, LeastElement
  <2>0. PICK m \in T : \A y \in T : m <= y
    <3> HIDE DEF T
    <3> QED
      BY <2>1
  <2>2. m # 0
    <3> SUFFICES ASSUME m = 0 PROVE FALSE
      OBVIOUS
    <3>1. PICK h : h = [k \in 0 .. m |-> x]
      OBVIOUS
    <3>2. h \in [0 .. m -> S] /\ Stepped(h, m)
      BY <3>1
    <3>3. ~\E f \in [0 .. m -> S] : Stepped(f, m)
      BY <2>0
    <3> HIDE DEF Stepped
    <3> QED
      BY <3>2, <3>3
  <2>3. m \in 1 .. n /\ m - 1 \in 0 .. n /\ m - 1 \notin T
    <3>1. T \subseteq 0 .. n
      OBVIOUS
    <3> HIDE DEF T
    <3> QED
      BY <2>0, <2>2, <3>1
  <2>4. PICK f \in [0 .. m - 1 -> S] : Stepped(f, m - 1)
    BY <2>3
  <2> DEFINE g == [k \in 0 .. m |-> IF k = m THEN step[m][f[m - 1]] ELSE f[k]]
  <2>5. step[m][f[m - 1]] \in S
    BY <2>3, <2>4
  <2>6. g \in [0 .. m -> S]
    BY <2>3, <2>4, <2>5
  <2>7. ASSUME NEW k \in 1 .. m PROVE g[k] = step[k][g[k - 1]]
    <3>1. k - 1 \in 0 .. m - 1 /\ k - 1 # m
      BY <2>3
    <3>2. g[k - 1] = f[k - 1]
      BY <2>3, <3>1
    <3>3. CASE k = m
      BY <2>3, <3>2, <3>3
    <3>4. CASE k # m
      <4>1. k \in 1 .. m - 1 /\ g[k] = f[k]
        BY <2>3, <3>4
      <4> QED
        BY <2>4, <3>2, <4>1
    <3> QED
      BY <3>3, <3>4
  <2>8. g[0] = x
    BY <2>3, <2>4
  <2> HIDE DEF g
  <2> QED
    BY <2>0, <2>6, <2>7, <2>8
<1>2. n \notin T /\ n \in 0 .. n
  BY <1>1
<1> QED
  BY <1>2 DEF StepsBy

-----------------------------------------------------------------------------
(* The memory, and what is sound about it. *)
Blocks == Classes \X Nat

(* The owner of the blocks of no key. *)
NoKey == CHOOSE x : x \notin Keys

(* The blocks that were carved out of the pages so far. *)
Carved(p) == {b \in Blocks : b[2] < p.fresh[b[1]]}

IsDb(p) ==
  p = [mem |-> p.mem, held |-> p.held, fault |-> p.fault, map_size |-> p.map_size,
       free |-> p.free, fresh |-> p.fresh, bulk |-> p.bulk]

(* The memory has the carved blocks, those held among them; the free lists *)
(* have carved blocks of their class that are not held, each once; and no  *)
(* block was freed that was not held.                                      *)
PoolOK(p) ==
  /\ IsDb(p)
  /\ p.fault = FALSE
  /\ p.fresh \in [Classes -> Nat]
  /\ p.free \in [Classes -> Seq(Blocks)]
  /\ p.mem = [b \in {NIL} \cup Carved(p) |-> p.mem[b]]
  /\ p.held \subseteq Carved(p)
  /\ \A c \in Classes : \A j \in 1 .. Len(p.free[c]) :
       /\ p.free[c][j] \in Carved(p) \ p.held
       /\ p.free[c][j][1] = c
       /\ \A m \in 1 .. Len(p.free[c]) : p.free[c][m] = p.free[c][j] => m = j

(* The tags of the blocks of no key. *)
TMP == <<"tmp", NoKey, NIL>>
POPPED == <<"popped", NoKey, NIL>>

(* The block b is held, is of class c, and is what tag says. *)
Has(p, own, b, c, tag) == b \in p.held /\ b[1] = c /\ own[b] = tag

(* The text block of the string at s, which is in the value of k.          *)
TextOK(p, own, s, k) == Has(p, own, p.mem[s].addr, "text", <<"len", k, s>>)

(* The string of the node n, in the value of k. *)
StrOK(p, own, n, k) ==
  LET s == p.mem[n].val.addr IN
  /\ p.mem[n].val = Val(STR, s)
  /\ Has(p, own, s, "pair", <<"str", k, n>>)
  /\ TextOK(p, own, s, k)

(* The node n of the chain of k, and what is behind it. *)
NodeOK(p, own, n, next, k) ==
  /\ Has(p, own, n, "node", <<"node", k, NIL>>)
  /\ p.mem[n] = [prev |-> p.mem[n].prev, next |-> next, val |-> p.mem[n].val]
  /\ StrOK(p, own, n, k)

At(s, j) == IF j \in 1 .. Len(s) THEN s[j] ELSE NIL

(* The chain c of k has the nodes s, from header to tail, each once. *)
ListOK(p, own, c, s, k) ==
  /\ Has(p, own, c, "chain", <<"chain", k, NIL>>)
  /\ s \in Seq(Blocks)
  /\ p.mem[c] = [header |-> At(s, 1), tail |-> At(s, Len(s)), size |-> Len(s)]
  /\ \A j \in 1 .. Len(s) : NodeOK(p, own, s[j], At(s, j + 1), k)
  /\ \A j, m \in 1 .. Len(s) : s[j] = s[m] => j = m

(* The value v of k, with the nodes s if it is a chain. A string is held   *)
(* if the value was kept, and may be any text or string if it was          *)
(* replaced.                                                               *)
ValueOK(p, own, v, s, k, kept) ==
  /\ v = Val(v.type, v.addr)
  /\ v.type \in {STR, CHAIN}
  /\ v.type = STR => v.addr[1] \in {"pair", "text"}
  /\ v.type = STR /\ kept =>
       /\ Has(p, own, v.addr, v.addr[1], <<"val", k, NIL>>)
       /\ v.addr[1] = "pair" => TextOK(p, own, v.addr, k)
  /\ v.type = CHAIN => ListOK(p, own, v.addr, s, k)

(* The entry e of k, with its hash and its copy of the key. *)
EntryOK(p, own, e, k) ==
  /\ Has(p, own, e, "entry", <<"entry", k, NIL>>)
  /\ p.mem[e] = [prev |-> p.mem[e].prev, next |-> p.mem[e].next, hash |-> HashOf[k],
                 key |-> p.mem[e].key, val |-> p.mem[e].val]
  /\ Has(p, own, p.mem[e].key, "text", <<"key", k, NIL>>)
  /\ p.mem[p.mem[e].key] = k

(* The entry of the key at j in the bucket s. *)
EntAt(ent, s, j) == IF j \in 1 .. Len(s) THEN ent[s[j]] ELSE NIL

(* Bucket i links the entries of the keys s, forward and backward, each    *)
(* once.                                                                   *)
BucketOK(p, i, ent, s) ==
  /\ s \in Seq(Keys)
  /\ p.bulk[i] = [header |-> EntAt(ent, s, 1), tail |-> EntAt(ent, s, Len(s)), size |-> Len(s)]
  /\ \A j \in 1 .. Len(s) :
       /\ ent[s[j]] # NIL
       /\ index_for(s[j]) = i
       /\ p.mem[ent[s[j]]].prev = EntAt(ent, s, j - 1)
       /\ p.mem[ent[s[j]]].next = EntAt(ent, s, j + 1)
  /\ \A j, m \in 1 .. Len(s) : s[j] = s[m] => j = m

(* The number of keys in all buckets. *)
Total(es) ==
  LET upto[i \in 0 .. BUCKETS] == IF i = 0 THEN 0 ELSE upto[i - 1] + Len(es[i - 1])
  IN upto[BUCKETS]

(* Every bucket is sound, every key with an entry is in the bucket of its  *)
(* hash, and map_size counts them.                                         *)
BucketsOK(p, ent, es) ==
  /\ p.bulk = [i \in 0 .. BUCKETS - 1 |-> p.bulk[i]]
  /\ \A i \in 0 .. BUCKETS - 1 : BucketOK(p, i, ent, es[i])
  /\ \A k \in Keys : ent[k] # NIL => \E j \in 1 .. Len(es[index_for(k)]) : es[index_for(k)][j] = k
  /\ p.map_size = Total(es)

(* The value of k was not replaced; rw says whether any value was. *)
Kept(k, rw) == k \notin RewriteKeys \/ ~rw

(* The entry e of k, when there is one, and its value. *)
KeyOK(p, own, e, s, k, rw) ==
  e # NIL => EntryOK(p, own, e, k) /\ ValueOK(p, own, p.mem[e].val, s, k, Kept(k, rw))

(* The block b is one of those of the value v, with the nodes s. *)
InValue(p, v, s, b) ==
  \/ b = v.addr
  \/ v.type = STR /\ v.addr[1] = "pair" /\ b = p.mem[v.addr].addr
  \/ /\ v.type = CHAIN
     /\ \E j \in 1 .. Len(s) : \/ b = s[j]
                               \/ b = p.mem[s[j]].val.addr
                               \/ b = p.mem[p.mem[s[j]].val.addr].addr

(* The block b is one of those of the entry e. *)
InKey(p, e, s, b) == b = e \/ b = p.mem[e].key \/ InValue(p, p.mem[e].val, s, b)

(* The block b can be reached from the table, or was popped. *)
InUse(p, ent, ns, pop, b) ==
  b \in pop \/ \E k \in Keys : ent[k] # NIL /\ InKey(p, ent[k], ns[k], b)

(* The memory is what the tables say. *)
MapOK(p, own, ent, es, ns, rw) ==
  /\ PoolOK(p)
  /\ BucketsOK(p, ent, es)
  /\ \A k \in Keys : KeyOK(p, own, ent[k], ns[k], k, rw)

(* The memory between two steps of a call. T are the blocks of the running *)
(* call, in use nowhere yet, or no longer. Unless a value was replaced,    *)
(* all others are in use.                                                  *)
Sound(p, own, ent, es, ns, pop, rw, T) ==
  /\ MapOK(p, own, ent, es, ns, rw)
  /\ \A b \in pop : Has(p, own, b, "pair", POPPED)
  /\ T = {b \in p.held : own[b] = TMP}
  /\ rw = FALSE => \A b \in p.held \ T : InUse(p, ent, ns, pop, b)

-----------------------------------------------------------------------------
(* The pool. *)

(* The block that is handed out next is not allocated. *)
LEMMA BlkIsFree ==
  ASSUME NEW p, PoolOK(p), NEW c \in Classes
  PROVE  Blk(p, c) \in Blocks \ p.held /\ Blk(p, c)[1] = c
<1>1. p.fresh[c] \in Nat /\ p.free[c] \in Seq(Blocks)
  BY DEF PoolOK
<1>2. CASE p.free[c] = <<>>
  <2>1. Blk(p, c) = <<c, p.fresh[c]>>
    BY <1>2 DEF Blk
  <2>2. <<c, p.fresh[c]>> \in Blocks /\ <<c, p.fresh[c]>> \notin Carved(p)
    BY <1>1 DEF Blocks, Carved
  <2> QED
    BY <2>1, <2>2 DEF PoolOK
<1>3. CASE p.free[c] # <<>>
  <2>1. Blk(p, c) = p.free[c][1] /\ 1 \in 1 .. Len(p.free[c])
    BY <1>1, <1>3 DEF Blk
  <2> QED
    BY <1>1, <2>1 DEF PoolOK
<1> QED
  BY <1>2, <1>3

(* A block that the pool hands out was not held and is now; all other      *)
(* blocks keep their contents (pool_malloc as the calls see it).           *)
LEMMA NewKeeps ==
  ASSUME NEW p, PoolOK(p), NEW c \in Classes, NEW x, NEW b, b = Blk(p, c),
         NEW q, q = New(p, c, x)
  PROVE  /\ PoolOK(q)
         /\ b \in Blocks \ p.held /\ b[1] = c
         /\ q.held = p.held \cup {b}
         /\ q.mem[b] = x
         /\ \A a \in {NIL} \cup Carved(p) : a # b => q.mem[a] = p.mem[a]
         /\ Carved(p) \subseteq Carved(q)
         /\ q.bulk = p.bulk /\ q.map_size = p.map_size
<1>0. b \in Blocks \ p.held /\ b[1] = c
  BY BlkIsFree
<1>1. p.fresh[c] \in Nat /\ p.free[c] \in Seq(Blocks)
  BY DEF PoolOK
<1>2. /\ q.mem = Filled(p.mem, b, x) /\ q.held = p.held \cup {b}
      /\ q.bulk = p.bulk /\ q.map_size = p.map_size /\ q.fault = p.fault
      /\ q.free = [p.free EXCEPT ![c] = IF @ = <<>> THEN @ ELSE Tail(@)]
      /\ q.fresh = [p.fresh EXCEPT ![c] = IF p.free[c] = <<>> THEN @ + 1 ELSE @]
      /\ IsDb(q)
  BY DEF New, PoolOK, IsDb
<1>3. q.fresh \in [Classes -> Nat] /\ q.free \in [Classes -> Seq(Blocks)]
  BY <1>1, <1>2, SMTT(30) DEF PoolOK
<1>4. Carved(q) = Carved(p) \cup {b}
  <2>1. CASE p.free[c] = <<>>
    <3>1. b = <<c, p.fresh[c]>>
      BY <2>1 DEF Blk
    <3>2. \A d \in Classes : q.fresh[d] = IF d = c THEN p.fresh[c] + 1 ELSE p.fresh[d]
      BY <1>2, <2>1 DEF PoolOK
    <3>3. ASSUME NEW a \in Blocks PROVE a[2] < q.fresh[a[1]] <=> a[2] < p.fresh[a[1]] \/ a = b
      <4>1. a = <<a[1], a[2]>> /\ a[1] \in Classes /\ a[2] \in Nat
        BY DEF Blocks
      <4>2. p.fresh[a[1]] \in Nat
        BY <4>1 DEF PoolOK
      <4>3. CASE a[1] = c
        BY <3>1, <3>2, <4>1, <4>2, <4>3
      <4>4. CASE a[1] # c
        BY <3>1, <3>2, <4>1, <4>2, <4>4
      <4> QED
        BY <4>3, <4>4
    <3> QED
      BY <1>0, <3>3 DEF Carved
  <2>2. CASE p.free[c] # <<>>
    <3>1. b = p.free[c][1] /\ 1 \in 1 .. Len(p.free[c])
      BY <1>1, <2>2 DEF Blk
    <3>2. b \in Carved(p)
      BY <3>1 DEF PoolOK
    <3>3. q.fresh = p.fresh
      BY <1>2, <2>2 DEF PoolOK
    <3> QED
      BY <3>2, <3>3 DEF Carved
  <2> QED
    BY <2>1, <2>2
<1>5. /\ DOMAIN q.mem = {NIL} \cup Carved(q)
      /\ q.mem = [a \in {NIL} \cup Carved(q) |-> q.mem[a]]
      /\ q.mem[b] = x
      /\ \A a \in {NIL} \cup Carved(p) : a # b => q.mem[a] = p.mem[a]
  <2>1. DOMAIN p.mem = {NIL} \cup Carved(p)
    BY DEF PoolOK
  <2> QED
    BY <1>2, <1>4, <2>1 DEF Filled
<1>6. ASSUME NEW d \in Classes, NEW j \in 1 .. Len(q.free[d])
      PROVE  /\ q.free[d][j] \in Carved(q) \ q.held
             /\ q.free[d][j][1] = d
             /\ \A m \in 1 .. Len(q.free[d]) : q.free[d][m] = q.free[d][j] => m = j
  <2>1. CASE d = c /\ p.free[c] # <<>>
    <3>1. q.free[d] = Tail(p.free[c])
      BY <1>2, <2>1 DEF PoolOK
    <3>2. /\ Len(q.free[d]) = Len(p.free[c]) - 1
          /\ \A m \in 1 .. Len(q.free[d]) : m + 1 \in 1 .. Len(p.free[c]) /\ q.free[d][m] = p.free[c][m + 1]
      BY <1>1, <2>1, <3>1, HeadTailProperties
    <3>3. b = p.free[c][1] /\ 1 \in 1 .. Len(p.free[c])
      BY <1>1, <2>1 DEF Blk
    <3>4. /\ p.free[c][j + 1] \in Carved(p) \ p.held /\ p.free[c][j + 1][1] = c
          /\ \A m \in 1 .. Len(p.free[c]) : p.free[c][m] = p.free[c][j + 1] => m = j + 1
      BY <3>2 DEF PoolOK
    <3>5. p.free[c][j + 1] # b
      BY <1>1, <3>2, <3>3, <3>4
    <3> QED
      BY <1>1, <1>2, <1>4, <2>1, <3>2, <3>4, <3>5
  <2>2. CASE ~(d = c /\ p.free[c] # <<>>)
    <3>1. q.free[d] = p.free[d]
      BY <1>2, <2>2 DEF PoolOK
    <3>2. /\ p.free[d][j] \in Carved(p) \ p.held /\ p.free[d][j][1] = d
          /\ \A m \in 1 .. Len(p.free[d]) : p.free[d][m] = p.free[d][j] => m = j
      BY <3>1 DEF PoolOK
    <3>3. d # c
      BY <1>1, <2>2, <3>1, EmptySeq
    <3> QED
      BY <1>0, <1>2, <1>4, <3>1, <3>2, <3>3
  <2> QED
    BY <2>1, <2>2
<1>7. q.held \subseteq Carved(q)
  BY <1>2, <1>4 DEF PoolOK
<1>8. q.fault = FALSE
  BY <1>2, SMTT(30) DEF PoolOK
<1>9. PoolOK(q)
  BY <1>2, <1>3, <1>5, <1>6, <1>7, <1>8 DEF PoolOK
<1> QED
  BY <1>0, <1>2, <1>4, <1>5, <1>9

(* A held block that is freed is held no more, and keeps its contents. *)
LEMMA FreeKeeps ==
  ASSUME NEW p, PoolOK(p), NEW b \in p.held, NEW q, q = Free(p, b)
  PROVE  /\ PoolOK(q)
         /\ q.held = p.held \ {b}
         /\ q.mem = p.mem /\ q.bulk = p.bulk /\ q.map_size = p.map_size
<1>0. b \in Carved(p) /\ b \in Blocks /\ b[1] \in Classes
  BY DEF PoolOK, Carved, Blocks
<1>1. p.free[b[1]] \in Seq(Blocks)
  BY <1>0 DEF PoolOK
<1>2. /\ q.mem = p.mem /\ q.held = p.held \ {b} /\ q.bulk = p.bulk /\ q.map_size = p.map_size
      /\ q.fresh = p.fresh /\ q.fault = FALSE /\ IsDb(q)
      /\ q.free = [p.free EXCEPT ![b[1]] = Append(@, b)]
  BY DEF Free, PoolOK, IsDb
<1>3. q.free \in [Classes -> Seq(Blocks)]
  BY <1>0, <1>1, <1>2 DEF PoolOK
<1>4. Carved(q) = Carved(p)
  BY <1>2 DEF Carved
<1>5. ASSUME NEW d \in Classes, NEW j \in 1 .. Len(q.free[d])
      PROVE  /\ q.free[d][j] \in Carved(q) \ q.held
             /\ q.free[d][j][1] = d
             /\ \A m \in 1 .. Len(q.free[d]) : q.free[d][m] = q.free[d][j] => m = j
  <2>1. \A m \in 1 .. Len(p.free[d]) :
           /\ p.free[d][m] \in Carved(p) \ p.held /\ p.free[d][m][1] = d
           /\ \A l \in 1 .. Len(p.free[d]) : p.free[d][l] = p.free[d][m] => l = m
    BY DEF PoolOK
  <2>2. CASE d = b[1]
    <3>1. q.free[d] = Append(p.free[d], b)
      BY <1>0, <1>2, <2>2 DEF PoolOK
    <3>2. /\ Len(q.free[d]) = Len(p.free[d]) + 1 /\ Len(p.free[d]) \in Nat
          /\ \A m \in 1 .. Len(p.free[d]) : q.free[d][m] = p.free[d][m]
          /\ q.free[d][Len(p.free[d]) + 1] = b
      BY <1>0, <1>1, <2>2, <3>1
    <3>3. \A m \in 1 .. Len(q.free[d]) : m \in 1 .. Len(p.free[d]) \/ m = Len(p.free[d]) + 1
      BY <3>2
    <3>4. CASE j \in 1 .. Len(p.free[d])
      BY <1>2, <1>4, <2>1, <3>2, <3>3, <3>4
    <3>5. CASE j = Len(p.free[d]) + 1
      BY <1>0, <1>2, <1>4, <2>1, <2>2, <3>2, <3>3, <3>5, SMTT(30)
    <3> QED
      BY <3>3, <3>4, <3>5
  <2>3. CASE d # b[1]
    <3>1. q.free[d] = p.free[d]
      BY <1>0, <1>2, <2>3 DEF PoolOK
    <3> QED
      BY <1>2, <1>4, <2>1, <3>1
  <2> QED
    BY <2>2, <2>3
<1>6. PoolOK(q)
  BY <1>2, <1>3, <1>4, <1>5 DEF PoolOK
<1> QED
  BY <1>2, <1>6

(* From p to q only the contents of b change, to x. *)
IsSet(p, q, b, x) ==
  /\ PoolOK(q)
  /\ q.held = p.held /\ q.bulk = p.bulk /\ q.map_size = p.map_size
  /\ q.mem[b] = x /\ \A a \in {NIL} \cup Carved(p) : a # b => q.mem[a] = p.mem[a]
  /\ Carved(q) = Carved(p)

(* A write to a held block changes that block and nothing else. *)
LEMMA SetKeeps ==
  ASSUME NEW p, PoolOK(p), NEW b \in p.held, NEW x, NEW q, q = Set(p, b, x)
  PROVE  IsSet(p, q, b, x)
<1>1. b \in DOMAIN p.mem
  BY DEF PoolOK
<1>2. /\ q.held = p.held /\ q.bulk = p.bulk /\ q.map_size = p.map_size /\ q.fresh = p.fresh
      /\ q.free = p.free /\ q.fault = p.fault /\ IsDb(q)
      /\ q.mem = [p.mem EXCEPT ![b] = x]
  BY DEF Set, PoolOK, IsDb
<1>3. Carved(q) = Carved(p)
  BY <1>2 DEF Carved
<1>4. /\ q.mem = [a \in {NIL} \cup Carved(q) |-> q.mem[a]]
      /\ q.mem[b] = x /\ \A a \in {NIL} \cup Carved(p) : a # b => q.mem[a] = p.mem[a]
  BY <1>1, <1>2, <1>3 DEF PoolOK
<1>5. \A c \in Classes : \A j \in 1 .. Len(q.free[c]) :
        /\ q.free[c][j] \in Carved(q) \ q.held
        /\ q.free[c][j][1] = c
        /\ \A m \in 1 .. Len(q.free[c]) : q.free[c][m] = q.free[c][j] => m = j
  BY <1>2, <1>3 DEF PoolOK
<1>6. PoolOK(q)
  BY <1>2, <1>3, <1>4, <1>5 DEF PoolOK
<1> QED
  BY <1>2, <1>3, <1>4, <1>6 DEF IsSet

-----------------------------------------------------------------------------
(* What a change elsewhere leaves alone. *)

SameFields(a, b) ==
  b = [prev |-> b.prev, next |-> b.next, hash |-> a.hash, key |-> a.key, val |-> a.val]

(* From p to q nothing happens to the blocks of key k but to the links of   *)
(* its entry.                                                              *)
Keeps(p, q, own, own2, k) ==
  \A b \in p.held :
    own[b][2] = k =>
      /\ b \in q.held /\ own2[b] = own[b]
      /\ q.mem[b] = p.mem[b] \/ (b[1] = "entry" /\ SameFields(p.mem[b], q.mem[b]))

TextsAt(p, s) == [i \in 1 .. Len(s) |-> p.mem[p.mem[p.mem[s[i]].val.addr].addr]]

TextOf(p, v) == IF v.addr[1] = "pair" THEN p.mem[p.mem[v.addr].addr] ELSE p.mem[v.addr]

(* What a client reads of the value v, whose list has the nodes s. *)
AbsOf(p, v, s) ==
  IF v.type = CHAIN THEN [kind |-> "list", texts |-> TextsAt(p, s)]
                    ELSE [kind |-> "text", text |-> TextOf(p, v)]

AbsVal(p, e, s) == IF e = NIL THEN [kind |-> "absent"] ELSE AbsOf(p, p.mem[e].val, s)

(* The text of a string stays, when the blocks of its key do. *)
LEMMA TextFrame ==
  ASSUME NEW p, NEW q, NEW own, NEW own2, NEW k, Keeps(p, q, own, own2, k), NEW s, q.mem[s] = p.mem[s],
         TextOK(p, own, s, k)
  PROVE  TextOK(q, own2, s, k) /\ q.mem[q.mem[s].addr] = p.mem[p.mem[s].addr]
BY SMTT(30) DEF TextOK, Has, Keeps

(* The node n, its string and its text are in q what they are in p. *)
SameNode(p, q, n) ==
  /\ q.mem[n] = p.mem[n]
  /\ q.mem[p.mem[n].val.addr] = p.mem[p.mem[n].val.addr]
  /\ q.mem[p.mem[p.mem[n].val.addr].addr] = p.mem[p.mem[p.mem[n].val.addr].addr]

(* A node of a chain stays with its string and its text, when the blocks   *)
(* of its key do.                                                          *)
LEMMA NodeFrame ==
  ASSUME NEW p, NEW q, NEW own, NEW own2, NEW k, Keeps(p, q, own, own2, k), NEW n, NEW next,
         NodeOK(p, own, n, next, k)
  PROVE  /\ NodeOK(q, own2, n, next, k)
         /\ SameNode(p, q, n)
<1>1. Has(p, own, n, "node", <<"node", k, NIL>>) /\ StrOK(p, own, n, k)
  BY DEF NodeOK
<1>2. q.mem[n] = p.mem[n] /\ Has(q, own2, n, "node", <<"node", k, NIL>>)
  BY <1>1 DEF Has, Keeps
<1> DEFINE s == p.mem[n].val.addr
<1>3. Has(p, own, s, "pair", <<"str", k, n>>) /\ TextOK(p, own, s, k) /\ p.mem[n].val = Val(STR, s)
  BY <1>1 DEF StrOK
<1>4. q.mem[s] = p.mem[s] /\ Has(q, own2, s, "pair", <<"str", k, n>>)
  BY <1>3 DEF Has, Keeps
<1> HIDE DEF s
<1>5. TextOK(q, own2, s, k) /\ q.mem[q.mem[s].addr] = p.mem[p.mem[s].addr]
  BY <1>3, <1>4, TextFrame
<1> QED
  BY <1>2, <1>3, <1>4, <1>5, Zenon DEF NodeOK, StrOK, SameNode, s

SameList(p, q, s) == \A i \in 1 .. Len(s) : SameNode(p, q, s[i])

(* A chain stays with all its nodes, when the blocks of its key do. *)
LEMMA ListFrame ==
  ASSUME NEW p, NEW q, NEW own, NEW own2, NEW k, Keeps(p, q, own, own2, k), NEW c, NEW s,
         ListOK(p, own, c, s, k)
  PROVE  /\ ListOK(q, own2, c, s, k)
         /\ SameList(p, q, s)
<1>1. Has(q, own2, c, "chain", <<"chain", k, NIL>>) /\ q.mem[c] = p.mem[c]
  BY DEF ListOK, Has, Keeps
<1>2. ASSUME NEW i \in 1 .. Len(s)
      PROVE  /\ NodeOK(q, own2, s[i], At(s, i + 1), k)
             /\ SameNode(p, q, s[i])
  <2>1. NodeOK(p, own, s[i], At(s, i + 1), k)
    BY DEF ListOK
  <2> QED
    BY ONLY Keeps(p, q, own, own2, k), <2>1, NodeFrame
<1> QED
  BY <1>1, <1>2 DEF ListOK, SameList

(* A value of k is as it was, and reads as it did. *)
LEMMA ValueFrame ==
  ASSUME NEW p, NEW q, NEW own, NEW own2, NEW k, Keeps(p, q, own, own2, k), NEW v, NEW s,
         NEW kept, NEW kept2, ValueOK(p, own, v, s, k, kept), kept2 => kept
  PROVE  /\ ValueOK(q, own2, v, s, k, kept2)
         /\ kept \/ v.type = CHAIN =>
              /\ AbsOf(q, v, s) = AbsOf(p, v, s)
              /\ \A b : InValue(p, v, s, b) => InValue(q, v, s, b)
<1>1. v = Val(v.type, v.addr) /\ v.type \in {STR, CHAIN}
  BY DEF ValueOK
<1>2. CASE v.type = CHAIN
  <2>1. PICK c : c = v.addr
    OBVIOUS
  <2>2. ListOK(p, own, c, s, k)
    BY <1>2, <2>1 DEF ValueOK
  <2>3. ListOK(q, own2, c, s, k) /\ SameList(p, q, s)
    BY <2>2, ListFrame
  <2>4. ValueOK(q, own2, v, s, k, kept2)
    BY <1>1, <1>2, <2>1, <2>3, SMTT(30) DEF ValueOK, STR, CHAIN
  <2>5. TextsAt(q, s) = TextsAt(p, s)
    BY <2>3, ZenonT(40) DEF TextsAt, SameList, SameNode
  <2>6. \A b : InValue(p, v, s, b) => InValue(q, v, s, b)
    BY <1>2, <2>3, ZenonT(40) DEF InValue, STR, CHAIN, SameList, SameNode
  <2> QED
    BY <1>2, <2>4, <2>5, <2>6 DEF AbsOf
<1>3. CASE v.type = STR
  <2>1. v.addr[1] \in {"pair", "text"} /\ v.type # CHAIN
    BY <1>3 DEF ValueOK, STR, CHAIN
  <2>2. PICK a : a = v.addr
    OBVIOUS
  <2>3. ASSUME kept
        PROVE  /\ Has(q, own2, a, a[1], <<"val", k, NIL>>)
               /\ q.mem[a] = p.mem[a]
               /\ a[1] = "pair" => TextOK(q, own2, a, k) /\ q.mem[q.mem[a].addr] = p.mem[p.mem[a].addr]
    <3>1. Has(p, own, a, a[1], <<"val", k, NIL>>) /\ (a[1] = "pair" => TextOK(p, own, a, k))
      BY <1>3, <2>2, <2>3 DEF ValueOK
    <3>2. Has(q, own2, a, a[1], <<"val", k, NIL>>) /\ q.mem[a] = p.mem[a]
      BY <2>1, <2>2, <3>1 DEF Has, Keeps
    <3> QED
      BY <3>1, <3>2, TextFrame
  <2>4. ValueOK(q, own2, v, s, k, kept2)
    BY <1>1, <1>3, <2>1, <2>2, <2>3 DEF ValueOK, STR, CHAIN
  <2>5. kept => AbsOf(q, v, s) = AbsOf(p, v, s)
    BY <2>1, <2>2, <2>3 DEF AbsOf, TextOf
  <2>6. kept => \A b : InValue(p, v, s, b) => InValue(q, v, s, b)
    BY <1>3, <2>1, <2>2, <2>3, Zenon DEF InValue
  <2> QED
    BY <2>1, <2>4, <2>5, <2>6
<1> QED
  BY <1>1, <1>2, <1>3

(* The entry and the value of k are as they were, and read as they did. *)
LEMMA KeyFrame ==
  ASSUME NEW p, NEW q, NEW own, NEW own2, NEW k, Keeps(p, q, own, own2, k), NEW e, NEW s, NEW rw, NEW rw2,
         KeyOK(p, own, e, s, k, rw), Kept(k, rw2) => Kept(k, rw)
  PROVE  /\ KeyOK(q, own2, e, s, k, rw2)
         /\ e # NIL => q.mem[e].val = p.mem[e].val /\ q.mem[e].key = p.mem[e].key
         /\ Kept(k, rw) \/ (e # NIL /\ p.mem[e].val.type = CHAIN) =>
              /\ AbsVal(q, e, s) = AbsVal(p, e, s)
              /\ e # NIL => \A b : InKey(p, e, s, b) => InKey(q, e, s, b)
<1>1. CASE e = NIL
  BY <1>1 DEF KeyOK, AbsVal
<1>2. CASE e # NIL
  <2>0. PICK v : v = p.mem[e].val
    OBVIOUS
  <2>1. EntryOK(p, own, e, k) /\ ValueOK(p, own, v, s, k, Kept(k, rw))
    BY <1>2, <2>0 DEF KeyOK
  <2>2. /\ Has(q, own2, e, "entry", <<"entry", k, NIL>>)
        /\ q.mem[e] = [prev |-> q.mem[e].prev, next |-> q.mem[e].next, hash |-> HashOf[k],
                       key |-> p.mem[e].key, val |-> p.mem[e].val]
    BY <2>1 DEF EntryOK, Has, Keeps, SameFields
  <2>3. q.mem[e].key = p.mem[e].key /\ q.mem[e].val = v
    BY <2>0, <2>2
  <2>4. EntryOK(q, own2, e, k)
    BY <2>1, <2>2, <2>3 DEF EntryOK, Has, Keeps
  <2>5. /\ ValueOK(q, own2, v, s, k, Kept(k, rw2))
        /\ Kept(k, rw) \/ v.type = CHAIN =>
             /\ AbsOf(q, v, s) = AbsOf(p, v, s)
             /\ \A b : InValue(p, v, s, b) => InValue(q, v, s, b)
    BY <2>1, ValueFrame
  <2> QED
    BY <1>2, <2>0, <2>3, <2>4, <2>5 DEF KeyOK, AbsVal, InKey
<1> QED
  BY <1>1, <1>2

-----------------------------------------------------------------------------
(* The walks along the links. *)

(* f goes from header along next, for n steps. *)
IsWalk(p, f, header, n) ==
  f = [k \in 0 .. n |-> IF k = 0 THEN header
                        ELSE IF f[k - 1] = NIL THEN NIL ELSE p.mem[f[k - 1]].next]

(* A walk that is as long as there are entries passes those of the bucket. *)
LEMMA EntriesAre ==
  ASSUME NEW p, PoolOK(p), NEW i \in 0 .. BUCKETS - 1, NEW ent, NEW s, BucketOK(p, i, ent, s),
         \A j \in 1 .. Len(s) : ent[s[j]] \in p.held /\ ent[s[j]][1] = "entry",
         \A j, m \in 1 .. Len(s) : ent[s[j]] = ent[s[m]] => j = m
  PROVE  Entries(p, i) = [j \in 1 .. Len(s) |-> ent[s[j]]]
<1>0. PICK n, L, header : n = p.fresh["entry"] /\ L = Len(s) /\ header = p.bulk[i].header
  OBVIOUS
<1> DEFINE w == [k \in 0 .. n |-> IF k < L THEN ent[s[k + 1]] ELSE NIL]
           at == CHOOSE f : IsWalk(p, f, p.bulk[i].header, p.fresh["entry"])
           passed == {k \in 0 .. p.fresh["entry"] : at[k] # NIL}
<1>1. n \in Nat /\ L \in Nat /\ s \in Seq(Keys)
  BY <1>0 DEF PoolOK, BucketOK, Classes
<1>2. ASSUME NEW j \in 1 .. L
      PROVE  ent[s[j]] \in Blocks /\ ent[s[j]] # NIL /\ ent[s[j]][2] \in 0 .. n - 1
             /\ ent[s[j]] = <<"entry", ent[s[j]][2]>>
  <2>1. ent[s[j]] \in Carved(p) /\ ent[s[j]][1] = "entry"
    BY <1>0 DEF PoolOK
  <2> QED
    BY <1>0, <1>1, <2>1 DEF Carved, Blocks, NIL, Classes
<1>3. L <= n
  <2> DEFINE g == [j \in 1 .. L |-> ent[s[j]][2]]
  <2>1. g \in Injection(1 .. L, 0 .. n - 1)
    <3>1. g \in [1 .. L -> 0 .. n - 1]
      BY <1>2
    <3>2. ASSUME NEW j \in 1 .. L, NEW m \in 1 .. L, g[j] = g[m] PROVE j = m
      <4>1. ent[s[j]][2] = ent[s[m]][2]
        BY <3>2
      <4>2. ent[s[j]] = ent[s[m]]
        BY <1>2, <4>1
      <4> QED
        BY <1>0, <4>2
    <3> QED
      BY <3>1, <3>2 DEF Injection, IsInjective
  <2>2. /\ IsFiniteSet(0 .. n - 1) /\ Cardinality(0 .. n - 1) = n
        /\ Cardinality(1 .. L) = L
    BY <1>1, FS_Interval
  <2> HIDE DEF g
  <2>3. Cardinality(1 .. L) <= Cardinality(0 .. n - 1)
    BY <2>1, <2>2, FS_Injection
  <2> QED
    BY <2>2, <2>3
<1>4. /\ header = IF L = 0 THEN NIL ELSE ent[s[1]]
      /\ \A j \in 1 .. L : p.mem[ent[s[j]]].next = IF j = L THEN NIL ELSE ent[s[j + 1]]
  BY <1>0, <1>1 DEF BucketOK, EntAt
<1>5. IsWalk(p, w, header, n)
  <2>1. ASSUME NEW k \in 0 .. n
        PROVE  w[k] = IF k = 0 THEN header
                      ELSE IF w[k - 1] = NIL THEN NIL ELSE p.mem[w[k - 1]].next
    <3>1. CASE k = 0
      BY <1>1, <1>4, <3>1
    <3>2. CASE k # 0
      <4>1. k - 1 \in 0 .. n /\ k \in Nat /\ (k - 1) + 1 = k
        BY <1>1, <3>2
      <4>2. CASE k - 1 < L
        <5>1. w[k - 1] = ent[s[k]] /\ k \in 1 .. L
          BY <1>1, <3>2, <4>1, <4>2
        <5>2. w[k - 1] # NIL /\ p.mem[w[k - 1]].next = IF k = L THEN NIL ELSE ent[s[k + 1]]
          BY <1>2, <1>4, <5>1
        <5>3. w[k] = IF k = L THEN NIL ELSE ent[s[k + 1]]
          BY <1>1, <5>1
        <5> HIDE DEF w
        <5> QED
          BY <3>2, <5>2, <5>3
      <4>3. CASE ~(k - 1 < L)
        BY <1>1, <3>2, <4>1, <4>3
      <4> QED
        BY <4>2, <4>3
    <3> QED
      BY <3>1, <3>2
  <2>2. w = [k \in 0 .. n |-> w[k]]
    OBVIOUS
  <2> HIDE DEF w
  <2> QED
    BY <2>1, <2>2, Zenon DEF IsWalk
<1>6. IsWalk(p, at, header, n)
  <2>1. IsWalk(p, w, p.bulk[i].header, p.fresh["entry"])
    <3> HIDE DEF w
    <3> QED
      BY <1>0, <1>5
  <2>2. IsWalk(p, at, p.bulk[i].header, p.fresh["entry"])
    <3> HIDE DEF w
    <3> QED
      BY <2>1, Zenon
  <2> HIDE DEF at
  <2> QED
    BY <1>0, <2>2
<1>7. \A k \in 0 .. n : at[k] = w[k]
  <2>1. /\ DOMAIN at = 0 .. n /\ at[0] = header
        /\ \A k \in 1 .. n : at[k] = IF at[k - 1] = NIL THEN NIL ELSE p.mem[at[k - 1]].next
    <3> HIDE DEF at
    <3> QED
      BY <1>1, <1>6 DEF IsWalk
  <2>2. /\ w[0] = header
        /\ \A k \in 1 .. n : w[k] = IF w[k - 1] = NIL THEN NIL ELSE p.mem[w[k - 1]].next
    <3> HIDE DEF w
    <3> QED
      BY <1>1, <1>5 DEF IsWalk
  <2> HIDE DEF at, w
  <2>3. \A k \in 1 .. n : at[k - 1] = w[k - 1] => at[k] = w[k]
    BY <2>1, <2>2
  <2>4. GoAlike(at, w, n)
    BY <2>1, <2>2, <2>3 DEF GoAlike
  <2>5. Alike(at, w, n)
    BY <1>1, <2>4, SameSteps
  <2> QED
    BY <2>5 DEF Alike
<1>8. passed = 0 .. L - 1
  <2>1. ASSUME NEW k \in 0 .. n PROVE w[k] # NIL <=> k \in 0 .. L - 1
    BY <1>1, <1>2
  <2> HIDE DEF at, w
  <2> QED
    BY <1>0, <1>1, <1>3, <1>7, <2>1
<1>9. Cardinality(passed) = L
  <2> HIDE DEF passed
  <2> QED
    BY <1>1, <1>8, FS_Interval
<1>10. Entries(p, i) = [j \in 1 .. Cardinality(passed) |-> at[j - 1]]
  BY Zenon DEF Entries, IsWalk
<1>11. ASSUME NEW j \in 1 .. L PROVE at[j - 1] = ent[s[j]]
  <2>1. j - 1 \in 0 .. n /\ w[j - 1] = ent[s[j]]
    BY <1>1, <1>3
  <2> HIDE DEF at, w
  <2> QED
    BY <1>7, <2>1
<1> HIDE DEF at, passed, w
<1> QED
  BY <1>0, <1>9, <1>10, <1>11

(* The bucket of a key is one of the table (the index that touchdb_map.c   *)
(* computes from the hash).                                                *)
LEMMA IndexType ==
  ASSUME NEW k \in Keys
  PROVE  index_for(k) \in 0 .. BUCKETS - 1
BY DbAssumption DEF index_for

(* Two keys do not share an entry. *)
LEMMA EntApart ==
  ASSUME NEW p, NEW own, NEW ent, NEW es, NEW ns, NEW rw, MapOK(p, own, ent, es, ns, rw)
  PROVE  \A k, m \in Keys : ent[k] # NIL /\ ent[k] = ent[m] => k = m
<1> SUFFICES ASSUME NEW k \in Keys, NEW m \in Keys, ent[k] # NIL, ent[k] = ent[m] PROVE k = m
  OBVIOUS
<1>1. own[ent[k]] = <<"entry", k, NIL>> /\ own[ent[m]] = <<"entry", m, NIL>>
  BY DEF MapOK, KeyOK, EntryOK, Has
<1> QED
  BY <1>1

(* The entries that following the next links of a bucket visits are those  *)
(* of the keys of the bucket, in their order.                              *)
LEMMA BucketEntries ==
  ASSUME NEW p, NEW own, NEW ent, NEW es, NEW ns, NEW rw, MapOK(p, own, ent, es, ns, rw),
         NEW i \in 0 .. BUCKETS - 1
  PROVE  Entries(p, i) = [j \in 1 .. Len(es[i]) |-> ent[es[i][j]]]
<1>1. PICK s : s = es[i]
  OBVIOUS
<1>2. PoolOK(p) /\ BucketOK(p, i, ent, s)
  BY <1>1 DEF MapOK, BucketsOK
<1>3. ASSUME NEW j \in 1 .. Len(s)
      PROVE  s[j] \in Keys /\ ent[s[j]] # NIL /\ ent[s[j]] \in p.held /\ ent[s[j]][1] = "entry"
  <2>1. s[j] \in Keys /\ ent[s[j]] # NIL
    BY <1>2 DEF BucketOK
  <2> QED
    BY <2>1 DEF MapOK, KeyOK, EntryOK, Has
<1>4. \A j, m \in 1 .. Len(s) : ent[s[j]] = ent[s[m]] => j = m
  <2>1. \A j, m \in 1 .. Len(s) : ent[s[j]] = ent[s[m]] => s[j] = s[m]
    BY <1>3, EntApart
  <2> QED
    BY <1>2, <2>1 DEF BucketOK
<1>5. Entries(p, i) = [j \in 1 .. Len(s) |-> ent[s[j]]]
  BY <1>2, <1>3, <1>4, EntriesAre
<1> QED
  BY <1>1, <1>5

(* A key is found at its entry. *)
LEMMA GetEntry ==
  ASSUME NEW p, NEW own, NEW ent, NEW es, NEW ns, NEW rw, MapOK(p, own, ent, es, ns, rw),
         NEW k \in Keys
  PROVE  get_entry(p, k) = ent[k]
<1>1. PICK i, s : i = index_for(k) /\ s = es[i] /\ i \in 0 .. BUCKETS - 1
  BY IndexType
<1>2. BucketOK(p, i, ent, s)
  BY <1>1 DEF MapOK, BucketsOK
<1>3. Len(s) \in Nat /\ DOMAIN s = 1 .. Len(s)
  BY <1>2 DEF BucketOK
<1>4. PICK f : f = Entries(p, i) /\ f = [j \in 1 .. Len(s) |-> ent[s[j]]]
  BY <1>1, BucketEntries
<1>5. ASSUME NEW j \in 1 .. Len(s) PROVE is_entry_of(p, f[j], k) <=> s[j] = k
  <2>1. s[j] \in Keys /\ ent[s[j]] # NIL /\ f[j] = ent[s[j]]
    BY <1>2, <1>4 DEF BucketOK
  <2>2. EntryOK(p, own, f[j], s[j])
    BY <2>1 DEF MapOK, KeyOK
  <2>3. p.mem[f[j]].hash = HashOf[s[j]] /\ ReadText(p, p.mem[f[j]].key) = s[j]
    BY <2>2 DEF EntryOK, Has, ReadText
  <2> QED
    BY <2>3 DEF is_entry_of
<1>6. PICK found : found = {j \in DOMAIN f : is_entry_of(p, f[j], k)}
  OBVIOUS
<1>7. get_entry(p, k) = IF found = {} THEN NIL ELSE f[CHOOSE j \in found : \A m \in found : j <= m]
  BY <1>1, <1>4, <1>6 DEF get_entry
<1>8. found = {j \in 1 .. Len(s) : s[j] = k}
  BY <1>4, <1>5, <1>6
<1>9. CASE ent[k] = NIL
  <2>1. found = {}
    BY <1>2, <1>8, <1>9 DEF BucketOK
  <2> QED
    BY <1>7, <1>9, <2>1
<1>10. CASE ent[k] # NIL
  <2>1. PICK j \in 1 .. Len(s) : s[j] = k
    BY <1>1, <1>10 DEF MapOK, BucketsOK
  <2>2. found = {j}
    BY <1>2, <1>8, <2>1 DEF BucketOK
  <2>3. (CHOOSE x \in found : \A m \in found : x <= m) = j
    BY <2>2
  <2> QED
    BY <1>4, <1>7, <2>1, <2>2, <2>3
<1> QED
  BY <1>9, <1>10

(* Counting along the nodes of a list. *)
LEMMA NodeIdx ==
  ASSUME NEW p, NEW own, NEW c, NEW s, NEW k, ListOK(p, own, c, s, k), NEW i \in 1 .. Len(s)
  PROVE  touchdb_chain_node_idx(p, c, i) = s[i]
<1> DEFINE Counts(f) == f = [j \in 1 .. i |-> IF j = 1 THEN p.mem[c].header
                                              ELSE IF f[j - 1] = NIL THEN NIL
                                              ELSE p.mem[f[j - 1]].next]
           w == [j \in 1 .. i |-> s[j]]
           at == CHOOSE f : Counts(f)
<1>1. Len(s) \in Nat /\ i \in Nat /\ i > 0 /\ \A j \in 1 .. Len(s) : s[j] \in Blocks
  BY DEF ListOK
<1>2. p.mem[c].header = s[1]
  BY <1>1 DEF ListOK, At
<1>3. \A j \in 1 .. Len(s) : s[j] # NIL
  BY <1>1 DEF Blocks, Classes, NIL
<1>4. \A j \in 2 .. i : p.mem[s[j - 1]].next = s[j]
  <2> SUFFICES ASSUME NEW j \in 2 .. i PROVE p.mem[s[j - 1]].next = s[j]
    OBVIOUS
  <2>1. j - 1 \in 1 .. Len(s) /\ (j - 1) + 1 = j /\ j \in 1 .. Len(s)
    BY <1>1
  <2>2. NodeOK(p, own, s[j - 1], At(s, j), k)
    BY <2>1 DEF ListOK
  <2> QED
    BY <2>1, <2>2 DEF NodeOK, At
<1>5. Counts(w)
  <2>1. ASSUME NEW j \in 1 .. i
        PROVE  w[j] = IF j = 1 THEN p.mem[c].header
                      ELSE IF w[j - 1] = NIL THEN NIL ELSE p.mem[w[j - 1]].next
    <3>1. CASE j = 1
      BY <1>1, <1>2, <3>1
    <3>2. CASE j # 1
      <4>1. j \in 2 .. i /\ j - 1 \in 1 .. i /\ j - 1 \in 1 .. Len(s)
        BY <1>1, <3>2
      <4>2. w[j - 1] = s[j - 1] /\ w[j] = s[j]
        BY <4>1
      <4> HIDE DEF w
      <4> QED
        BY <1>3, <1>4, <3>2, <4>1, <4>2
    <3> QED
      BY <3>1, <3>2
  <2>2. w = [j \in 1 .. i |-> w[j]]
    OBVIOUS
  <2> HIDE DEF w
  <2> QED
    BY <2>1, <2>2, Zenon
<1>6. Counts(at)
  <2> HIDE DEF w, Counts
  <2> QED
    BY <1>5, Zenon
<1>7. GoAlike([j \in 0 .. i - 1 |-> at[j + 1]], [j \in 0 .. i - 1 |-> w[j + 1]], i - 1)
  <2>1. /\ at[1] = p.mem[c].header
        /\ \A j \in 2 .. i : at[j] = IF at[j - 1] = NIL THEN NIL ELSE p.mem[at[j - 1]].next
    <3> HIDE DEF at
    <3> QED
      BY <1>1, <1>6
  <2>2. /\ w[1] = p.mem[c].header
        /\ \A j \in 2 .. i : w[j] = IF w[j - 1] = NIL THEN NIL ELSE p.mem[w[j - 1]].next
    <3> HIDE DEF w
    <3> QED
      BY <1>1, <1>5
  <2> HIDE DEF at, w, Counts
  <2>3. PICK f, g : /\ f = [j \in 0 .. i - 1 |-> at[j + 1]]
                    /\ g = [j \in 0 .. i - 1 |-> w[j + 1]]
    OBVIOUS
  <2>4. ASSUME NEW j \in 1 .. i - 1, f[j - 1] = g[j - 1] PROVE f[j] = g[j]
    <3>1. /\ j - 1 \in 0 .. i - 1 /\ j \in 0 .. i - 1 /\ j + 1 \in 2 .. i
          /\ (j - 1) + 1 = j /\ (j + 1) - 1 = j
      BY <1>1
    <3>2. f[j - 1] = at[j] /\ g[j - 1] = w[j] /\ f[j] = at[j + 1] /\ g[j] = w[j + 1]
      BY <2>3, <3>1
    <3>3. /\ at[j + 1] = IF at[j] = NIL THEN NIL ELSE p.mem[at[j]].next
          /\ w[j + 1] = IF w[j] = NIL THEN NIL ELSE p.mem[w[j]].next
      BY <2>1, <2>2, <3>1
    <3> QED
      BY <2>4, <3>2, <3>3
  <2>5. f[0] = g[0]
    BY <1>1, <2>1, <2>2, <2>3
  <2> QED
    BY <2>3, <2>4, <2>5 DEF GoAlike
<1>8. at[i] = s[i]
  <2> HIDE DEF at, w, Counts
  <2>1. i - 1 \in Nat /\ i - 1 \in 0 .. i - 1 /\ (i - 1) + 1 = i
    BY <1>1
  <2>2. PICK f, g : /\ f = [j \in 0 .. i - 1 |-> at[j + 1]]
                    /\ g = [j \in 0 .. i - 1 |-> w[j + 1]]
    OBVIOUS
  <2>3. Alike(f, g, i - 1)
    BY <1>7, <2>1, <2>2, SameSteps
  <2>4. f[i - 1] = at[i] /\ g[i - 1] = w[i]
    BY <2>1, <2>2
  <2>5. f[i - 1] = g[i - 1]
    BY <2>1, <2>3 DEF Alike
  <2> QED
    BY <1>1, <2>4, <2>5 DEF w
<1>9. touchdb_chain_node_idx(p, c, i) = at[i]
  BY Zenon DEF touchdb_chain_node_idx
<1> QED
  BY <1>8, <1>9

(* What a client reads is the value of the entry. *)
LEMMA ValueIs ==
  ASSUME NEW p, NEW own, NEW ent, NEW es, NEW ns, NEW rw, MapOK(p, own, ent, es, ns, rw),
         NEW k \in Keys, Kept(k, rw) \/ ent[k] = NIL \/ p.mem[ent[k]].val.type = CHAIN
  PROVE  Value(p, k) = AbsVal(p, ent[k], ns[k])
<1>1. PICK e, s : e = ent[k] /\ s = ns[k] /\ e = get_entry(p, k)
  BY GetEntry
<1>2. CASE e = NIL
  BY <1>1, <1>2 DEF Value, AbsVal
<1>3. CASE e # NIL
  <2>2. PICK v : v = p.mem[e].val
    OBVIOUS
  <2>1. ValueOK(p, own, v, s, k, Kept(k, rw))
    BY <1>1, <1>3, <2>2 DEF MapOK, KeyOK
  <2>3. v.type \in {STR, CHAIN}
    BY <2>1, <2>2 DEF ValueOK
  <2>4. CASE v.type = CHAIN
    <3>1. PICK c : c = v.addr
      OBVIOUS
    <3>2. ListOK(p, own, c, s, k)
      BY <2>1, <2>2, <2>4, <3>1 DEF ValueOK
    <3>3. p.mem[c].size = Len(s)
      BY <3>2, SMTT(30) DEF ListOK
    <3>4. ASSUME NEW i \in 1 .. Len(s)
          PROVE  touchdb_str_data(p, p.mem[touchdb_chain_node_idx(p, c, i)].val)
                   = p.mem[p.mem[p.mem[s[i]].val.addr].addr]
      <4>1. touchdb_chain_node_idx(p, c, i) = s[i]
        BY <3>2, NodeIdx
      <4>2. StrOK(p, own, s[i], k)
        BY <3>2 DEF ListOK, NodeOK
      <4> QED
        BY <4>1, <4>2, Zenon DEF StrOK, TextOK, Has, touchdb_str_data, ReadText
    <3>5. Value(p, k) = [kind  |-> "list",
                         texts |-> [i \in 1 .. p.mem[c].size |->
                           touchdb_str_data(p, p.mem[touchdb_chain_node_idx(p, c, i)].val)]]
      <4>1. /\ get_entry(p, k) # NIL /\ p.mem[get_entry(p, k)].val.type = CHAIN
            /\ CHAIN # STR /\ c = p.mem[get_entry(p, k)].val.addr
        BY <1>1, <1>3, <2>2, <2>4, <3>1 DEF STR, CHAIN
      <4>2. Value(p, k) = [kind  |-> "list",
              texts |-> [i \in 1 .. p.mem[p.mem[get_entry(p, k)].val.addr].size |->
                touchdb_str_data(p, p.mem[touchdb_chain_node_idx(p, p.mem[get_entry(p, k)].val.addr, i)].val)]]
        BY <4>1, ZenonT(40) DEF Value
      <4> QED
        BY <4>1, <4>2
    <3>6. [i \in 1 .. p.mem[c].size |->
             touchdb_str_data(p, p.mem[touchdb_chain_node_idx(p, c, i)].val)] = TextsAt(p, s)
      BY <3>3, <3>4, Zenon DEF TextsAt
    <3> QED
      BY <1>1, <1>3, <2>2, <2>4, <3>5, <3>6 DEF AbsVal, AbsOf
  <2>5. CASE v.type = STR
    <3>1. /\ v.addr[1] \in {"pair", "text"} /\ Kept(k, rw)
          /\ v.addr[1] = "pair" => p.mem[v.addr].addr[1] = "text"
      BY <1>1, <1>3, <2>1, <2>2, <2>5, Zenon DEF ValueOK, TextOK, Has, STR, CHAIN
    <3>2. Value(p, k) = [kind |-> "text",
                         text |-> IF v.addr[1] = "pair" THEN touchdb_str_data(p, v)
                                                        ELSE ReadText(p, v.addr)]
      BY <1>1, <1>3, <2>2, <2>5 DEF Value, STR, CHAIN
    <3>3. (IF v.addr[1] = "pair" THEN touchdb_str_data(p, v) ELSE ReadText(p, v.addr)) = TextOf(p, v)
      BY <3>1 DEF touchdb_str_data, ReadText, TextOf
    <3> QED
      BY <1>1, <1>3, <2>2, <2>5, <3>2, <3>3, SMTT(30) DEF AbsVal, AbsOf, STR, CHAIN
  <2> QED
    BY <2>3, <2>4, <2>5
<1> QED
  BY <1>2, <1>3

-----------------------------------------------------------------------------
(* Blocks that belong to nothing yet. *)

(* The keys for which Value is known are read alike in p and q. *)
SameVals(p, q, ent, ns, rw) ==
  \A k \in Keys :
    /\ Kept(k, rw) \/ ent[k] = NIL \/ p.mem[ent[k]].val.type = CHAIN =>
         AbsVal(q, ent[k], ns[k]) = AbsVal(p, ent[k], ns[k])
    /\ ent[k] # NIL => q.mem[ent[k]].val = p.mem[ent[k]].val

(* Two changes that leave the values of all keys alone leave them alone    *)
(* together.                                                               *)
LEMMA SameValsTrans ==
  ASSUME NEW p, NEW q, NEW r, NEW ent, NEW ns, NEW rw,
         SameVals(p, q, ent, ns, rw), SameVals(q, r, ent, ns, rw)
  PROVE  SameVals(p, r, ent, ns, rw)
BY DEF SameVals

(* The owner of a block of no key is no key. *)
LEMMA NoKeyIsNone == NoKey \notin Keys
BY NoSetContainsEverything DEF NoKey

(* The tag of a block of a key is not the tag of a temporary or a popped   *)
(* block.                                                                  *)
LEMMA TagsApart ==
  ASSUME NEW k \in Keys, NEW x, NEW role
  PROVE  /\ <<role, k, x>> # TMP /\ <<role, k, x>> # POPPED
         /\ <<role, k, x>>[2] = k /\ POPPED # TMP
BY NoKeyIsNone DEF TMP, POPPED

(* What belongs to a key, what was popped and what is temporary are three  *)
(* sets of blocks that do not meet.                                        *)
LEMMA OwnedApart ==
  ASSUME NEW p, NEW own, NEW ent, NEW es, NEW ns, NEW pop, NEW rw, NEW T,
         Sound(p, own, ent, es, ns, pop, rw, T)
  PROVE  /\ \A b \in p.held : own[b][2] \in Keys => b \notin T
         /\ \A k \in Keys : ent[k] # NIL => ent[k] \in p.held \ T /\ own[ent[k]] = <<"entry", k, NIL>>
                                            /\ EntryOK(p, own, ent[k], k)
         /\ \A b \in pop : b \in p.held \ T /\ own[b] = POPPED
<1>1. \A b \in p.held : own[b][2] \in Keys => b \notin T
  BY NoKeyIsNone DEF Sound, TMP
<1>2. ASSUME NEW k \in Keys, ent[k] # NIL
      PROVE  /\ ent[k] \in p.held \ T /\ own[ent[k]] = <<"entry", k, NIL>>
             /\ EntryOK(p, own, ent[k], k)
  <2>1. EntryOK(p, own, ent[k], k)
    BY <1>2 DEF Sound, MapOK, KeyOK
  <2>2. ent[k] \in p.held /\ own[ent[k]] = <<"entry", k, NIL>>
    BY <2>1 DEF EntryOK, Has
  <2> QED
    BY <1>1, <2>1, <2>2, TagsApart
<1>3. ASSUME NEW b \in pop PROVE b \in p.held \ T /\ own[b] = POPPED
  BY <1>3 DEF Sound, Has, TMP, POPPED
<1> QED
  BY <1>1, <1>2, <1>3

(* A step that changes only blocks that belong to nothing keeps the state  *)
(* sound and all values as they are.                                       *)
LEMMA QuietSound ==
  ASSUME NEW p, NEW own, NEW ent, NEW es, NEW ns, NEW pop, NEW rw, NEW T,
         Sound(p, own, ent, es, ns, pop, rw, T),
         NEW q, PoolOK(q), q.bulk = p.bulk, q.map_size = p.map_size,
         NEW own2, \A b \in p.held \ T : b \in q.held /\ own2[b] = own[b] /\ q.mem[b] = p.mem[b],
         NEW T2, T2 = {b \in q.held : own2[b] = TMP},
         \A b \in q.held \ T2 : b \in p.held \ T
  PROVE  Sound(q, own2, ent, es, ns, pop, rw, T2) /\ SameVals(p, q, ent, ns, rw)
<1>0. /\ \A b \in p.held : own[b][2] \in Keys => b \notin T
      /\ \A k \in Keys : ent[k] # NIL => ent[k] \in p.held \ T
      /\ \A b \in pop : b \in p.held \ T
  BY OwnedApart
<1>1. ASSUME NEW k \in Keys PROVE Keeps(p, q, own, own2, k)
  <2>1. ASSUME NEW b \in p.held, own[b][2] = k PROVE b \in p.held \ T
    BY <1>0, <2>1
  <2>2. ASSUME NEW b \in p.held, own[b][2] = k
        PROVE  b \in q.held /\ own2[b] = own[b] /\ q.mem[b] = p.mem[b]
    BY <2>1, <2>2
  <2> QED
    BY <2>2 DEF Keeps
<1>2. ASSUME NEW k \in Keys
      PROVE  /\ KeyOK(q, own2, ent[k], ns[k], k, rw)
             /\ Kept(k, rw) \/ ent[k] = NIL \/ p.mem[ent[k]].val.type = CHAIN =>
                  AbsVal(q, ent[k], ns[k]) = AbsVal(p, ent[k], ns[k])
             /\ rw = FALSE /\ ent[k] # NIL =>
                  \A b : InKey(p, ent[k], ns[k], b) => InKey(q, ent[k], ns[k], b)
             /\ ent[k] # NIL => q.mem[ent[k]].val = p.mem[ent[k]].val
  <2>1. Keeps(p, q, own, own2, k) /\ KeyOK(p, own, ent[k], ns[k], k, rw)
    BY <1>1 DEF Sound, MapOK
  <2>2. PICK e, s : e = ent[k] /\ s = ns[k]
    OBVIOUS
  <2>3. /\ KeyOK(q, own2, e, s, k, rw)
        /\ e # NIL => q.mem[e].val = p.mem[e].val
        /\ Kept(k, rw) \/ (e # NIL /\ p.mem[e].val.type = CHAIN) =>
              /\ AbsVal(q, e, s) = AbsVal(p, e, s)
              /\ e # NIL => \A b : InKey(p, e, s, b) => InKey(q, e, s, b)
    BY <2>1, <2>2, KeyFrame
  <2> QED
    <3>1. rw = FALSE => Kept(k, rw)
      BY DEF Kept
    <3>2. e = NIL => AbsVal(q, e, s) = AbsVal(p, e, s)
      BY DEF AbsVal
    <3>3. Kept(k, rw) \/ e = NIL \/ p.mem[e].val.type = CHAIN => AbsVal(q, e, s) = AbsVal(p, e, s)
      BY <2>3, <3>2
    <3>4. rw = FALSE /\ e # NIL => \A b : InKey(p, e, s, b) => InKey(q, e, s, b)
      BY <2>3, <3>1
    <3> QED
      BY <2>2, <2>3, <3>3, <3>4
<1>3. BucketsOK(q, ent, es)
  <2>1. BucketsOK(p, ent, es)
    BY DEF Sound, MapOK
  <2>2. ASSUME NEW i \in 0 .. BUCKETS - 1 PROVE BucketOK(q, i, ent, es[i])
    <3>1. BucketOK(p, i, ent, es[i])
      BY <2>1 DEF BucketsOK
    <3>2. \A j \in 1 .. Len(es[i]) : es[i][j] \in Keys
      BY <3>1 DEF BucketOK
    <3>3. \A j \in 1 .. Len(es[i]) : q.mem[ent[es[i][j]]] = p.mem[ent[es[i][j]]]
      BY <1>0, <3>1, <3>2 DEF BucketOK
    <3> QED
      BY <3>1, <3>3 DEF BucketOK
  <2> QED
    BY <2>1, <2>2 DEF BucketsOK
<1>4. \A b \in pop : Has(q, own2, b, "pair", POPPED)
  BY <1>0 DEF Sound, Has
<1>5. rw = FALSE => \A b \in q.held \ T2 : InUse(q, ent, ns, pop, b)
  BY <1>2 DEF Sound, InUse
<1> QED
  BY <1>2, <1>3, <1>4, <1>5 DEF Sound, MapOK, SameVals

Tag(own, b, tag) == [a \in Blocks |-> IF a = b THEN tag ELSE own[a]]

(* A new block belongs to nothing yet. *)
LEMMA TmpNew ==
  ASSUME NEW p, NEW own, NEW ent, NEW es, NEW ns, NEW pop, NEW rw, NEW T,
         Sound(p, own, ent, es, ns, pop, rw, T),
         NEW c \in Classes, NEW x, NEW b, b = Blk(p, c), NEW q, q = New(p, c, x)
  PROVE  /\ Sound(q, Tag(own, b, TMP), ent, es, ns, pop, rw, T \cup {b})
         /\ SameVals(p, q, ent, ns, rw)
         /\ b \in Blocks \ p.held /\ b[1] = c /\ b \notin T
         /\ q.held = p.held \cup {b}
         /\ q.mem[b] = x
         /\ \A a \in p.held : q.mem[a] = p.mem[a]
<1>1. PoolOK(p)
  BY DEF Sound, MapOK
<1>2. /\ PoolOK(q)
      /\ b \in Blocks \ p.held /\ b[1] = c
      /\ q.held = p.held \cup {b}
      /\ q.mem[b] = x
      /\ \A a \in {NIL} \cup Carved(p) : a # b => q.mem[a] = p.mem[a]
      /\ q.bulk = p.bulk /\ q.map_size = p.map_size
  BY <1>1, NewKeeps
<1>3. p.held \subseteq Blocks /\ p.held \subseteq Carved(p)
  BY <1>1 DEF PoolOK, Carved
<1>4. \A a \in p.held : q.mem[a] = p.mem[a]
  BY <1>2, <1>3
<1>5. PICK own2 : own2 = Tag(own, b, TMP)
  OBVIOUS
<1>6. own2[b] = TMP /\ \A a \in p.held : own2[a] = own[a]
  BY <1>2, <1>3, <1>5 DEF Tag
<1>7. T = {a \in p.held : own[a] = TMP}
  BY DEF Sound
<1>8. T \cup {b} = {a \in q.held : own2[a] = TMP}
  BY <1>2, <1>6, <1>7
<1>9. \A a \in p.held \ T : a \in q.held /\ own2[a] = own[a] /\ q.mem[a] = p.mem[a]
  BY <1>2, <1>4, <1>6
<1>10. \A a \in q.held \ (T \cup {b}) : a \in p.held \ T
  BY <1>2
<1>11. Sound(q, own2, ent, es, ns, pop, rw, T \cup {b}) /\ SameVals(p, q, ent, ns, rw)
  BY <1>2, <1>8, <1>9, <1>10, QuietSound
<1> QED
  BY <1>2, <1>4, <1>5, <1>7, <1>11

(* A temporary block may be freed. *)
LEMMA TmpFree ==
  ASSUME NEW p, NEW own, NEW ent, NEW es, NEW ns, NEW pop, NEW rw, NEW T,
         Sound(p, own, ent, es, ns, pop, rw, T),
         NEW b \in T, NEW q, q = Free(p, b)
  PROVE  /\ Sound(q, own, ent, es, ns, pop, rw, T \ {b})
         /\ SameVals(p, q, ent, ns, rw)
         /\ q.mem = p.mem /\ q.held = p.held \ {b}
<1>1. PoolOK(p) /\ T = {a \in p.held : own[a] = TMP} /\ b \in p.held
  BY DEF Sound, MapOK
<1>2. /\ PoolOK(q)
      /\ q.held = p.held \ {b}
      /\ q.mem = p.mem /\ q.bulk = p.bulk /\ q.map_size = p.map_size
  BY <1>1, FreeKeeps
<1>3. PICK T2 : T2 = T \ {b}
  OBVIOUS
<1>4. T2 = {a \in q.held : own[a] = TMP}
  BY <1>1, <1>2, <1>3
<1>5. \A a \in p.held \ T : a \in q.held /\ own[a] = own[a] /\ q.mem[a] = p.mem[a]
  BY <1>2
<1>6. \A a \in q.held \ T2 : a \in p.held \ T
  BY <1>2, <1>3
<1>7. Sound(q, own, ent, es, ns, pop, rw, T2) /\ SameVals(p, q, ent, ns, rw)
  BY <1>2, <1>4, <1>5, <1>6, QuietSound
<1> QED
  BY <1>2, <1>3, <1>7

(* A temporary block may be written. *)
LEMMA TmpSet ==
  ASSUME NEW p, NEW own, NEW ent, NEW es, NEW ns, NEW pop, NEW rw, NEW T,
         Sound(p, own, ent, es, ns, pop, rw, T),
         NEW b \in T, NEW x, NEW q, q = Set(p, b, x)
  PROVE  /\ Sound(q, own, ent, es, ns, pop, rw, T)
         /\ SameVals(p, q, ent, ns, rw)
         /\ q.held = p.held
         /\ q.mem[b] = x
         /\ \A a \in p.held : a # b => q.mem[a] = p.mem[a]
<1>1. PoolOK(p) /\ T = {a \in p.held : own[a] = TMP} /\ b \in p.held
  BY DEF Sound, MapOK
<1>2. /\ PoolOK(q)
      /\ q.held = p.held /\ q.bulk = p.bulk /\ q.map_size = p.map_size
      /\ q.mem[b] = x /\ \A a \in {NIL} \cup Carved(p) : a # b => q.mem[a] = p.mem[a]
  BY <1>1, SetKeeps DEF IsSet
<1>3. \A a \in p.held : a # b => q.mem[a] = p.mem[a]
  BY <1>1, <1>2 DEF PoolOK
<1>4. T = {a \in q.held : own[a] = TMP}
  BY <1>1, <1>2
<1>5. \A a \in p.held \ T : a \in q.held /\ own[a] = own[a] /\ q.mem[a] = p.mem[a]
  BY <1>2, <1>3
<1>6. \A a \in q.held \ T : a \in p.held \ T
  BY <1>2
<1>7. Sound(q, own, ent, es, ns, pop, rw, T) /\ SameVals(p, q, ent, ns, rw)
  BY <1>2, <1>4, <1>5, <1>6, QuietSound
<1> QED
  BY <1>2, <1>3, <1>7

(* The value that touchdb_str_new makes: its block v, its string s and its  *)
(* text d.                                                                 *)
IsStr(p, v, s, d, t) ==
  /\ p.mem[v] = Val(STR, s) /\ p.mem[s].addr = d /\ p.mem[d] = t
  /\ v[1] = "pair" /\ s[1] = "pair" /\ d[1] = "text"
  /\ v # s

Strung(p, q, ent, es, ns, pop, rw, T, v, t) ==
  \E own2, s, d :
    /\ Sound(q, own2, ent, es, ns, pop, rw, T \cup {v, s, d})
    /\ SameVals(p, q, ent, ns, rw)
    /\ IsStr(q, v, s, d, t)
    /\ {v, s, d} \cap T = {}
    /\ \A a \in p.held : q.mem[a] = p.mem[a]
    /\ q.held = p.held \cup {v, s, d}

(* new_str_val makes a value, a string and a text that belong to nothing   *)
(* yet.                                                                    *)
LEMMA StrMade ==
  ASSUME NEW p, NEW own, NEW ent, NEW es, NEW ns, NEW pop, NEW rw, NEW T,
         Sound(p, own, ent, es, ns, pop, rw, T),
         NEW t, NEW q, q = new_str_val(p, t), NEW v, v = Blk(p, "pair")
  PROVE  Strung(p, q, ent, es, ns, pop, rw, T, v, t)
<1>0. "pair" \in Classes /\ "text" \in Classes
  BY DEF Classes
<1>1. PICK p0, T0 : p0 = New(p, "pair", NIL) /\ T0 = T \cup {v}
  OBVIOUS
<1>2. PICK own0 : own0 = Tag(own, v, TMP)
  OBVIOUS
<1>3. /\ Sound(p0, own0, ent, es, ns, pop, rw, T0)
      /\ SameVals(p, p0, ent, ns, rw)
      /\ v \in Blocks \ p.held /\ v[1] = "pair" /\ v \notin T
      /\ p0.held = p.held \cup {v}
      /\ \A a \in p.held : p0.mem[a] = p.mem[a]
  BY <1>0, <1>1, <1>2, TmpNew
<1>4. PICK p1, s, T1 : /\ p1 = New(p0, "pair", Val("len", NIL)) /\ s = Blk(p0, "pair")
                       /\ T1 = T0 \cup {s}
  OBVIOUS
<1>5. PICK own1 : own1 = Tag(own0, s, TMP)
  OBVIOUS
<1>6. /\ Sound(p1, own1, ent, es, ns, pop, rw, T1)
      /\ SameVals(p0, p1, ent, ns, rw)
      /\ s \in Blocks \ p0.held /\ s[1] = "pair" /\ s \notin T0
      /\ p1.held = p0.held \cup {s}
      /\ p1.mem[s] = Val("len", NIL)
      /\ \A a \in p0.held : p1.mem[a] = p0.mem[a]
  <2>1. Sound(p0, own0, ent, es, ns, pop, rw, T0)
    BY <1>3
  <2> QED
    BY <1>0, <1>4, <1>5, <2>1, TmpNew
<1>7. PICK p2, d, T2 : /\ p2 = New(p1, "text", t) /\ d = Blk(p1, "text")
                       /\ T2 = T1 \cup {d}
  OBVIOUS
<1>8. PICK own2 : own2 = Tag(own1, d, TMP)
  OBVIOUS
<1>9. /\ Sound(p2, own2, ent, es, ns, pop, rw, T2)
      /\ SameVals(p1, p2, ent, ns, rw)
      /\ d \in Blocks \ p1.held /\ d[1] = "text" /\ d \notin T1
      /\ p2.held = p1.held \cup {d}
      /\ p2.mem[d] = t
      /\ \A a \in p1.held : p2.mem[a] = p1.mem[a]
  <2>1. Sound(p1, own1, ent, es, ns, pop, rw, T1)
    BY <1>6
  <2>2. /\ Sound(p2, Tag(own1, d, TMP), ent, es, ns, pop, rw, T1 \cup {d})
        /\ SameVals(p1, p2, ent, ns, rw)
        /\ d \in Blocks \ p1.held /\ d[1] = "text" /\ d \notin T1
        /\ p2.held = p1.held \cup {d}
        /\ p2.mem[d] = t
        /\ \A a \in p1.held : p2.mem[a] = p1.mem[a]
    BY <1>0, <1>7, <2>1, TmpNew
  <2> QED
    BY <1>7, <1>8, <2>2
<1>10. T2 = T \cup {v, s, d}
  BY <1>1, <1>4, <1>7
<1>12. Sound(p2, own2, ent, es, ns, pop, rw, T2) /\ s \in T2 /\ v \in T2
  BY <1>9, <1>10
<1>13. PICK p3 : p3 = Set(p2, s, Val("len", d))
  OBVIOUS
<1>14. /\ Sound(p3, own2, ent, es, ns, pop, rw, T2)
       /\ SameVals(p2, p3, ent, ns, rw)
       /\ p3.held = p2.held
       /\ p3.mem[s] = Val("len", d)
       /\ \A a \in p2.held : a # s => p3.mem[a] = p2.mem[a]
  BY <1>12, <1>13, TmpSet
<1>15. q = Set(p3, v, Val(STR, s))
  BY <1>1, <1>4, <1>7, <1>13 DEF new_str_val, touchdb_str_new2
<1>16. /\ Sound(q, own2, ent, es, ns, pop, rw, T2)
       /\ SameVals(p3, q, ent, ns, rw)
       /\ q.held = p3.held
       /\ q.mem[v] = Val(STR, s)
       /\ \A a \in p3.held : a # v => q.mem[a] = p3.mem[a]
  BY <1>12, <1>14, <1>15, TmpSet
<1>17. SameVals(p, q, ent, ns, rw)
  BY <1>3, <1>6, <1>9, <1>14, <1>16, SameValsTrans
<1>18. q.held = p.held \cup {v, s, d}
  BY <1>3, <1>6, <1>9, <1>14, <1>16
<1>19. \A a \in p.held : q.mem[a] = p.mem[a]
  BY <1>3, <1>6, <1>9, <1>14, <1>16
<1>20. IsStr(q, v, s, d, t)
  <2>1. v # s /\ v # d /\ s # d
    BY <1>3, <1>6, <1>9
  <2>2. q.mem[s] = Val("len", d) /\ q.mem[d] = t
    BY <1>3, <1>6, <1>9, <1>14, <1>16, <2>1
  <2> QED
    BY <1>3, <1>6, <1>9, <1>16, <2>1, <2>2 DEF IsStr, Val
<1>21. {v, s, d} \cap T = {}
  BY <1>1, <1>3, <1>4, <1>6, <1>9
<1>22. Sound(q, own2, ent, es, ns, pop, rw, T \cup {v, s, d})
  BY <1>10, <1>16
<1> QED
  BY <1>17, <1>18, <1>19, <1>20, <1>21, <1>22, ZenonT(40) DEF Strung

-----------------------------------------------------------------------------
(* What a call does to the value of its key. *)

(* The keys but k that are never put again are read as before. *)
OthersRead(p, ent, ns, q, ent2, ns2, k) ==
  \A m \in Stable \ {k} : AbsVal(q, ent2[m], ns2[m]) = AbsVal(p, ent[m], ns[m])

AllTmp(q, own2, T2) == T2 = {b \in q.held : own2[b] = TMP}

Grows(rw, rw2) == rw \in BOOLEAN /\ rw2 \in BOOLEAN /\ (rw = TRUE => rw2 = TRUE)

OthersKeep(p, q, own, own2, ent, ent2, ns, ns2, k) ==
  \A m \in Keys \ {k} : Keeps(p, q, own, own2, m) /\ ent2[m] = ent[m] /\ ns2[m] = ns[m]

(* Every block is popped, in use for k, or was not in use for k before. *)
Accounted(p, q, ent, ent2, ns, ns2, pop2, T, T2, k, rw2) ==
  rw2 = FALSE => \A b \in q.held \ T2 :
    \/ b \in pop2
    \/ ent2[k] # NIL /\ InKey(q, ent2[k], ns2[k], b)
    \/ b \in p.held \ T /\ ~(ent[k] # NIL /\ InKey(p, ent[k], ns[k], b))

AllPopped(q, own2, pop2) == \A b \in pop2 : Has(q, own2, b, "pair", POPPED)

(* A call changes the blocks of one key: when the table is sound, the      *)
(* key's own value is, and every block that is held is accounted for, the  *)
(* state is sound, and the other keys read as they did.                    *)
LEMMA KeyChange ==
  ASSUME NEW p, NEW own, NEW ent, NEW es, NEW ns, NEW pop, NEW rw, NEW T,
         Sound(p, own, ent, es, ns, pop, rw, T),
         NEW k \in Keys, NEW q, PoolOK(q),
         NEW own2, NEW ent2, NEW es2, NEW ns2, NEW pop2, NEW rw2, Grows(rw, rw2), NEW T2,
         OthersKeep(p, q, own, own2, ent, ent2, ns, ns2, k),
         BucketsOK(q, ent2, es2),
         KeyOK(q, own2, ent2[k], ns2[k], k, rw2),
         pop \subseteq pop2, AllPopped(q, own2, pop2), AllTmp(q, own2, T2),
         Accounted(p, q, ent, ent2, ns, ns2, pop2, T, T2, k, rw2)
  PROVE  /\ Sound(q, own2, ent2, es2, ns2, pop2, rw2, T2)
         /\ OthersRead(p, ent, ns, q, ent2, ns2, k)
<1> USE DEF Grows, AllTmp, OthersKeep, Accounted, AllPopped
<1>1. \A m : Kept(m, rw2) => Kept(m, rw)
  BY DEF Kept
<1>2. ASSUME NEW m \in Keys \ {k}
      PROVE  /\ KeyOK(q, own2, ent2[m], ns2[m], m, rw2)
             /\ Kept(m, rw) => AbsVal(q, ent2[m], ns2[m]) = AbsVal(p, ent[m], ns[m])
             /\ rw = FALSE /\ ent[m] # NIL =>
                  \A b : InKey(p, ent[m], ns[m], b) => ent2[m] # NIL /\ InKey(q, ent2[m], ns2[m], b)
  <2>1. PICK e, s : e = ent[m] /\ s = ns[m] /\ e = ent2[m] /\ s = ns2[m]
    OBVIOUS
  <2>2. Keeps(p, q, own, own2, m) /\ KeyOK(p, own, e, s, m, rw)
    BY <2>1 DEF Sound, MapOK
  <2>3. /\ KeyOK(q, own2, e, s, m, rw2)
        /\ Kept(m, rw) \/ (e # NIL /\ p.mem[e].val.type = CHAIN) =>
              /\ AbsVal(q, e, s) = AbsVal(p, e, s)
              /\ e # NIL => \A b : InKey(p, e, s, b) => InKey(q, e, s, b)
    BY <1>1, <2>2, KeyFrame
  <2>4. rw = FALSE => Kept(m, rw)
    BY DEF Kept
  <2> QED
    BY <2>1, <2>3, <2>4
<1>3. MapOK(q, own2, ent2, es2, ns2, rw2)
  BY <1>2 DEF MapOK
<1>4. OthersRead(p, ent, ns, q, ent2, ns2, k)
  BY <1>2 DEF OthersRead, Stable, Kept
<1>5. ASSUME rw2 = FALSE, NEW b \in q.held \ T2 PROVE InUse(q, ent2, ns2, pop2, b)
  <2>1. CASE b \in pop2
    BY <2>1 DEF InUse
  <2>2. CASE ent2[k] # NIL /\ InKey(q, ent2[k], ns2[k], b)
    BY <2>2 DEF InUse
  <2>3. CASE b \in p.held \ T /\ ~(ent[k] # NIL /\ InKey(p, ent[k], ns[k], b))
    <3>1. rw = FALSE /\ InUse(p, ent, ns, pop, b)
      BY <1>5, <2>3 DEF Sound
    <3>2. CASE b \in pop
      BY <3>2 DEF InUse
    <3>3. CASE \E m \in Keys : ent[m] # NIL /\ InKey(p, ent[m], ns[m], b)
      <4>1. PICK m \in Keys : ent[m] # NIL /\ InKey(p, ent[m], ns[m], b)
        BY <3>3
      <4>2. m # k
        BY <2>3, <4>1
      <4>3. ent2[m] # NIL /\ InKey(q, ent2[m], ns2[m], b)
        BY <1>2, <3>1, <4>1, <4>2
      <4> QED
        BY <4>3 DEF InUse
    <3> QED
      BY <3>1, <3>2, <3>3 DEF InUse
  <2> QED
    BY <1>5, <2>1, <2>2, <2>3
<1> QED
  BY <1>3, <1>4, <1>5 DEF Sound

(* The function behind Total. *)
LEMMA TotalIs ==
  ASSUME NEW es, \A i \in 0 .. BUCKETS - 1 : Len(es[i]) \in Nat
  PROVE  \E f \in [0 .. BUCKETS -> Nat] :
           /\ f[0] = 0 /\ \A j \in 1 .. BUCKETS : f[j] = f[j - 1] + Len(es[j - 1])
           /\ Total(es) = f[BUCKETS]
<1> DEFINE Sums(f) == f = [i \in 0 .. BUCKETS |-> IF i = 0 THEN 0 ELSE f[i - 1] + Len(es[i - 1])]
           step == [j \in 1 .. BUCKETS |-> [x \in Nat |-> x + Len(es[j - 1])]]
           g == CHOOSE f : Sums(f)
<1>0. BUCKETS \in Nat /\ BUCKETS > 0
  BY DbAssumption
<1>1. step \in [1 .. BUCKETS -> [Nat -> Nat]]
  <2>1. \A j \in 1 .. BUCKETS : Len(es[j - 1]) \in Nat
    BY <1>0
  <2> QED
    BY <2>1
<1>2. PICK f \in [0 .. BUCKETS -> Nat] :
        f[0] = 0 /\ \A j \in 1 .. BUCKETS : f[j] = step[j][f[j - 1]]
  <2> HIDE DEF step
  <2> QED
    <3>1. 0 \in Nat
      OBVIOUS
    <3>2. \E f \in [0 .. BUCKETS -> Nat] : StepsBy(f, 0, step, BUCKETS)
      BY <1>0, <1>1, <3>1, StepsExist
    <3> QED
      BY <3>2 DEF StepsBy
<1>3. \A j \in 1 .. BUCKETS : f[j] = f[j - 1] + Len(es[j - 1])
  <2> SUFFICES ASSUME NEW j \in 1 .. BUCKETS PROVE f[j] = f[j - 1] + Len(es[j - 1])
    OBVIOUS
  <2>1. j - 1 \in 0 .. BUCKETS
    BY <1>0
  <2>2. f[j - 1] \in Nat
    BY <1>2, <2>1
  <2> QED
    BY <1>2, <2>2
<1>4. Sums(f)
  <2>1. \A i \in 0 .. BUCKETS : f[i] = IF i = 0 THEN 0 ELSE f[i - 1] + Len(es[i - 1])
    BY <1>0, <1>2, <1>3
  <2> QED
    BY <1>2, <2>1
<1>5. Sums(g)
  <2> HIDE DEF Sums
  <2> QED
    BY <1>4, Zenon
<1>6. g[BUCKETS] = f[BUCKETS]
  <2>1. g[0] = 0 /\ \A j \in 1 .. BUCKETS : g[j] = g[j - 1] + Len(es[j - 1])
    <3> HIDE DEF g
    <3> QED
      BY <1>0, <1>5
  <2> HIDE DEF g, Sums
  <2>2. GoAlike(g, f, BUCKETS)
    BY <1>2, <1>3, <2>1 DEF GoAlike
  <2>3. Alike(g, f, BUCKETS)
    BY <1>0, <2>2, SameSteps
  <2> QED
    BY <1>0, <2>3 DEF Alike
<1>7. Total(es) = g[BUCKETS]
  BY Zenon DEF Total
<1> HIDE DEF g, Sums, step
<1> QED
  BY <1>2, <1>3, <1>6, <1>7

(* One more key in a bucket is one more key in the table. *)
LEMMA TotalAppend ==
  ASSUME NEW es, NEW es2, NEW i \in 0 .. BUCKETS - 1,
         \A j \in 0 .. BUCKETS - 1 : Len(es[j]) \in Nat,
         Len(es2[i]) = Len(es[i]) + 1,
         \A j \in 0 .. BUCKETS - 1 : j # i => Len(es2[j]) = Len(es[j])
  PROVE  Total(es2) = Total(es) + 1
<1>0. BUCKETS \in Nat /\ BUCKETS > 0
  BY DbAssumption
<1>1. PICK f \in [0 .. BUCKETS -> Nat] :
           /\ f[0] = 0 /\ \A j \in 1 .. BUCKETS : f[j] = f[j - 1] + Len(es[j - 1])
           /\ Total(es) = f[BUCKETS]
  BY TotalIs
<1>2. \A j \in 0 .. BUCKETS - 1 : Len(es2[j]) \in Nat
  OBVIOUS
<1>3. PICK g \in [0 .. BUCKETS -> Nat] :
           /\ g[0] = 0 /\ \A j \in 1 .. BUCKETS : g[j] = g[j - 1] + Len(es2[j - 1])
           /\ Total(es2) = g[BUCKETS]
  BY <1>2, TotalIs
<1>4. PICK h : h = [j \in 0 .. BUCKETS |-> IF j > i THEN f[j] + 1 ELSE f[j]]
  OBVIOUS
<1>5. ASSUME NEW j \in 1 .. BUCKETS, g[j - 1] = h[j - 1] PROVE g[j] = h[j]
  <2>1. j - 1 \in 0 .. BUCKETS - 1 /\ j - 1 \in 0 .. BUCKETS /\ j \in 0 .. BUCKETS
    BY <1>0
  <2>2. f[j] \in Nat /\ f[j - 1] \in Nat /\ Len(es[j - 1]) \in Nat
    BY <1>1, <2>1
  <2>3. f[j] = f[j - 1] + Len(es[j - 1]) /\ g[j] = g[j - 1] + Len(es2[j - 1])
    BY <1>1, <1>3
  <2>4. /\ h[j] = IF j > i THEN f[j] + 1 ELSE f[j]
        /\ h[j - 1] = IF j - 1 > i THEN f[j - 1] + 1 ELSE f[j - 1]
    BY <1>4, <2>1
  <2>5. CASE j - 1 = i
    BY <1>5, <2>2, <2>3, <2>4, <2>5
  <2>6. CASE j - 1 # i
    <3>1. Len(es2[j - 1]) = Len(es[j - 1])
      BY <2>1, <2>6
    <3>2. j > i <=> j - 1 > i
      BY <1>0, <2>6
    <3>3. CASE j > i
      BY <1>5, <2>2, <2>3, <2>4, <3>1, <3>2, <3>3
    <3>4. CASE ~(j > i)
      BY <1>5, <2>2, <2>3, <2>4, <3>1, <3>2, <3>4
    <3> QED
      BY <3>3, <3>4
  <2> QED
    BY <2>5, <2>6
<1>6. GoAlike(g, h, BUCKETS)
  <2>1. g[0] = h[0]
    BY <1>0, <1>1, <1>3, <1>4
  <2> QED
    BY <1>5, <2>1 DEF GoAlike
<1>7. Alike(g, h, BUCKETS)
  BY <1>0, <1>6, SameSteps
<1>8. g[BUCKETS] = h[BUCKETS]
  BY <1>0, <1>7 DEF Alike
<1> QED
  BY <1>0, <1>1, <1>3, <1>4, <1>8

(* The bulk and the size of the map are not the pool's. *)
Counted(p, i, b) == [p EXCEPT !.bulk[i] = b, !.map_size = @ + 1]

(* The counting half of add_entry leaves the pool alone: it writes a       *)
(* bucket and map_size.                                                    *)
LEMMA BulkKeeps ==
  ASSUME NEW p, PoolOK(p), NEW i, NEW b, NEW q, q = Counted(p, i, b)
  PROVE  /\ PoolOK(q) /\ q.held = p.held /\ q.mem = p.mem
         /\ q.bulk = [p.bulk EXCEPT ![i] = b] /\ q.map_size = p.map_size + 1
<1>1. /\ q.held = p.held /\ q.mem = p.mem /\ q.free = p.free /\ q.fresh = p.fresh
      /\ q.fault = p.fault /\ IsDb(q)
      /\ q.bulk = [p.bulk EXCEPT ![i] = b] /\ q.map_size = p.map_size + 1
  BY DEF PoolOK, IsDb, Counted
<1>2. Carved(q) = Carved(p)
  BY <1>1 DEF Carved
<1> QED
  BY <1>1, <1>2 DEF PoolOK

(* An entry is linked behind the tail of its bucket. *)
LEMMA AddEntryIs ==
  ASSUME NEW p, PoolOK(p), NEW k, NEW e \in p.held, NEW i, i = index_for(k),
         NEW tail, tail = p.bulk[i].tail, NEW size, size = p.bulk[i].size,
         size = 0 \/ (tail \in p.held /\ tail # e),
         NEW key, NEW val, NEW q, q = add_entry(p, k, e, key, val)
  PROVE  /\ PoolOK(q) /\ q.held = p.held
         /\ q.mem[e] = [prev |-> IF size = 0 THEN NIL ELSE tail, next |-> NIL,
                        hash |-> HashOf[k], key |-> key, val |-> val]
         /\ \A a \in p.held : a # e /\ (size = 0 \/ a # tail) => q.mem[a] = p.mem[a]
         /\ size # 0 => q.mem[tail] = [p.mem[tail] EXCEPT !.next = e]
         /\ q.bulk = [p.bulk EXCEPT ![i] = bulk_after(p.bulk[i], e)]
         /\ q.map_size = p.map_size + 1
<1>1. PICK x : x = [prev |-> IF size = 0 THEN NIL ELSE tail, next |-> NIL,
                    hash |-> HashOf[k], key |-> key, val |-> val]
  OBVIOUS
<1>2. PICK p1 : p1 = IF size = 0 THEN p ELSE [p EXCEPT !.mem[tail].next = e]
  BY Zenon
<1>3. PICK p2, b : p2 = Set(p1, e, x) /\ b = bulk_after(p2.bulk[i], e)
  OBVIOUS
<1>4. q = Counted(p2, i, b)
  BY <1>1, <1>2, <1>3, ZenonT(40) DEF add_entry, Counted
<1>5. /\ PoolOK(p1) /\ p1.held = p.held /\ p1.bulk = p.bulk /\ p1.map_size = p.map_size
      /\ \A a \in {NIL} \cup Carved(p) : size = 0 \/ a # tail => p1.mem[a] = p.mem[a]
      /\ size # 0 => p1.mem[tail] = [p.mem[tail] EXCEPT !.next = e]
      /\ Carved(p1) = Carved(p)
  <2>1. CASE size = 0
    BY <1>2, <2>1
  <2>2. CASE size # 0
    <3>1. PICK y : y = [p.mem[tail] EXCEPT !.next = e]
      OBVIOUS
    <3>2. tail \in DOMAIN p.mem /\ tail \in p.held
      BY <2>2 DEF PoolOK
    <3>3. p1 = Set(p, tail, y)
      BY <1>2, <2>2, <3>1, <3>2 DEF Set, PoolOK, IsDb
    <3>4. /\ PoolOK(p1) /\ p1.held = p.held /\ p1.bulk = p.bulk /\ p1.map_size = p.map_size
          /\ p1.mem[tail] = y /\ \A a \in {NIL} \cup Carved(p) : a # tail => p1.mem[a] = p.mem[a]
          /\ Carved(p1) = Carved(p)
      BY <3>2, <3>3, SetKeeps DEF IsSet
    <3> QED
      BY <2>2, <3>1, <3>4
  <2> QED
    BY <2>1, <2>2
<1>6. /\ PoolOK(p2) /\ p2.held = p1.held /\ p2.bulk = p1.bulk /\ p2.map_size = p1.map_size
      /\ p2.mem[e] = x /\ \A a \in {NIL} \cup Carved(p1) : a # e => p2.mem[a] = p1.mem[a]
  BY <1>3, <1>5, SetKeeps DEF IsSet
<1>7. /\ PoolOK(q) /\ q.held = p2.held /\ q.mem = p2.mem
      /\ q.bulk = [p2.bulk EXCEPT ![i] = b] /\ q.map_size = p2.map_size + 1
  BY <1>4, <1>6, BulkKeeps
<1>8. p.held \subseteq Carved(p)
  BY DEF PoolOK
<1>9. \A a \in p.held : a # e /\ (size = 0 \/ a # tail) => q.mem[a] = p.mem[a]
  BY <1>5, <1>6, <1>7, <1>8
<1>10. size # 0 => q.mem[tail] = [p.mem[tail] EXCEPT !.next = e]
  BY <1>5, <1>6, <1>7, <1>8
<1>11. q.mem[e] = x
  BY <1>6, <1>7
<1>12. q.bulk = [p.bulk EXCEPT ![i] = bulk_after(p.bulk[i], e)]
  BY <1>3, <1>5, <1>6, <1>7
<1>13. PoolOK(q) /\ q.held = p.held /\ q.map_size = p.map_size + 1
  BY <1>5, <1>6, <1>7
<1> QED
  BY <1>1, <1>9, <1>10, <1>11, <1>12, <1>13

(* q is p with e linked behind the entries of the keys s of bucket i. *)
IsLinked(p, q, ent, s, i, k, e, key, val) ==
  /\ PoolOK(q) /\ q.held = p.held
  /\ q.mem[e] = [prev |-> EntAt(ent, s, Len(s)), next |-> NIL,
                 hash |-> HashOf[k], key |-> key, val |-> val]
  /\ \A a \in p.held \ {e} :
       q.mem[a] = p.mem[a] \/ (a[1] = "entry" /\ SameFields(p.mem[a], q.mem[a]))
  /\ \A a \in p.held : a[1] # "entry" => q.mem[a] = p.mem[a]
  /\ \A m \in Keys : ent[m] # NIL =>
       /\ q.mem[ent[m]].prev = p.mem[ent[m]].prev
       /\ q.mem[ent[m]].next = IF Len(s) # 0 /\ m = s[Len(s)] THEN e ELSE p.mem[ent[m]].next
  /\ q.bulk = [p.bulk EXCEPT ![i] = bulk_after(p.bulk[i], e)]
  /\ q.map_size = p.map_size + 1

(* add_entry links the entry behind the last one of the bucket, and writes *)
(* no other block.                                                         *)
LEMMA AddEntryFacts ==
  ASSUME NEW p, NEW own, NEW ent, NEW es, NEW ns, NEW pop, NEW rw, NEW T,
         Sound(p, own, ent, es, ns, pop, rw, T),
         NEW k \in Keys, NEW e \in T, e[1] = "entry", NEW i, i = index_for(k),
         NEW s, s = es[i], NEW key, NEW val, NEW q, q = add_entry(p, k, e, key, val)
  PROVE  IsLinked(p, q, ent, s, i, k, e, key, val)
<1>1. MapOK(p, own, ent, es, ns, rw) /\ PoolOK(p) /\ BucketsOK(p, ent, es)
  BY DEF Sound, MapOK
<1>2. i \in 0 .. BUCKETS - 1 /\ BucketOK(p, i, ent, s)
  BY <1>1, IndexType DEF BucketsOK
<1>3. PICK L, tail : L = Len(s) /\ tail = p.bulk[i].tail
  OBVIOUS
<1>4. L \in Nat /\ p.bulk[i].size = L /\ tail = EntAt(ent, s, L) /\ s \in Seq(Keys)
  BY <1>2, <1>3 DEF BucketOK
<1>5. e \in p.held /\ \A m \in Keys : ent[m] # NIL => ent[m] \in p.held /\ ent[m] # e /\ ent[m][1] = "entry"
                                        /\ EntryOK(p, own, ent[m], m)
  <2>1. T \subseteq p.held
    BY DEF Sound
  <2>2. \A m \in Keys : ent[m] # NIL => ent[m] \in p.held \ T /\ EntryOK(p, own, ent[m], m)
    BY OwnedApart
  <2> QED
    BY <2>1, <2>2 DEF EntryOK, Has
<1>6. L # 0 => /\ s[L] \in Keys /\ ent[s[L]] # NIL /\ tail = ent[s[L]]
               /\ tail \in p.held /\ tail # e /\ tail[1] = "entry"
               /\ EntryOK(p, own, tail, s[L])
  <2> SUFFICES ASSUME L # 0 PROVE /\ s[L] \in Keys /\ ent[s[L]] # NIL /\ tail = ent[s[L]]
    BY <1>5
  <2>1. L \in 1 .. Len(s)
    BY <1>3, <1>4
  <2> QED
    BY <1>2, <1>4, <2>1 DEF BucketOK, EntAt
<1>7. L = 0 \/ (tail \in p.held /\ tail # e)
  BY <1>6
<1>8. /\ PoolOK(q) /\ q.held = p.held
      /\ q.mem[e] = [prev |-> IF L = 0 THEN NIL ELSE tail, next |-> NIL,
                     hash |-> HashOf[k], key |-> key, val |-> val]
      /\ \A a \in p.held : a # e /\ (L = 0 \/ a # tail) => q.mem[a] = p.mem[a]
      /\ L # 0 => q.mem[tail] = [p.mem[tail] EXCEPT !.next = e]
      /\ q.bulk = [p.bulk EXCEPT ![i] = bulk_after(p.bulk[i], e)]
      /\ q.map_size = p.map_size + 1
  <2>1. e \in p.held /\ L = p.bulk[i].size
    BY <1>4, <1>5
  <2> QED
    BY <1>1, <1>3, <1>7, <2>1, AddEntryIs
<1>9. L # 0 => /\ SameFields(p.mem[tail], q.mem[tail])
               /\ q.mem[tail].prev = p.mem[tail].prev /\ q.mem[tail].next = e
  <2> SUFFICES ASSUME L # 0
               PROVE  /\ SameFields(p.mem[tail], q.mem[tail])
                      /\ q.mem[tail].prev = p.mem[tail].prev /\ q.mem[tail].next = e
    OBVIOUS
  <2>1. q.mem[tail] = [p.mem[tail] EXCEPT !.next = e]
    BY <1>8
  <2>2. PICK a, h, y, v, w : p.mem[tail] = [prev |-> a, next |-> w, hash |-> h, key |-> y, val |-> v]
    BY <1>6 DEF EntryOK
  <2>3. q.mem[tail] = [prev |-> a, next |-> e, hash |-> h, key |-> y, val |-> v]
    BY <2>1, <2>2
  <2> QED
    BY <2>2, <2>3 DEF SameFields
<1>10. \A a \in p.held \ {e} :
         q.mem[a] = p.mem[a] \/ (a[1] = "entry" /\ SameFields(p.mem[a], q.mem[a]))
  BY <1>6, <1>8, <1>9
<1>11. \A a \in p.held : a[1] # "entry" => q.mem[a] = p.mem[a]
  BY <1>6, <1>8
<1>12. ASSUME NEW m \in Keys, ent[m] # NIL
       PROVE  /\ q.mem[ent[m]].prev = p.mem[ent[m]].prev
              /\ q.mem[ent[m]].next = IF L # 0 /\ m = s[L] THEN e ELSE p.mem[ent[m]].next
  <2>1. L # 0 /\ ent[m] = tail => m = s[L]
    BY <1>1, <1>6, <1>12, EntApart
  <2>2. CASE L # 0 /\ m = s[L]
    BY <1>6, <1>9, <2>2
  <2>3. CASE ~(L # 0 /\ m = s[L])
    BY <1>5, <1>8, <1>12, <2>1, <2>3
  <2> QED
    BY <2>2, <2>3
<1>13. EntAt(ent, s, Len(s)) = IF L = 0 THEN NIL ELSE tail
  BY <1>3, <1>4 DEF EntAt
<1> QED
  BY <1>3, <1>8, <1>10, <1>11, <1>12, <1>13 DEF IsLinked

(* The buckets with a key more. *)
LEMMA BucketsAppend ==
  ASSUME NEW p, NEW own, NEW ent, NEW es, NEW ns, NEW pop, NEW rw, NEW T,
         Sound(p, own, ent, es, ns, pop, rw, T),
         NEW k \in Keys, ent[k] = NIL, NEW e \in T, e[1] = "entry", NEW i, i = index_for(k),
         NEW key, NEW val, NEW q, q = add_entry(p, k, e, key, val),
         NEW ent2, ent2[k] = e, \A m \in Keys \ {k} : ent2[m] = ent[m],
         NEW es2, es2[i] = Append(es[i], k), \A j \in 0 .. BUCKETS - 1 : j # i => es2[j] = es[j]
  PROVE  BucketsOK(q, ent2, es2)
<1>1. PICK s, s2, L : s = es[i] /\ s2 = es2[i] /\ L = Len(s)
  OBVIOUS
<1>2. /\ MapOK(p, own, ent, es, ns, rw) /\ PoolOK(p) /\ BucketsOK(p, ent, es)
      /\ i \in 0 .. BUCKETS - 1 /\ BucketOK(p, i, ent, s)
  BY <1>1, IndexType DEF Sound, MapOK, BucketsOK
<1>3. /\ PoolOK(q) /\ q.held = p.held
      /\ q.mem[e] = [prev |-> EntAt(ent, s, Len(s)), next |-> NIL,
                     hash |-> HashOf[k], key |-> key, val |-> val]
      /\ \A m \in Keys : ent[m] # NIL =>
           /\ q.mem[ent[m]].prev = p.mem[ent[m]].prev
           /\ q.mem[ent[m]].next = IF Len(s) # 0 /\ m = s[Len(s)] THEN e ELSE p.mem[ent[m]].next
      /\ q.bulk = [p.bulk EXCEPT ![i] = bulk_after(p.bulk[i], e)]
      /\ q.map_size = p.map_size + 1
  BY <1>1, AddEntryFacts DEF IsLinked
<1>4. /\ s \in Seq(Keys) /\ L \in Nat /\ Len(s2) = L + 1 /\ s2[L + 1] = k
      /\ s2 \in Seq(Keys) /\ \A j \in 1 .. L : s2[j] = s[j]
  BY <1>1, <1>2 DEF BucketOK
<1>5. \A j \in 1 .. L : s[j] \in Keys /\ s[j] # k /\ ent[s[j]] # NIL
  BY <1>1, <1>2, <1>4 DEF BucketOK
<1>6. e # NIL
  <2>1. e \in Blocks
    BY <1>2 DEF Sound, PoolOK, Carved
  <2> QED
    BY <2>1 DEF Blocks, Classes, NIL
<1>7. \A j : EntAt(ent2, s2, j) = IF j = L + 1 THEN e ELSE EntAt(ent, s, j)
  <2> SUFFICES ASSUME NEW j PROVE EntAt(ent2, s2, j) = IF j = L + 1 THEN e ELSE EntAt(ent, s, j)
    OBVIOUS
  <2>1. CASE j = L + 1
    BY <1>4, <2>1 DEF EntAt
  <2>2. CASE j # L + 1
    <3>1. j \in 1 .. Len(s2) <=> j \in 1 .. L
      BY <1>4, <2>2
    <3>2. j \in 1 .. L => ent2[s2[j]] = ent[s[j]]
      BY <1>4, <1>5
    <3> QED
      BY <1>1, <2>2, <3>1, <3>2 DEF EntAt
  <2> QED
    BY <2>1, <2>2
<1>8. BucketOK(q, i, ent2, s2)
  <2>1. q.bulk[i] = [header |-> EntAt(ent2, s2, 1), tail |-> EntAt(ent2, s2, Len(s2)),
                     size |-> Len(s2)]
    <3>1. p.bulk[i] = [header |-> EntAt(ent, s, 1), tail |-> EntAt(ent, s, L), size |-> L]
      BY <1>1, <1>2 DEF BucketOK
    <3>2. q.bulk[i] = bulk_after(p.bulk[i], e)
      BY <1>2, <1>3 DEF BucketsOK
    <3>3. EntAt(ent2, s2, L + 1) = e
      BY <1>7
    <3>4. EntAt(ent2, s2, 1) = IF L = 0 THEN e ELSE EntAt(ent, s, 1)
      BY <1>4, <1>7
    <3> QED
      BY <1>4, <3>1, <3>2, <3>3, <3>4 DEF bulk_after
  <2>2. ASSUME NEW j \in 1 .. Len(s2)
        PROVE  /\ ent2[s2[j]] # NIL
               /\ index_for(s2[j]) = i
               /\ q.mem[ent2[s2[j]]].prev = EntAt(ent2, s2, j - 1)
               /\ q.mem[ent2[s2[j]]].next = EntAt(ent2, s2, j + 1)
    <3>1. CASE j = L + 1
      <4>1. s2[j] = k /\ ent2[s2[j]] = e
        BY <1>4, <3>1
      <4>2. q.mem[e].prev = EntAt(ent, s, L) /\ q.mem[e].next = NIL
        BY <1>1, <1>3
      <4>3. j - 1 = L /\ j - 1 # L + 1 /\ j + 1 # L + 1 /\ j + 1 \notin 1 .. Len(s)
        BY <1>1, <1>4, <3>1
      <4>4. EntAt(ent2, s2, j - 1) = EntAt(ent, s, L) /\ EntAt(ent2, s2, j + 1) = NIL
        BY <1>7, <4>3 DEF EntAt
      <4> QED
        BY <1>6, <4>1, <4>2, <4>4
    <3>2. CASE j # L + 1
      <4>1. j \in 1 .. L /\ j \in 1 .. Len(s) /\ j - 1 # L + 1
        BY <1>1, <1>4, <3>2
      <4>2. s2[j] = s[j] /\ ent2[s2[j]] = ent[s[j]] /\ s[j] \in Keys /\ ent[s[j]] # NIL
        BY <1>4, <1>5, <4>1
      <4>3. /\ index_for(s[j]) = i
            /\ p.mem[ent[s[j]]].prev = EntAt(ent, s, j - 1)
            /\ p.mem[ent[s[j]]].next = EntAt(ent, s, j + 1)
        BY <1>2, <4>1 DEF BucketOK
      <4>4. q.mem[ent[s[j]]].prev = EntAt(ent, s, j - 1)
        BY <1>3, <4>2, <4>3
      <4>5. L # 0 /\ s[j] = s[L] <=> j = L
        BY <1>1, <1>2, <1>4, <4>1, SMTT(30) DEF BucketOK
      <4>6. q.mem[ent[s[j]]].next = IF j = L THEN e ELSE EntAt(ent, s, j + 1)
        BY <1>1, <1>3, <4>2, <4>3, <4>5
      <4>7. j + 1 = L + 1 <=> j = L
        BY <1>4
      <4> QED
        BY <1>7, <4>1, <4>2, <4>3, <4>4, <4>6, <4>7
    <3> QED
      BY <3>1, <3>2
  <2>3. \A j, m \in 1 .. Len(s2) : s2[j] = s2[m] => j = m
    <3>1. \A j \in 1 .. Len(s2) : j \in 1 .. L \/ j = L + 1
      BY <1>4
    <3>2. \A j, m \in 1 .. L : s[j] = s[m] => j = m
      BY <1>1, <1>2 DEF BucketOK
    <3> QED
      BY <1>4, <1>5, <3>1, <3>2
  <2> QED
    BY <1>4, <2>1, <2>2, <2>3 DEF BucketOK
<1>9. ASSUME NEW j \in 0 .. BUCKETS - 1, j # i PROVE BucketOK(q, j, ent2, es2[j])
  <2>1. PICK r : r = es[j] /\ r = es2[j]
    BY <1>9
  <2>2. BucketOK(p, j, ent, r)
    BY <1>2, <2>1 DEF BucketsOK
  <2>3. q.bulk[j] = p.bulk[j]
    BY <1>2, <1>3, <1>9 DEF BucketsOK
  <2>4. \A m \in 1 .. Len(r) : /\ r[m] \in Keys /\ r[m] # k /\ ent[r[m]] # NIL
                               /\ ent2[r[m]] = ent[r[m]] /\ index_for(r[m]) = j
    BY <2>2 DEF BucketOK
  <2>5. \A m : EntAt(ent2, r, m) = EntAt(ent, r, m)
    BY <2>4 DEF EntAt
  <2>6. ASSUME NEW m \in 1 .. Len(r)
        PROVE  /\ q.mem[ent2[r[m]]].prev = EntAt(ent, r, m - 1)
               /\ q.mem[ent2[r[m]]].next = EntAt(ent, r, m + 1)
    <3>1. L # 0 => index_for(s[L]) = i
      BY <1>1, <1>2, <1>4, SMTT(30) DEF BucketOK
    <3>2. ~(L # 0 /\ r[m] = s[L])
      BY <1>9, <2>4, <3>1
    <3>3. /\ p.mem[ent[r[m]]].prev = EntAt(ent, r, m - 1)
          /\ p.mem[ent[r[m]]].next = EntAt(ent, r, m + 1)
      BY <2>2 DEF BucketOK
    <3> QED
      BY <1>1, <1>3, <2>4, <3>2, <3>3, SMTT(30)
  <2>7. /\ r \in Seq(Keys)
        /\ p.bulk[j] = [header |-> EntAt(ent, r, 1), tail |-> EntAt(ent, r, Len(r)), size |-> Len(r)]
        /\ \A a, m \in 1 .. Len(r) : r[a] = r[m] => a = m
    BY <2>2 DEF BucketOK
  <2> QED
    <3>1. q.bulk[j] = [header |-> EntAt(ent2, r, 1), tail |-> EntAt(ent2, r, Len(r)), size |-> Len(r)]
      BY <2>3, <2>5, <2>7
    <3>2. \A m \in 1 .. Len(r) :
            /\ ent2[r[m]] # NIL
            /\ index_for(r[m]) = j
            /\ q.mem[ent2[r[m]]].prev = EntAt(ent2, r, m - 1)
            /\ q.mem[ent2[r[m]]].next = EntAt(ent2, r, m + 1)
      BY <2>4, <2>5, <2>6
    <3>3. BucketOK(q, j, ent2, r)
      BY <2>7, <3>1, <3>2 DEF BucketOK
    <3> QED
      BY <2>1, <3>3
<1>10. q.bulk = [j \in 0 .. BUCKETS - 1 |-> q.bulk[j]]
  BY <1>2, <1>3 DEF BucketsOK
<1>11. ASSUME NEW m \in Keys, ent2[m] # NIL
       PROVE  \E j \in 1 .. Len(es2[index_for(m)]) : es2[index_for(m)][j] = m
  <2>1. CASE m = k
    BY <1>1, <1>4, <2>1
  <2>2. CASE m # k
    <3>1. ent[m] # NIL /\ index_for(m) \in 0 .. BUCKETS - 1
      BY <1>11, <2>2, IndexType
    <3>2. PICK j \in 1 .. Len(es[index_for(m)]) : es[index_for(m)][j] = m
      BY <1>2, <3>1 DEF BucketsOK
    <3>3. CASE index_for(m) = i
      BY <1>1, <1>4, <3>2, <3>3, SMTT(30)
    <3>4. CASE index_for(m) # i
      BY <3>1, <3>2, <3>4
    <3> QED
      BY <3>3, <3>4
  <2> QED
    BY <2>1, <2>2
<1>12. q.map_size = Total(es2)
  <2>1. \A j \in 0 .. BUCKETS - 1 : Len(es[j]) \in Nat
    BY <1>2 DEF BucketsOK, BucketOK
  <2>2. Len(es2[i]) = Len(es[i]) + 1 /\ \A j \in 0 .. BUCKETS - 1 : j # i => Len(es2[j]) = Len(es[j])
    BY <1>1, <1>4
  <2>3. Total(es2) = Total(es) + 1
    BY <1>2, <2>1, <2>2, TotalAppend
  <2> QED
    BY <1>2, <1>3, <2>3 DEF BucketsOK
<1>13. \A j \in 0 .. BUCKETS - 1 : BucketOK(q, j, ent2, es2[j])
  BY <1>1, <1>8, <1>9
<1> QED
  BY <1>10, <1>11, <1>12, <1>13 DEF BucketsOK

(* The temporary blocks but those of T2 become blocks of k. *)
Retag(p, own, own2, k, T, T2) ==
  /\ T2 \subseteq T
  /\ \A b \in p.held : IF b \in T \ T2 THEN own2[b][2] = k ELSE own2[b] = own[b]

KeysStay(p, own, own2, T) ==
  \A b \in p.held : own[b][2] \in Keys => own2[b] = own[b] /\ b \notin T

(* Temporary blocks that become blocks of a key were of no key before. *)
LEMMA RetagFacts ==
  ASSUME NEW p, NEW own, NEW ent, NEW es, NEW ns, NEW pop, NEW rw, NEW T,
         Sound(p, own, ent, es, ns, pop, rw, T),
         NEW k \in Keys, NEW own2, NEW T2, Retag(p, own, own2, k, T, T2),
         NEW q, q.held = p.held
  PROVE  /\ AllTmp(q, own2, T2) /\ AllPopped(q, own2, pop)
         /\ KeysStay(p, own, own2, T)
<1>1. T = {b \in p.held : own[b] = TMP}
  BY DEF Sound
<1>2. TMP[2] # k
  BY NoKeyIsNone DEF TMP
<1>3. AllTmp(q, own2, T2)
  <2>1. ASSUME NEW b \in p.held PROVE b \in T2 <=> own2[b] = TMP
    BY <1>1, <1>2 DEF Retag
  <2>2. T2 \subseteq p.held
    BY <1>1 DEF Retag
  <2> QED
    BY <2>1, <2>2 DEF AllTmp
<1>4. AllPopped(q, own2, pop)
  <2> SUFFICES ASSUME NEW b \in pop PROVE Has(q, own2, b, "pair", POPPED)
    BY DEF AllPopped
  <2>1. b \in p.held \ T
    BY OwnedApart
  <2>2. Has(p, own, b, "pair", POPPED)
    BY DEF Sound
  <2> QED
    BY <2>1, <2>2 DEF Has, Retag
<1>5. KeysStay(p, own, own2, T)
  <2>1. \A b \in p.held : own[b][2] \in Keys => b \notin T
    BY OwnedApart
  <2> QED
    BY <2>1 DEF Retag, KeysStay
<1> QED
  BY <1>3, <1>4, <1>5

(* The temporary blocks but those of T2 are the entry e, its key and what   *)
(* its value is made of.                                                   *)
AllBound(q, e, key, val, s, T, T2) ==
  \A b \in T \ T2 : b = e \/ b = key \/ InValue(q, val, s, b)

NewEntry(p, own2, e, key, k) ==
  /\ own2[e] = <<"entry", k, NIL>>
  /\ Has(p, own2, key, "text", <<"key", k, NIL>>) /\ p.mem[key] = k

(* The state q is sound with the entry e for k, of value val.               *)
Bound(p, q, ent, ns, own2, pop, rw, T2, k, e, val, s) ==
  \E ent2, es2, ns2 :
    /\ Sound(q, own2, ent2, es2, ns2, pop, rw, T2)
    /\ OthersRead(p, ent, ns, q, ent2, ns2, k)
    /\ ent2[k] = e /\ ns2[k] = s /\ q.mem[e].val = val

(* A new entry with its key and its value. *)
LEMMA BindNew ==
  ASSUME NEW p, NEW own, NEW ent, NEW es, NEW ns, NEW pop, NEW rw \in BOOLEAN, NEW T,
         Sound(p, own, ent, es, ns, pop, rw, T),
         NEW k \in Keys, ent[k] = NIL, NEW e \in T, e[1] = "entry",
         NEW key, NEW val, NEW q, q = add_entry(p, k, e, key, val),
         NEW own2, NEW T2, Retag(p, own, own2, k, T, T2),
         NewEntry(p, own2, e, key, k), NEW s, NEW kept, kept = TRUE, ValueOK(q, own2, val, s, k, kept),
         AllBound(q, e, key, val, s, T, T2)
  PROVE  Bound(p, q, ent, ns, own2, pop, rw, T2, k, e, val, s)
<1>1. PICK i, l : i = index_for(k) /\ l = es[i] /\ i \in 0 .. BUCKETS - 1
  BY IndexType
<1>2. /\ PoolOK(q) /\ q.held = p.held
      /\ q.mem[e] = [prev |-> EntAt(ent, l, Len(l)), next |-> NIL,
                     hash |-> HashOf[k], key |-> key, val |-> val]
      /\ \A a \in p.held \ {e} :
           q.mem[a] = p.mem[a] \/ (a[1] = "entry" /\ SameFields(p.mem[a], q.mem[a]))
      /\ \A a \in p.held : a[1] # "entry" => q.mem[a] = p.mem[a]
  <2>1. Sound(p, own, ent, es, ns, pop, rw, T) /\ e \in T /\ e[1] = "entry" /\ k \in Keys
    OBVIOUS
  <2>2. q = add_entry(p, k, e, key, val) /\ i = index_for(k) /\ l = es[i]
    BY <1>1
  <2>3. IsLinked(p, q, ent, l, i, k, e, key, val)
    BY <2>1, <2>2, AddEntryFacts
  <2> QED
    BY <2>3 DEF IsLinked
<1>3. PICK ent2 : ent2 = [m \in Keys |-> IF m = k THEN e ELSE ent[m]]
  OBVIOUS
<1>4. PICK ns2 : ns2 = [m \in Keys |-> IF m = k THEN s ELSE ns[m]]
  OBVIOUS
<1>5. PICK es2 : es2 = [j \in 0 .. BUCKETS - 1 |-> IF j = i THEN Append(es[i], k) ELSE es[j]]
  OBVIOUS
<1>6. BucketsOK(q, ent2, es2)
  <2>1. ent2[k] = e /\ \A m \in Keys \ {k} : ent2[m] = ent[m]
    BY <1>3
  <2>2. es2[i] = Append(es[i], k) /\ \A j \in 0 .. BUCKETS - 1 : j # i => es2[j] = es[j]
    BY <1>1, <1>5
  <2> QED
    BY <1>1, <2>1, <2>2, BucketsAppend
<1>7. /\ AllTmp(q, own2, T2) /\ AllPopped(q, own2, pop)
      /\ \A b \in p.held : own[b][2] \in Keys => own2[b] = own[b] /\ b \notin T
  BY <1>2, RetagFacts DEF KeysStay
<1>8. OthersKeep(p, q, own, own2, ent, ent2, ns, ns2, k)
  <2>1. ASSUME NEW m \in Keys \ {k}, NEW b \in p.held, own[b][2] = m
        PROVE  /\ b \in q.held /\ own2[b] = own[b]
               /\ q.mem[b] = p.mem[b] \/ (b[1] = "entry" /\ SameFields(p.mem[b], q.mem[b]))
    BY <1>2, <1>7, <2>1
  <2> QED
    BY <1>3, <1>4, <2>1 DEF OthersKeep, Keeps
<1>9. KeyOK(q, own2, ent2[k], ns2[k], k, rw)
  <2>1. ent2[k] = e /\ ns2[k] = s /\ q.mem[e].val = val /\ q.mem[e].key = key
    BY <1>2, <1>3, <1>4
  <2>2. e \in p.held /\ T \subseteq p.held
    BY DEF Sound
  <2>3. key \in p.held /\ key[1] = "text" /\ q.mem[key] = p.mem[key]
    BY <1>2 DEF Has, NewEntry
  <2>4. EntryOK(q, own2, e, k)
    BY <1>2, <2>1, <2>2, <2>3 DEF EntryOK, Has, NewEntry
  <2>5. ValueOK(q, own2, val, s, k, Kept(k, rw))
    BY DEF ValueOK
  <2> QED
    BY <2>1, <2>4, <2>5 DEF KeyOK
<1>10. Accounted(p, q, ent, ent2, ns, ns2, pop, T, T2, k, rw)
  <2>1. ent2[k] = e /\ ns2[k] = s /\ q.mem[e].val = val /\ q.mem[e].key = key
    BY <1>2, <1>3, <1>4
  <2>2. e # NIL
    BY DEF NIL
  <2>3. \A b \in T \ T2 : InKey(q, e, s, b)
    BY <2>1 DEF InKey, AllBound
  <2> QED
    BY <1>2, <2>1, <2>2, <2>3 DEF Accounted
<1>13. Grows(rw, rw) /\ pop \subseteq pop
  BY DEF Grows
<1>11. Sound(q, own2, ent2, es2, ns2, pop, rw, T2) /\ OthersRead(p, ent, ns, q, ent2, ns2, k)
  BY <1>2, <1>6, <1>7, <1>8, <1>9, <1>10, <1>13, KeyChange
<1>12. ent2[k] = e /\ ns2[k] = s /\ q.mem[e].val = val
  BY <1>2, <1>3, <1>4
<1> QED
  BY <1>11, <1>12 DEF Bound

(* From p to q only the value of the entry e changes, to val. *)
IsAssigned(p, q, e, val) ==
  /\ PoolOK(q) /\ q.held = p.held /\ q.bulk = p.bulk /\ q.map_size = p.map_size
  /\ q.mem[e] = [prev |-> p.mem[e].prev, next |-> p.mem[e].next, hash |-> p.mem[e].hash,
                 key |-> p.mem[e].key, val |-> val]
  /\ \A a \in p.held \ {e} : q.mem[a] = p.mem[a]

(* An assignment of a value to an entry writes nothing but that field. *)
LEMMA AssignFacts ==
  ASSUME NEW p, NEW own, NEW ent, NEW es, NEW ns, NEW pop, NEW rw, NEW T,
         Sound(p, own, ent, es, ns, pop, rw, T),
         NEW k \in Keys, NEW e, e = ent[k], e # NIL,
         NEW val, NEW q, q = [p EXCEPT !.mem[e].val = val]
  PROVE  IsAssigned(p, q, e, val)
<1>1. PoolOK(p) /\ e \in p.held /\ EntryOK(p, own, e, k)
  <2>1. e \in p.held \ T /\ EntryOK(p, own, e, k)
    BY OwnedApart
  <2> QED
    BY <2>1 DEF Sound, MapOK
<1>2. PICK x : x = [p.mem[e] EXCEPT !.val = val]
  OBVIOUS
<1>3. e \in DOMAIN p.mem
  BY <1>1 DEF PoolOK
<1>4. q = Set(p, e, x)
  BY <1>1, <1>2, <1>3 DEF Set, PoolOK, IsDb
<1>5. /\ PoolOK(q)
      /\ q.held = p.held /\ q.bulk = p.bulk /\ q.map_size = p.map_size
      /\ q.mem[e] = x /\ \A a \in {NIL} \cup Carved(p) : a # e => q.mem[a] = p.mem[a]
  <2>1. IsSet(p, q, e, x)
    BY <1>1, <1>4, SetKeeps
  <2> QED
    BY <2>1 DEF IsSet
<1>6. x = [prev |-> p.mem[e].prev, next |-> p.mem[e].next, hash |-> p.mem[e].hash,
           key |-> p.mem[e].key, val |-> val]
  BY <1>1, <1>2 DEF EntryOK
<1>7. p.held \subseteq Carved(p)
  BY <1>1 DEF PoolOK
<1> QED
  BY <1>5, <1>6, <1>7 DEF IsAssigned

(* The state q is sound with the nodes s for k. *)
Assigned(p, q, ent, es, ns, own2, pop, rw2, T2, k, s) ==
  \E ns2 :
    /\ Sound(q, own2, ent, es, ns2, pop, rw2, T2)
    /\ OthersRead(p, ent, ns, q, ent, ns2, k)
    /\ ns2[k] = s

(* A key that is put again has its old value's place taken by the new one. *)
LEMMA Assign ==
  ASSUME NEW p, NEW own, NEW ent, NEW es, NEW ns, NEW pop, NEW rw \in BOOLEAN, NEW T,
         Sound(p, own, ent, es, ns, pop, rw, T),
         NEW k \in Keys, k \in RewriteKeys, NEW e, e = ent[k], e # NIL,
         NEW val, NEW q, q = [p EXCEPT !.mem[e].val = val],
         NEW own2, NEW T2, Retag(p, own, own2, k, T, T2),
         NEW s, ValueOK(q, own2, val, s, k, FALSE), NEW rw2, rw2 = TRUE
  PROVE  Assigned(p, q, ent, es, ns, own2, pop, rw2, T2, k, s)
<1>1. IsAssigned(p, q, e, val)
  BY AssignFacts
<1>2. PICK ns2 : ns2 = [m \in Keys |-> IF m = k THEN s ELSE ns[m]]
  OBVIOUS
<1>3. q.held = p.held /\ PoolOK(q)
  BY <1>1 DEF IsAssigned
<1>4. /\ AllTmp(q, own2, T2) /\ AllPopped(q, own2, pop)
      /\ \A b \in p.held : own[b][2] \in Keys => own2[b] = own[b] /\ b \notin T
  <2>1. AllTmp(q, own2, T2) /\ AllPopped(q, own2, pop) /\ KeysStay(p, own, own2, T)
    BY <1>3, RetagFacts
  <2> QED
    BY <2>1 DEF KeysStay
<1>5. /\ e \in p.held /\ EntryOK(p, own, e, k) /\ own[e] = <<"entry", k, NIL>>
      /\ \A m \in Keys : ent[m] # NIL => own[ent[m]] = <<"entry", m, NIL>> /\ ent[m] \in p.held
  BY OwnedApart
<1>6. OthersKeep(p, q, own, own2, ent, ent, ns, ns2, k)
  <2>1. ASSUME NEW m \in Keys \ {k}, NEW b \in p.held, own[b][2] = m
        PROVE  b \in q.held /\ own2[b] = own[b] /\ q.mem[b] = p.mem[b]
    <3>1. b # e
      BY <1>5, <2>1
    <3> QED
      BY <1>1, <1>3, <1>4, <2>1, <3>1 DEF IsAssigned
  <2> QED
    BY <1>2, <2>1 DEF OthersKeep, Keeps
<1>7. KeyOK(q, own2, ent[k], ns2[k], k, rw2)
  <2>1. own2[e] = own[e] /\ ns2[k] = s
    BY <1>2, <1>4, <1>5
  <2>2. PICK y : y = p.mem[e].key
    BY SMTT(30)
  <2>3. Has(p, own, y, "text", <<"key", k, NIL>>) /\ p.mem[y] = k /\ e[1] = "entry"
        /\ p.mem[e].hash = HashOf[k]
    BY <1>5, <2>2 DEF EntryOK, Has
  <2>4. y # e /\ own2[y] = own[y] /\ y \in p.held
    BY <1>4, <2>3 DEF Has
  <2>5. q.mem[y] = k /\ Has(q, own2, y, "text", <<"key", k, NIL>>)
    BY <1>1, <2>3, <2>4 DEF IsAssigned, Has
  <2>6. EntryOK(q, own2, e, k)
    <3>1. q.mem[e] = [prev |-> q.mem[e].prev, next |-> q.mem[e].next, hash |-> HashOf[k],
                      key |-> q.mem[e].key, val |-> q.mem[e].val] /\ q.mem[e].key = y
      BY <1>1, <2>2, <2>3 DEF IsAssigned
    <3>2. Has(q, own2, e, "entry", <<"entry", k, NIL>>)
      BY <1>3, <1>5, <2>1, <2>3 DEF Has
    <3> QED
      BY <2>5, <3>1, <3>2 DEF EntryOK
  <2>7. q.mem[e].val = val
    BY <1>1 DEF IsAssigned
  <2>8. ~Kept(k, rw2)
    BY DEF Kept
  <2>9. ValueOK(q, own2, val, s, k, Kept(k, rw2))
    BY <2>8 DEF ValueOK
  <2> QED
    BY <2>1, <2>6, <2>7, <2>9 DEF KeyOK
<1>8. BucketsOK(q, ent, es)
  <2>1. BucketsOK(p, ent, es)
    BY DEF Sound, MapOK
  <2>2. \A m \in Keys : ent[m] # NIL =>
          q.mem[ent[m]].prev = p.mem[ent[m]].prev /\ q.mem[ent[m]].next = p.mem[ent[m]].next
    BY <1>1, <1>5 DEF IsAssigned
  <2>3. ASSUME NEW i \in 0 .. BUCKETS - 1 PROVE BucketOK(q, i, ent, es[i])
    <3>1. BucketOK(p, i, ent, es[i])
      BY <2>1 DEF BucketsOK
    <3>2. \A j \in 1 .. Len(es[i]) : es[i][j] \in Keys /\ ent[es[i][j]] # NIL
      BY <3>1 DEF BucketOK
    <3>3. q.bulk = p.bulk
      BY <1>1 DEF IsAssigned
    <3> QED
      BY <2>2, <3>1, <3>2, <3>3 DEF BucketOK
  <2> QED
    BY <1>1, <2>1, <2>3 DEF BucketsOK, IsAssigned
<1>9. Sound(q, own2, ent, es, ns2, pop, rw2, T2) /\ OthersRead(p, ent, ns, q, ent, ns2, k)
  <2>1. Grows(rw, rw2)
    BY DEF Grows
  <2> QED
    <3>1. pop \subseteq pop /\ AllTmp(q, own2, T2) /\ AllPopped(q, own2, pop) /\ PoolOK(q)
      BY <1>3, <1>4
    <3> QED
      <4>1. Accounted(p, q, ent, ent, ns, ns2, pop, T, T2, k, rw2)
        BY DEF Accounted
      <4>2. Sound(p, own, ent, es, ns, pop, rw, T) /\ k \in Keys
        OBVIOUS
      <4> QED
        BY ONLY <1>6, <1>7, <1>8, <2>1, <3>1, <4>1, <4>2, KeyChange
<1>10. ns2[k] = s
  BY <1>2
<1> QED
  BY <1>9, <1>10 DEF Assigned

-----------------------------------------------------------------------------
(* A list grows at its tail. *)

(* The node n is linked behind the tail of the chain c. *)
Linked(p, c, n) ==
  Set(IF p.mem[c].size = 0 THEN p ELSE [p EXCEPT !.mem[p.mem[c].tail].next = n], c,
      [header |-> IF p.mem[c].size = 0 THEN n ELSE p.mem[c].header, tail |-> n,
       size |-> p.mem[c].size + 1])

(* From p to q the node n came behind the nodes s of the chain c. *)
IsPushed(p, q, c, s, n) ==
  /\ PoolOK(q) /\ q.held = p.held /\ q.bulk = p.bulk /\ q.map_size = p.map_size
  /\ q.mem[c] = [header |-> IF Len(s) = 0 THEN n ELSE s[1], tail |-> n, size |-> Len(s) + 1]
  /\ \A a \in p.held : a # c /\ ~(Len(s) # 0 /\ a = s[Len(s)]) => q.mem[a] = p.mem[a]
  /\ Len(s) # 0 => q.mem[s[Len(s)]] = [prev |-> p.mem[s[Len(s)]].prev, next |-> n,
                                       val |-> p.mem[s[Len(s)]].val]

(* touchdb_chain_push_tail writes the header of the chain and the next     *)
(* link of its last node, and nothing else.                                *)
LEMMA PushFacts ==
  ASSUME NEW p, PoolOK(p), NEW own, NEW c, NEW s, NEW k, ListOK(p, own, c, s, k),
         NEW n, NEW q, q = Linked(p, c, n)
  PROVE  IsPushed(p, q, c, s, n)
<1>1. PICK L, tail, header : /\ L = Len(s)
                             /\ tail = p.mem[c].tail
                             /\ header = p.mem[c].header
  OBVIOUS
<1>2. /\ L \in Nat /\ s \in Seq(Blocks) /\ c \in p.held /\ c[1] = "chain"
      /\ p.mem[c].size = L /\ tail = At(s, L) /\ header = At(s, 1)
  BY <1>1 DEF ListOK, Has
<1>3. L # 0 => /\ tail = s[L] /\ header = s[1] /\ tail \in p.held /\ tail[1] = "node"
               /\ p.mem[tail] = [prev |-> p.mem[tail].prev, next |-> p.mem[tail].next,
                                 val |-> p.mem[tail].val]
  <2> SUFFICES ASSUME L # 0
               PROVE  /\ tail = s[L] /\ header = s[1] /\ tail \in p.held /\ tail[1] = "node"
                      /\ p.mem[tail] = [prev |-> p.mem[tail].prev, next |-> p.mem[tail].next,
                                        val |-> p.mem[tail].val]
    OBVIOUS
  <2>1. L \in 1 .. Len(s) /\ 1 \in 1 .. Len(s)
    BY <1>1, <1>2
  <2>2. tail = s[L] /\ header = s[1]
    BY <1>2, <2>1 DEF At
  <2>3. NodeOK(p, own, tail, At(s, L + 1), k)
    BY <2>1, <2>2 DEF ListOK
  <2> QED
    BY <2>2, <2>3 DEF NodeOK, Has
<1>4. PICK p1 : p1 = IF L = 0 THEN p ELSE [p EXCEPT !.mem[tail].next = n]
  OBVIOUS
<1>5. PICK x : x = [header |-> IF L = 0 THEN n ELSE header, tail |-> n, size |-> L + 1]
  OBVIOUS
<1>6. q = Set(p1, c, x)
  BY <1>1, <1>2, <1>4, <1>5 DEF Linked
<1>7. /\ PoolOK(p1) /\ p1.held = p.held /\ p1.bulk = p.bulk /\ p1.map_size = p.map_size
      /\ \A a \in p.held : L = 0 \/ a # tail => p1.mem[a] = p.mem[a]
      /\ L # 0 => p1.mem[tail] = [prev |-> p.mem[tail].prev, next |-> n, val |-> p.mem[tail].val]
  <2>1. CASE L = 0
    BY <1>4, <2>1
  <2>2. CASE L # 0
    <3>1. PICK y : y = [p.mem[tail] EXCEPT !.next = n]
      OBVIOUS
    <3>2. tail \in DOMAIN p.mem /\ tail \in p.held /\ p.held \subseteq Carved(p)
      BY <1>3, <2>2 DEF PoolOK
    <3>3. p1 = Set(p, tail, y)
      BY <1>4, <2>2, <3>1, <3>2 DEF Set, PoolOK, IsDb
    <3>4. IsSet(p, p1, tail, y)
      BY <3>2, <3>3, SetKeeps
    <3>5. y = [prev |-> p.mem[tail].prev, next |-> n, val |-> p.mem[tail].val]
      BY <1>3, <2>2, <3>1
    <3> QED
      BY <2>2, <3>2, <3>4, <3>5 DEF IsSet
  <2> QED
    BY <2>1, <2>2
<1>8. IsSet(p1, q, c, x)
  <2>1. c \in p1.held
    BY <1>2, <1>7
  <2> QED
    BY <1>6, <1>7, <2>1, SetKeeps
<1>9. p1.held \subseteq Carved(p1)
  BY <1>7 DEF PoolOK
<1>10. \A a \in p.held : a # c => q.mem[a] = p1.mem[a]
  BY <1>7, <1>8, <1>9 DEF IsSet
<1>11. L # 0 => q.mem[tail] = p1.mem[tail]
  BY <1>2, <1>3, <1>10
<1>12. PoolOK(q) /\ q.held = p.held /\ q.bulk = p.bulk /\ q.map_size = p.map_size /\ q.mem[c] = x
  BY <1>7, <1>8 DEF IsSet
<1>13. x = [header |-> IF L = 0 THEN n ELSE s[1], tail |-> n, size |-> L + 1]
  BY <1>3, <1>5
<1>14. \A a \in p.held : a # c /\ ~(L # 0 /\ a = s[L]) => q.mem[a] = p.mem[a]
  BY <1>3, <1>7, <1>10
<1> QED
  BY <1>1, <1>3, <1>7, <1>11, <1>12, <1>13, <1>14 DEF IsPushed

(* A function on 1 .. n is a sequence of length n. *)
LEMMA FunctionIsSeq ==
  ASSUME NEW S, NEW n \in Nat, NEW f \in [1 .. n -> S]
  PROVE  f \in Seq(S) /\ Len(f) = n
OBVIOUS

(* The nodes s have the same strings in p and q. *)
SameStrs(p, q, s) ==
  \A j \in 1 .. Len(s) : /\ q.mem[s[j]].val = p.mem[s[j]].val
                         /\ q.mem[p.mem[s[j]].val.addr] = p.mem[p.mem[s[j]].val.addr]

NodeText(p, n) == p.mem[p.mem[p.mem[n].val.addr].addr]

OwnStays(p, own, own2, k) == \A b \in p.held : own[b][2] = k => own2[b] = own[b]

(* n is a node at the end of a list. *)
IsLast(p, n) == p.mem[n] = [prev |-> p.mem[n].prev, next |-> NIL, val |-> p.mem[n].val]

(* A list and one more node are a list. *)
LEMMA PushList ==
  ASSUME NEW p, PoolOK(p), NEW own, NEW own2, NEW c, NEW s, NEW k, ListOK(p, own, c, s, k),
         NEW n, NEW q, IsPushed(p, q, c, s, n),
         OwnStays(p, own, own2, k),
         n \in p.held, n[1] = "node", own[n][2] # k, own2[n] = <<"node", k, NIL>>,
         IsLast(p, n), StrOK(p, own2, n, k)
  PROVE  /\ ListOK(q, own2, c, Append(s, n), k)
         /\ TextsAt(q, Append(s, n)) = Append(TextsAt(p, s), NodeText(p, n))
         /\ SameStrs(p, q, Append(s, n))
<1>1. PICK L, s2 : L = Len(s) /\ s2 = Append(s, n)
  OBVIOUS
<1>2. /\ s \in Seq(Blocks) /\ n \in Blocks /\ L \in Nat
      /\ s2 \in Seq(Blocks) /\ Len(s2) = L + 1 /\ s2[L + 1] = n /\ \A j \in 1 .. L : s2[j] = s[j]
  <2>1. s \in Seq(Blocks) /\ n \in Blocks
    BY DEF ListOK, PoolOK, Carved
  <2> QED
    BY <1>1, <2>1
<1>3. ASSUME NEW j \in 1 .. L
      PROVE  NodeOK(p, own, s[j], At(s, j + 1), k) /\ s[j] # n /\ s[j] \in p.held /\ s[j][1] = "node"
  <2>1. NodeOK(p, own, s[j], At(s, j + 1), k)
    BY <1>1 DEF ListOK
  <2> QED
    BY <2>1 DEF NodeOK, Has
<1>4. \A a \in p.held : a[1] \in {"text", "pair"} => q.mem[a] = p.mem[a]
  <2>1. L # 0 => s[L][1] = "node"
    BY <1>2, <1>3
  <2>2. c[1] = "chain"
    BY DEF ListOK, Has
  <2> QED
    BY <1>1, <2>1, <2>2 DEF IsPushed
<1>5. q.held = p.held /\ c \in p.held /\ c[1] = "chain"
  BY DEF IsPushed, ListOK, Has
<1>6. ASSUME NEW m, StrOK(p, own2, m, k), q.mem[m].val = p.mem[m].val
      PROVE  /\ StrOK(q, own2, m, k)
             /\ q.mem[q.mem[q.mem[m].val.addr].addr] = p.mem[p.mem[p.mem[m].val.addr].addr]
  <2>1. PICK st : st = p.mem[m].val.addr
    OBVIOUS
  <2>2. PICK d : d = p.mem[st].addr
    OBVIOUS
  <2>3. /\ p.mem[m].val = Val(STR, st) /\ Has(p, own2, st, "pair", <<"str", k, m>>)
        /\ Has(p, own2, d, "text", <<"len", k, st>>)
    BY <1>6, <2>1, <2>2, Zenon DEF StrOK, TextOK
  <2>4. q.mem[st] = p.mem[st] /\ q.mem[d] = p.mem[d]
    BY <1>4, <2>3 DEF Has
  <2> QED
    BY <1>5, <1>6, <2>1, <2>2, <2>3, <2>4, Zenon DEF StrOK, TextOK, Has
<1>7. ASSUME NEW j \in 1 .. L
      PROVE  /\ q.mem[s[j]].val = p.mem[s[j]].val
             /\ q.mem[s[j]] = [prev |-> q.mem[s[j]].prev, next |-> At(s2, j + 1), val |-> q.mem[s[j]].val]
             /\ StrOK(p, own2, s[j], k)
  <2>1. p.mem[s[j]] = [prev |-> p.mem[s[j]].prev, next |-> At(s, j + 1), val |-> p.mem[s[j]].val]
    BY <1>3 DEF NodeOK
  <2>2. StrOK(p, own2, s[j], k)
    <3>1. StrOK(p, own, s[j], k)
      BY <1>3 DEF NodeOK
    <3> QED
      <4>1. PICK st, d : st = p.mem[s[j]].val.addr /\ d = p.mem[st].addr
        BY Zenon
      <4>2. /\ p.mem[s[j]].val = Val(STR, st) /\ Has(p, own, st, "pair", <<"str", k, s[j]>>)
            /\ Has(p, own, d, "text", <<"len", k, st>>)
        BY <3>1, <4>1, Zenon DEF StrOK, TextOK
      <4>3. own[st][2] = k /\ own[d][2] = k /\ st \in p.held /\ d \in p.held
        BY <4>2 DEF Has
      <4>4. own2[st] = own[st] /\ own2[d] = own[d]
        BY <4>3 DEF OwnStays
      <4> QED
        BY <4>1, <4>2, <4>4, Zenon DEF StrOK, TextOK, Has
  <2>3. CASE j = L
    <3>1. At(s2, j + 1) = n
      BY <1>2, <2>3 DEF At
    <3>2. q.mem[s[j]] = [prev |-> p.mem[s[j]].prev, next |-> n, val |-> p.mem[s[j]].val]
      BY <1>1, <2>3 DEF IsPushed
    <3> QED
      BY <2>2, <3>1, <3>2
  <2>4. CASE j # L
    <3>1. j + 1 \in 1 .. Len(s2) /\ j + 1 \in 1 .. Len(s) /\ s2[j + 1] = s[j + 1]
      BY <1>1, <1>2, <2>4
    <3>2. s[j] # s[L] /\ s[j] # c
      BY <1>1, <1>2, <1>3, <1>5, <2>4 DEF ListOK
    <3>3. q.mem[s[j]] = p.mem[s[j]]
      BY <1>1, <1>3, <3>2 DEF IsPushed
    <3> QED
      BY <2>1, <2>2, <3>1, <3>3 DEF At
  <2> QED
    BY <2>3, <2>4
<1>8. q.mem[n] = p.mem[n] /\ n \in p.held
  <2>1. n # c /\ ~(L # 0 /\ n = s[L])
    BY <1>2, <1>3, <1>5
  <2> QED
    BY <1>1, <2>1 DEF IsPushed
<1>9. ASSUME NEW j \in 1 .. Len(s2)
      PROVE  /\ NodeOK(q, own2, s2[j], At(s2, j + 1), k)
             /\ q.mem[q.mem[q.mem[s2[j]].val.addr].addr] = p.mem[p.mem[p.mem[s2[j]].val.addr].addr]
  <2>1. CASE j = L + 1
    <3>1. At(s2, j + 1) = NIL /\ s2[j] = n
      BY <1>2, <2>1 DEF At
    <3>2. /\ StrOK(q, own2, n, k)
          /\ q.mem[q.mem[q.mem[n].val.addr].addr] = p.mem[p.mem[p.mem[n].val.addr].addr]
      BY <1>6, <1>8
    <3>3. Has(q, own2, n, "node", <<"node", k, NIL>>)
      BY <1>5, <1>8 DEF Has
    <3> QED
      BY <1>8, <3>1, <3>2, <3>3, SMTT(30) DEF NodeOK, IsLast
  <2>2. CASE j # L + 1
    <3>1. j \in 1 .. L /\ s2[j] = s[j]
      BY <1>2, <2>2
    <3>2. /\ q.mem[s[j]].val = p.mem[s[j]].val
          /\ q.mem[s[j]] = [prev |-> q.mem[s[j]].prev, next |-> At(s2, j + 1), val |-> q.mem[s[j]].val]
          /\ StrOK(p, own2, s[j], k)
      BY <1>7, <3>1
    <3>3. /\ StrOK(q, own2, s[j], k)
          /\ q.mem[q.mem[q.mem[s[j]].val.addr].addr] = p.mem[p.mem[p.mem[s[j]].val.addr].addr]
      BY <1>6, <3>2, Zenon
    <3>4. Has(q, own2, s[j], "node", <<"node", k, NIL>>)
      <4>1. Has(p, own, s[j], "node", <<"node", k, NIL>>)
        BY <1>3, <3>1 DEF NodeOK
      <4>2. own[s[j]][2] = k /\ s[j] \in p.held
        BY <4>1 DEF Has
      <4>3. own2[s[j]] = own[s[j]]
        BY <4>2 DEF OwnStays
      <4> QED
        BY <1>5, <4>1, <4>3 DEF Has
    <3> QED
      BY <3>1, <3>2, <3>3, <3>4, Zenon DEF NodeOK
  <2> QED
    BY <2>1, <2>2, ZenonT(40)
<1>10. \A j, m \in 1 .. Len(s2) : s2[j] = s2[m] => j = m
  <2>1. \A j \in 1 .. Len(s2) : j \in 1 .. L \/ j = L + 1
    BY <1>2
  <2>2. \A j, m \in 1 .. L : s[j] = s[m] => j = m
    BY <1>1 DEF ListOK
  <2> QED
    BY <1>2, <1>3, <2>1, <2>2, SMTT(30)
<1>11. q.mem[c] = [header |-> At(s2, 1), tail |-> At(s2, Len(s2)), size |-> Len(s2)]
  <2>1. At(s2, 1) = IF L = 0 THEN n ELSE s[1]
    BY <1>2 DEF At
  <2>2. At(s2, Len(s2)) = n
    BY <1>2 DEF At
  <2>3. q.mem[c] = [header |-> IF L = 0 THEN n ELSE s[1], tail |-> n, size |-> L + 1]
    BY <1>1 DEF IsPushed
  <2> QED
    BY <1>2, <2>1, <2>2, <2>3
<1>12. ListOK(q, own2, c, s2, k)
  <2>1. Has(q, own2, c, "chain", <<"chain", k, NIL>>)
    BY <1>5, SMTT(30) DEF ListOK, Has, OwnStays
  <2>2. \A j \in 1 .. Len(s2) : NodeOK(q, own2, s2[j], At(s2, j + 1), k)
    BY <1>9
  <2> QED
    BY <1>2, <1>10, <1>11, <2>1, <2>2 DEF ListOK
<1>13. TextsAt(q, s2) = Append(TextsAt(p, s), NodeText(p, n))
  <2>1. PICK t1 : t1 = TextsAt(p, s)
    OBVIOUS
  <2>2. PICK x : x = p.mem[p.mem[p.mem[n].val.addr].addr]
    OBVIOUS
  <2>3. t1 = [j \in 1 .. L |-> p.mem[p.mem[p.mem[s[j]].val.addr].addr]]
    BY <1>1, <2>1 DEF TextsAt
  <2>4. Append(t1, x) = [j \in 1 .. L + 1 |-> IF j = L + 1 THEN x ELSE t1[j]]
    <3>1. PICK X : X = {t1[j] : j \in 1 .. L} \cup {x}
      BY Zenon
    <3>2. t1 \in Seq(X) /\ Len(t1) = L /\ x \in X
      <4>1. t1 \in [1 .. L -> X] /\ x \in X
        BY <2>3, <3>1, Zenon
      <4> QED
        BY <1>2, <4>1, FunctionIsSeq
    <3>3. Append(t1, x) \in Seq(X) /\ Len(Append(t1, x)) = L + 1
          /\ \A j \in 1 .. L + 1 : Append(t1, x)[j] = IF j = L + 1 THEN x ELSE t1[j]
      BY <1>2, <3>2
    <3>4. Append(t1, x) = [j \in 1 .. Len(Append(t1, x)) |-> Append(t1, x)[j]]
      <4>1. PICK a : a = Append(t1, x)
        OBVIOUS
      <4>2. a \in Seq(X)
        BY <3>3, <4>1
      <4>3. a = [j \in 1 .. Len(a) |-> a[j]]
        BY <4>2
      <4> QED
        BY <4>1, <4>3
    <3> QED
      BY <3>3, <3>4
  <2>5. ASSUME NEW j \in 1 .. L + 1
        PROVE  q.mem[q.mem[q.mem[s2[j]].val.addr].addr] = IF j = L + 1 THEN x ELSE t1[j]
    <3>1. q.mem[q.mem[q.mem[s2[j]].val.addr].addr] = p.mem[p.mem[p.mem[s2[j]].val.addr].addr]
      BY <1>2, <1>9, Zenon
    <3>2. CASE j = L + 1
      BY <1>2, <2>2, <3>1, <3>2, Zenon
    <3>3. CASE j # L + 1
      <4>1. j \in 1 .. L
        BY <1>2, <3>3
      <4> QED
        BY <1>2, <2>3, <3>1, <3>3, <4>1, Zenon
    <3> QED
      BY <3>2, <3>3
  <2> QED
    <3>1. TextsAt(q, s2) = [j \in 1 .. L + 1 |-> q.mem[q.mem[q.mem[s2[j]].val.addr].addr]]
      BY <1>2 DEF TextsAt
    <3>2. TextsAt(q, s2) = [j \in 1 .. L + 1 |-> IF j = L + 1 THEN x ELSE t1[j]]
      BY <2>5, <3>1, Zenon
    <3> QED
      BY <2>1, <2>2, <2>4, <3>2, Zenon DEF NodeText
<1>14. SameStrs(p, q, s2)
  <2> SUFFICES ASSUME NEW j \in 1 .. Len(s2)
               PROVE  /\ q.mem[s2[j]].val = p.mem[s2[j]].val
                      /\ q.mem[p.mem[s2[j]].val.addr] = p.mem[p.mem[s2[j]].val.addr]
    BY DEF SameStrs
  <2>1. q.mem[s2[j]].val = p.mem[s2[j]].val /\ StrOK(p, own2, s2[j], k)
    <3>1. CASE j = L + 1
      BY <1>2, <1>8, <3>1
    <3>2. CASE j # L + 1
      <4>1. j \in 1 .. L /\ s2[j] = s[j]
        BY <1>2, <3>2
      <4> QED
        BY <1>7, <4>1
    <3> QED
      BY <3>1, <3>2
  <2> QED
    BY <1>4, <2>1, Zenon DEF StrOK, Has
<1> QED
  BY <1>1, <1>12, <1>13, <1>14

(* The table of buckets is sound as long as no entry is written. *)
LEMMA BucketsStay ==
  ASSUME NEW p, NEW q, NEW ent, NEW es, BucketsOK(p, ent, es),
         q.bulk = p.bulk, q.map_size = p.map_size,
         \A m \in Keys : ent[m] # NIL => q.mem[ent[m]] = p.mem[ent[m]]
  PROVE  BucketsOK(q, ent, es)
<1>1. ASSUME NEW i \in 0 .. BUCKETS - 1 PROVE BucketOK(q, i, ent, es[i])
  <2>1. BucketOK(p, i, ent, es[i])
    BY DEF BucketsOK
  <2>2. \A j \in 1 .. Len(es[i]) : es[i][j] \in Keys /\ ent[es[i][j]] # NIL
    BY <2>1 DEF BucketOK
  <2> QED
    BY <2>1, <2>2 DEF BucketOK
<1> QED
  BY <1>1 DEF BucketsOK

(* The list of k is changed, and nothing else is. *)
OnlyList(p, q, own, k) ==
  /\ PoolOK(q) /\ q.bulk = p.bulk /\ q.map_size = p.map_size
  /\ \A b \in p.held : /\ own[b][2] \in Keys \ {k} => b \in q.held
                       /\ own[b][2] # k \/ b[1] \in {"entry", "text"} => q.mem[b] = p.mem[b]

Updated(f, g, k, x) == g[k] = x /\ \A m \in Keys \ {k} : g[m] = f[m]

RestStays(p, own, own2, k, e) ==
  \A b \in p.held :
    own[b][2] \in Keys \ {k} \/ b = e \/ b = p.mem[e].key => own2[b] = own[b]

(* The entry and the key of k, and all that belongs to other keys, are as   *)
(* they were.                                                              *)
LEMMA ListChange ==
  ASSUME NEW p, NEW own, NEW ent, NEW es, NEW ns, NEW pop, NEW rw, NEW T,
         Sound(p, own, ent, es, ns, pop, rw, T),
         NEW k \in Keys, NEW e, e = ent[k], e # NIL, NEW c, p.mem[e].val = Val(CHAIN, c),
         NEW q, OnlyList(p, q, own, k), e \in q.held, p.mem[e].key \in q.held,
         NEW own2, RestStays(p, own, own2, k, e),
         NEW s, ListOK(q, own2, c, s, k), NEW ns2, Updated(ns, ns2, k, s)
  PROVE  /\ OthersKeep(p, q, own, own2, ent, ent, ns, ns2, k)
         /\ BucketsOK(q, ent, es)
         /\ KeyOK(q, own2, ent[k], ns2[k], k, rw)
         /\ q.mem[e] = p.mem[e]
<1>1. /\ \A m \in Keys : ent[m] # NIL => ent[m] \in p.held /\ EntryOK(p, own, ent[m], m)
      /\ EntryOK(p, own, e, k)
  BY OwnedApart, SMTT(30)
<1>2. \A m \in Keys : ent[m] # NIL => q.mem[ent[m]] = p.mem[ent[m]]
  BY <1>1 DEF OnlyList, EntryOK, Has
<1>3. BucketsOK(q, ent, es)
  <2>1. BucketsOK(p, ent, es) /\ q.bulk = p.bulk /\ q.map_size = p.map_size
    BY DEF Sound, MapOK, OnlyList
  <2> QED
    BY <1>2, <2>1, BucketsStay
<1>4. PICK y : y = p.mem[e].key
  OBVIOUS
<1>5. /\ Has(p, own, e, "entry", <<"entry", k, NIL>>) /\ Has(p, own, y, "text", <<"key", k, NIL>>)
      /\ p.mem[y] = k
  BY <1>1, <1>4 DEF EntryOK
<1>6. own2[e] = own[e] /\ own2[y] = own[y]
  <2>1. e \in p.held /\ y \in p.held /\ own[e][2] = k /\ own[y][2] = k
    BY <1>5 DEF Has
  <2> QED
    BY <1>4, <2>1 DEF RestStays
<1>7. q.mem[e] = p.mem[e] /\ q.mem[y] = p.mem[y]
  BY <1>5 DEF OnlyList, Has
<1>8. KeyOK(q, own2, ent[k], ns2[k], k, rw)
  <2>1. EntryOK(q, own2, e, k)
    BY <1>1, <1>4, <1>5, <1>6, <1>7, Zenon DEF EntryOK, Has
  <2>2. ValueOK(q, own2, Val(CHAIN, c), s, k, Kept(k, rw))
    BY DEF ValueOK, Val, STR, CHAIN
  <2> QED
    BY <1>7, <2>1, <2>2, SMTT(30) DEF KeyOK, Updated
<1>9. ASSUME NEW m \in Keys \ {k} PROVE Keeps(p, q, own, own2, m)
  <2> SUFFICES ASSUME NEW b \in p.held, own[b][2] = m
               PROVE  b \in q.held /\ own2[b] = own[b] /\ q.mem[b] = p.mem[b]
    BY DEF Keeps
  <2>1. own2[b] = own[b]
    BY DEF RestStays
  <2> QED
    BY <2>1 DEF OnlyList
<1> QED
  BY <1>3, <1>7, <1>8, <1>9 DEF OthersKeep, Updated

(* The temporary blocks that stay in the list are n, its string st and the  *)
(* block d of its text.                                                    *)
Pushed(p, n, st, d, T, T2) ==
  st = p.mem[n].val.addr /\ d = p.mem[st].addr /\ T \ T2 \subseteq {n, st, d}

(* texts are the texts old, and t behind them. *)
IsLonger(texts, old, t) == texts = Append(old, t)

(* The state q is sound, and reads the list texts for k. *)
Relisted(p, q, ent, es, ns, own2, pop, rw, T2, k, texts) ==
  \E ns2 :
    /\ Sound(q, own2, ent, es, ns2, pop, rw, T2)
    /\ OthersRead(p, ent, ns, q, ent, ns2, k)
    /\ AbsVal(q, ent[k], ns2[k]) = [kind |-> "list", texts |-> texts]

(* A node with its string comes to the list of k. *)
LEMMA Push ==
  ASSUME NEW p, NEW own, NEW ent, NEW es, NEW ns, NEW pop, NEW rw \in BOOLEAN, NEW T,
         Sound(p, own, ent, es, ns, pop, rw, T),
         NEW k \in Keys, NEW e, e = ent[k], e # NIL, NEW c, p.mem[e].val = Val(CHAIN, c),
         NEW n \in T, n[1] = "node",
         IsLast(p, n),
         NEW q, q = Linked(p, c, n),
         NEW own2, NEW T2, Retag(p, own, own2, k, T, T2), own2[n] = <<"node", k, NIL>>,
         StrOK(p, own2, n, k),
         NEW st, NEW d, Pushed(p, n, st, d, T, T2),
         NEW texts, IsLonger(texts, TextsAt(p, ns[k]), p.mem[d])
  PROVE  Relisted(p, q, ent, es, ns, own2, pop, rw, T2, k, texts)
<1>1. PICK s, s2 : s = ns[k] /\ s2 = Append(s, n)
  OBVIOUS
<1>2. PICK ns2 : ns2 = [m \in Keys |-> IF m = k THEN s2 ELSE ns[m]]
  OBVIOUS
<1>3. PoolOK(p) /\ KeyOK(p, own, e, s, k, rw) /\ T \subseteq p.held /\ T = {b \in p.held : own[b] = TMP}
  BY <1>1 DEF Sound, MapOK
<1>4. ListOK(p, own, c, s, k)
  BY <1>3 DEF KeyOK, ValueOK, Val
<1>5. IsPushed(p, q, c, s, n)
  BY <1>3, <1>4, PushFacts
<1>6. /\ AllTmp(q, own2, T2) /\ AllPopped(q, own2, pop) /\ KeysStay(p, own, own2, T)
  <2>1. q.held = p.held
    BY <1>5 DEF IsPushed
  <2> QED
    BY <2>1, RetagFacts
<1>7. OwnStays(p, own, own2, k)
  BY <1>6 DEF KeysStay, OwnStays
<1>8. own[n][2] # k /\ n \in p.held
  BY <1>3, NoKeyIsNone, SMTT(30) DEF TMP
<1>9. /\ ListOK(q, own2, c, s2, k)
      /\ TextsAt(q, s2) = Append(TextsAt(p, s), p.mem[d])
      /\ SameStrs(p, q, s2)
  <2>1. /\ ListOK(q, own2, c, Append(s, n), k)
        /\ TextsAt(q, Append(s, n)) = Append(TextsAt(p, s), NodeText(p, n))
        /\ SameStrs(p, q, Append(s, n))
    BY <1>3, <1>4, <1>5, <1>7, <1>8, PushList
  <2> QED
    BY <1>1, <2>1, Zenon DEF NodeText, Pushed
<1>10. /\ s \in Seq(Blocks) /\ n \in Blocks /\ Len(s) \in Nat
       /\ Len(s2) = Len(s) + 1 /\ s2[Len(s) + 1] = n /\ \A j \in 1 .. Len(s) : s2[j] = s[j]
  <2>1. s \in Seq(Blocks) /\ n \in Blocks
    BY <1>3, <1>4 DEF ListOK, PoolOK, Carved
  <2> QED
    BY <1>1, <2>1
<1>11. /\ c \in p.held /\ c[1] = "chain" /\ own[c][2] = k
       /\ Len(s) # 0 => s[Len(s)] \in p.held /\ s[Len(s)][1] = "node" /\ own[s[Len(s)]][2] = k
  <2>1. c \in p.held /\ c[1] = "chain" /\ own[c][2] = k
    BY <1>4 DEF ListOK, Has
  <2>2. ASSUME Len(s) # 0
        PROVE  s[Len(s)] \in p.held /\ s[Len(s)][1] = "node" /\ own[s[Len(s)]][2] = k
    <3>1. Len(s) \in 1 .. Len(s)
      BY <1>10, <2>2
    <3>2. Has(p, own, s[Len(s)], "node", <<"node", k, NIL>>)
      BY <1>4, <3>1 DEF ListOK, NodeOK
    <3> QED
      BY <3>2 DEF Has
  <2> QED
    BY <2>1, <2>2
<1>12. \A b \in p.held : own[b][2] # k \/ b[1] \in {"entry", "text"} => q.mem[b] = p.mem[b]
  BY <1>5, <1>11 DEF IsPushed
<1>13. OnlyList(p, q, own, k)
  BY <1>5, <1>12 DEF OnlyList, IsPushed
<1>14. PICK y : y = p.mem[e].key
  OBVIOUS
<1>15. e \in p.held /\ y \in p.held /\ own[e][2] = k /\ own[y][2] = k
  BY <1>3, <1>14 DEF KeyOK, EntryOK, Has
<1>16. RestStays(p, own, own2, k, e)
  BY <1>6, <1>14, <1>15 DEF RestStays, KeysStay
<1>17. /\ OthersKeep(p, q, own, own2, ent, ent, ns, ns2, k)
       /\ BucketsOK(q, ent, es)
       /\ KeyOK(q, own2, ent[k], ns2[k], k, rw)
       /\ q.mem[e] = p.mem[e]
  <2>1. e \in q.held /\ p.mem[e].key \in q.held
    BY <1>5, <1>14, <1>15 DEF IsPushed
  <2> QED
    <3>1. Updated(ns, ns2, k, s2)
      BY <1>2 DEF Updated
    <3> QED
      BY <1>9, <1>13, <1>16, <2>1, <3>1, ListChange
<1>18. ns2[k] = s2 /\ q.held = p.held
  BY <1>2, <1>5 DEF IsPushed
<1>19. Accounted(p, q, ent, ent, ns, ns2, pop, T, T2, k, rw)
  <2>1. ASSUME NEW b \in T \ T2 PROVE InKey(q, e, s2, b)
    <3>1. PICK j \in 1 .. Len(s2) : s2[j] = n
      BY <1>10, SMTT(30)
    <3>2. q.mem[n].val = p.mem[n].val /\ q.mem[st] = p.mem[st]
      BY <1>9, <3>1, ZenonT(40) DEF SameStrs, Pushed
    <3>3. b = n \/ b = q.mem[n].val.addr \/ b = q.mem[q.mem[n].val.addr].addr
      BY <2>1, <3>2, ZenonT(40) DEF Pushed
    <3>4. InValue(q, Val(CHAIN, c), s2, b)
      BY <3>1, <3>3 DEF InValue, Val
    <3> QED
      BY <1>17, <3>4 DEF InKey
  <2>2. ASSUME NEW b, InKey(p, e, s, b) PROVE InKey(q, e, s2, b)
    <3>1. CASE b = e \/ b = p.mem[e].key
      BY <1>17, <3>1 DEF InKey
    <3>2. CASE InValue(p, Val(CHAIN, c), s, b)
      <4>1. CASE b = c
        <5>1. InValue(q, Val(CHAIN, c), s2, b)
          BY <4>1 DEF InValue, Val
        <5> QED
          BY <1>17, <5>1 DEF InKey
      <4>2. CASE b # c
        <5>1. PICK j \in 1 .. Len(s) : \/ b = s[j]
                                       \/ b = p.mem[s[j]].val.addr
                                       \/ b = p.mem[p.mem[s[j]].val.addr].addr
          BY <3>2, <4>2, Zenon DEF InValue, Val, STR, CHAIN
        <5>2. j \in 1 .. Len(s2) /\ s2[j] = s[j]
          BY <1>10
        <5>3. q.mem[s[j]].val = p.mem[s[j]].val
              /\ q.mem[p.mem[s[j]].val.addr] = p.mem[p.mem[s[j]].val.addr]
          BY <1>9, <5>2 DEF SameStrs
        <5>4. b = s2[j] \/ b = q.mem[s2[j]].val.addr \/ b = q.mem[q.mem[s2[j]].val.addr].addr
          BY <5>1, <5>2, <5>3
        <5>5. InValue(q, Val(CHAIN, c), s2, b)
          BY <5>2, <5>4, Zenon DEF InValue, Val
        <5> QED
          BY <1>17, <5>5, SMTT(30) DEF InKey
      <4> QED
        BY <4>1, <4>2
    <3> QED
      BY <2>2, <3>1, <3>2 DEF InKey
  <2> QED
    BY <1>1, <1>18, <2>1, <2>2 DEF Accounted
<1>20. Sound(q, own2, ent, es, ns2, pop, rw, T2) /\ OthersRead(p, ent, ns, q, ent, ns2, k)
  <2>1. PoolOK(q) /\ Grows(rw, rw) /\ pop \subseteq pop
    BY <1>5 DEF IsPushed, Grows
  <2> QED
    BY <1>6, <1>17, <1>19, <2>1, KeyChange
<1>21. AbsVal(q, e, ns2[k]) = [kind  |-> "list", texts |-> Append(TextsAt(p, ns[k]), p.mem[d])]
  <2>1. q.mem[e].val.type = CHAIN
    BY <1>17 DEF Val
  <2>2. AbsVal(q, e, ns2[k]) = [kind |-> "list", texts |-> TextsAt(q, s2)]
    BY <1>18, <2>1 DEF AbsVal, AbsOf
  <2> QED
    BY <1>1, <1>9, <2>2
<1> QED
  BY <1>20, <1>21 DEF Relisted, IsLonger

-----------------------------------------------------------------------------
(* A list shrinks at its head. *)

(* The first node of the chain c is unlinked. *)
Unlinked(p, c, next) ==
  Set(p, c, [header |-> next, tail |-> IF next = NIL THEN NIL ELSE p.mem[c].tail,
             size |-> p.mem[c].size - 1])

(* From p to q the chain c lost the first of its nodes s. *)
IsPulled(p, q, c, s) ==
  /\ PoolOK(q) /\ q.held = p.held /\ q.bulk = p.bulk /\ q.map_size = p.map_size
  /\ q.mem[c] = [header |-> At(s, 2), tail |-> IF Len(s) = 1 THEN NIL ELSE s[Len(s)],
                 size |-> Len(s) - 1]
  /\ \A a \in p.held : a # c => q.mem[a] = p.mem[a]

(* touchdb_chain_pull_head writes the header of the chain, and nothing     *)
(* else that a list reads.                                                 *)
LEMMA PullFacts ==
  ASSUME NEW p, PoolOK(p), NEW own, NEW c, NEW s, NEW k, ListOK(p, own, c, s, k), Len(s) # 0,
         NEW q, q = Unlinked(p, c, At(s, 2))
  PROVE  IsPulled(p, q, c, s)
<1>1. PICK L, next : L = Len(s) /\ next = At(s, 2)
  OBVIOUS
<1>2. /\ L \in Nat /\ L > 0 /\ s \in Seq(Blocks) /\ c \in p.held
      /\ p.mem[c] = [header |-> At(s, 1), tail |-> At(s, L), size |-> L]
  BY <1>1 DEF ListOK, Has
<1>3. next = NIL <=> L = 1
  <2>1. L # 1 => 2 \in 1 .. Len(s) /\ s[2] \in Blocks
    BY <1>1, <1>2
  <2>2. \A b \in Blocks : b # NIL
    BY DEF Blocks, Classes, NIL
  <2>3. L = 1 => 2 \notin 1 .. Len(s)
    BY <1>1
  <2> QED
    BY <1>1, <2>1, <2>2, <2>3 DEF At
<1>4. PICK x : x = [header |-> next, tail |-> IF next = NIL THEN NIL ELSE At(s, L), size |-> L - 1]
  OBVIOUS
<1>5. q = Set(p, c, x)
  BY <1>1, <1>2, <1>4 DEF Unlinked
<1>6. IsSet(p, q, c, x)
  BY <1>2, <1>5, SetKeeps
<1>7. p.held \subseteq Carved(p)
  BY DEF PoolOK
<1>8. x = [header |-> At(s, 2), tail |-> IF L = 1 THEN NIL ELSE s[L], size |-> L - 1]
  BY <1>1, <1>2, <1>3, <1>4, SMTT(30) DEF At
<1> QED
  BY <1>1, <1>6, <1>7, <1>8 DEF IsSet, IsPulled

(* n, st and d belong to the running call from now on. *)
Untagged(own, own2, n, st, d) ==
  \A b \in Blocks : own2[b] = IF b \in {n, st, d} THEN TMP ELSE own[b]

(* n, st and d are the first of the nodes s, its string and the block of    *)
(* its text.                                                               *)
IsFirst(p, s, n, st, d) ==
  Len(s) # 0 /\ n = s[1] /\ st = p.mem[n].val.addr /\ d = p.mem[st].addr

IsRest(s2, s) == s2 = Tail(s)

(* A list without its first node is a list. *)
LEMMA PullList ==
  ASSUME NEW p, PoolOK(p), NEW own, NEW own2, NEW c, NEW s, NEW k, ListOK(p, own, c, s, k),
         NEW q, IsPulled(p, q, c, s),
         NEW n, NEW st, NEW d, IsFirst(p, s, n, st, d),
         Untagged(own, own2, n, st, d), NEW s2, IsRest(s2, s)
  PROVE  ListOK(q, own2, c, s2, k) /\ IsRest(TextsAt(q, s2), TextsAt(p, s))
<1>first. Len(s) # 0 /\ n = s[1]
  BY DEF IsFirst
<1>data. st = p.mem[n].val.addr /\ d = p.mem[st].addr
  BY DEF IsFirst
<1>1. PICK L : L = Len(s) - 1 /\ s2 = Tail(s)
  BY DEF IsRest
<1>2. /\ s \in Seq(Blocks) /\ L \in Nat /\ Len(s) = L + 1
      /\ s2 \in Seq(Blocks) /\ Len(s2) = L /\ \A j \in 1 .. L : s2[j] = s[j + 1]
  <2>1. s \in Seq(Blocks)
    BY DEF ListOK
  <2>2. Len(s) \in Nat /\ s # <<>>
    BY <1>first, <2>1, EmptySeq
  <2>3. /\ Tail(s) \in Seq(Blocks) /\ Len(Tail(s)) = Len(s) - 1
        /\ \A j \in 1 .. Len(s) - 1 : Tail(s)[j] = s[j + 1]
    BY <2>1, <2>2
  <2>4. L \in Nat /\ Len(s) = L + 1
    BY <1>1, <2>2
  <2>5. Len(s2) = L /\ s2 \in Seq(Blocks) /\ \A j \in 1 .. L : s2[j] = s[j + 1]
    BY <1>1, <2>3
  <2> QED
    BY <2>1, <2>4, <2>5
<1>3. ASSUME NEW j \in 1 .. L + 1
      PROVE  NodeOK(p, own, s[j], At(s, j + 1), k) /\ StrOK(p, own, s[j], k)
  BY <1>2, Zenon DEF ListOK, NodeOK
<1>4. /\ Has(p, own, n, "node", <<"node", k, NIL>>) /\ Has(p, own, st, "pair", <<"str", k, n>>)
      /\ Has(p, own, d, "text", <<"len", k, st>>)
  <2>1. 1 \in 1 .. L + 1
    BY <1>2
  <2>2. NodeOK(p, own, n, At(s, 2), k) /\ StrOK(p, own, n, k)
    BY <1>first, <1>3, <2>1
  <2> QED
    BY <1>data, <2>2, Zenon DEF NodeOK, StrOK, TextOK
<1>5. /\ Has(p, own, c, "chain", <<"chain", k, NIL>>)
      /\ p.held \subseteq Blocks
  BY Zenon DEF ListOK, PoolOK, Carved
<1>6. q.held = p.held /\ \A a \in p.held : a # c => q.mem[a] = p.mem[a]
  BY DEF IsPulled
<1>7. Has(q, own2, c, "chain", <<"chain", k, NIL>>)
  <2>1. c \notin {n, st, d}
    BY <1>4, <1>5, Zenon DEF Has
  <2> QED
    BY <1>5, <1>6, <2>1 DEF Has, Untagged
<1>8. ASSUME NEW j \in 1 .. L
      PROVE  /\ NodeOK(q, own2, s2[j], At(s2, j + 1), k)
             /\ q.mem[q.mem[q.mem[s2[j]].val.addr].addr] = p.mem[p.mem[p.mem[s[j + 1]].val.addr].addr]
  <2>1. PICK m : m = s[j + 1] /\ m = s2[j]
    BY <1>2
  <2>2. PICK sm : sm = p.mem[m].val.addr
    OBVIOUS
  <2>3. PICK dm : dm = p.mem[sm].addr
    OBVIOUS
  <2>4. /\ Has(p, own, m, "node", <<"node", k, NIL>>) /\ Has(p, own, sm, "pair", <<"str", k, m>>)
        /\ Has(p, own, dm, "text", <<"len", k, sm>>) /\ p.mem[m].val = Val(STR, sm)
        /\ p.mem[m] = [prev |-> p.mem[m].prev, next |-> At(s, (j + 1) + 1), val |-> p.mem[m].val]
    <3>1. j + 1 \in 1 .. L + 1
      BY <1>2
    <3>2. NodeOK(p, own, m, At(s, (j + 1) + 1), k) /\ StrOK(p, own, m, k)
      BY <1>3, <2>1, <3>1
    <3> QED
      BY <2>2, <2>3, <3>2, Zenon DEF NodeOK, StrOK, TextOK
  <2>5. m # n
    <3>1. j + 1 \in 1 .. Len(s) /\ 1 \in 1 .. Len(s) /\ j + 1 # 1
      BY <1>2
    <3> QED
      BY <1>first, <2>1, <3>1 DEF ListOK
  <2>6. sm # st /\ dm # d
    <3>1. own[sm] = <<"str", k, m>> /\ own[st] = <<"str", k, n>>
      BY <1>4, <2>4, Zenon DEF Has
    <3>2. sm # st
      <4>1. own[sm][3] = m /\ own[st][3] = n
        BY ONLY <3>1
      <4> QED
        BY <2>5, <4>1
    <3>3. own[dm] = <<"len", k, sm>> /\ own[d] = <<"len", k, st>>
      BY <1>4, <2>4, Zenon DEF Has
    <3>4. own[dm][3] = sm /\ own[d][3] = st
      BY ONLY <3>3
    <3> QED
      BY <3>2, <3>4, Zenon
  <2>7. {m, sm, dm} \cap {n, st, d} = {} /\ c \notin {m, sm, dm}
    BY <1>4, <1>5, <2>4, <2>5, <2>6, Zenon DEF Has
  <2>8. /\ Has(q, own2, m, "node", <<"node", k, NIL>>) /\ Has(q, own2, sm, "pair", <<"str", k, m>>)
        /\ Has(q, own2, dm, "text", <<"len", k, sm>>)
    BY <1>5, <1>6, <2>4, <2>7 DEF Has, Untagged
  <2>9. q.mem[m] = p.mem[m] /\ q.mem[sm] = p.mem[sm] /\ q.mem[dm] = p.mem[dm]
    BY <1>6, <2>4, <2>7 DEF Has
  <2>10. At(s2, j + 1) = At(s, (j + 1) + 1)
    <3>1. j + 1 \in 1 .. L <=> (j + 1) + 1 \in 1 .. L + 1
      BY <1>2
    <3> QED
      BY <1>2, <3>1 DEF At
  <2>11. StrOK(q, own2, m, k)
    BY <2>2, <2>3, <2>4, <2>8, <2>9, Zenon DEF StrOK, TextOK
  <2>12. NodeOK(q, own2, m, At(s2, j + 1), k)
    BY <2>4, <2>8, <2>9, <2>10, <2>11 DEF NodeOK
  <2> QED
    BY <2>1, <2>2, <2>3, <2>9, <2>12, Zenon
<1>9. \A j, m \in 1 .. L : s2[j] = s2[m] => j = m
  <2> SUFFICES ASSUME NEW j \in 1 .. L, NEW m \in 1 .. L, s2[j] = s2[m] PROVE j = m
    OBVIOUS
  <2>1. s[j + 1] = s[m + 1] /\ j + 1 \in 1 .. Len(s) /\ m + 1 \in 1 .. Len(s)
    BY <1>2
  <2>2. j + 1 = m + 1
    BY <2>1 DEF ListOK
  <2> QED
    BY <1>2, <2>2
<1>10. q.mem[c] = [header |-> At(s2, 1), tail |-> At(s2, Len(s2)), size |-> Len(s2)]
  <2>1. q.mem[c] = [header |-> At(s, 2), tail |-> IF L + 1 = 1 THEN NIL ELSE s[L + 1], size |-> (L + 1) - 1]
    BY <1>2 DEF IsPulled
  <2>2. At(s2, 1) = At(s, 2)
    <3>1. 1 \in 1 .. L <=> 2 \in 1 .. L + 1
      BY <1>2
    <3>2. 1 \in 1 .. L => s2[1] = s[2]
      BY <1>2
    <3> QED
      BY <1>2, <3>1, <3>2 DEF At
  <2>3. At(s2, L) = IF L + 1 = 1 THEN NIL ELSE s[L + 1]
    BY <1>2 DEF At
  <2> QED
    BY <1>2, <2>1, <2>2, <2>3
<1>11. ListOK(q, own2, c, s2, k)
  <2>1. \A j \in 1 .. Len(s2) : NodeOK(q, own2, s2[j], At(s2, j + 1), k)
    BY <1>2, <1>8, Zenon
  <2> QED
    BY <1>2, <1>7, <1>9, <1>10, <2>1 DEF ListOK
<1>12. TextsAt(q, s2) = Tail(TextsAt(p, s))
  <2>1. PICK t1 : t1 = TextsAt(p, s)
    OBVIOUS
  <2>2. t1 = [j \in 1 .. L + 1 |-> p.mem[p.mem[p.mem[s[j]].val.addr].addr]]
    BY <1>2, <2>1, Zenon DEF TextsAt
  <2>3. PICK X : X = {t1[j] : j \in 1 .. L + 1}
    OBVIOUS
  <2>4. t1 \in [1 .. L + 1 -> X] /\ L + 1 \in Nat
    <3>1. \A j \in 1 .. L + 1 : t1[j] \in X
      BY <2>3
    <3>2. t1 = [j \in 1 .. L + 1 |-> t1[j]]
      BY <2>2, Zenon
    <3> QED
      BY ONLY <1>2, <3>1, <3>2
  <2>5. t1 \in Seq(X) /\ Len(t1) = L + 1
    BY <2>4, FunctionIsSeq
  <2>6. Tail(t1) \in Seq(X) /\ Len(Tail(t1)) = L /\ \A j \in 1 .. L : Tail(t1)[j] = t1[j + 1]
    BY <1>2, <2>5
  <2>7. Tail(t1) = [j \in 1 .. L |-> Tail(t1)[j]]
    <3>1. PICK a : a = Tail(t1)
      OBVIOUS
    <3>2. a \in Seq(X) /\ Len(a) = L
      BY <2>6, <3>1
    <3>3. a = [j \in 1 .. Len(a) |-> a[j]]
      BY <3>2
    <3> QED
      BY <3>1, <3>2, <3>3
  <2>8. ASSUME NEW j \in 1 .. L
        PROVE  q.mem[q.mem[q.mem[s2[j]].val.addr].addr] = Tail(t1)[j]
    <3>1. j + 1 \in 1 .. L + 1
      BY <1>2
    <3> QED
      BY <1>8, <2>2, <2>6, <3>1, Zenon
  <2>9. TextsAt(q, s2) = [j \in 1 .. L |-> Tail(t1)[j]]
    <3>1. TextsAt(q, s2) = [j \in 1 .. L |-> q.mem[q.mem[q.mem[s2[j]].val.addr].addr]]
      BY <1>2 DEF TextsAt
    <3> QED
      BY <2>8, <3>1, Zenon
  <2> QED
    BY <2>1, <2>7, <2>9
<1> QED
  BY <1>11, <1>12 DEF IsRest

Released(T, T2, n, st, d) == T2 = T \cup {n, st, d}

(* The first node of the list of k, with its string, belongs to nothing any *)
(* more.                                                                   *)
LEMMA Pull ==
  ASSUME NEW p, NEW own, NEW ent, NEW es, NEW ns, NEW pop, NEW rw \in BOOLEAN, NEW T,
         Sound(p, own, ent, es, ns, pop, rw, T),
         NEW k \in Keys, NEW e, e = ent[k], e # NIL, NEW c, p.mem[e].val = Val(CHAIN, c),
         NEW s, NEW n, NEW st, NEW d, s = ns[k], IsFirst(p, s, n, st, d),
         NEW q, q = Unlinked(p, c, At(s, 2)),
         NEW own2, Untagged(own, own2, n, st, d), NEW T2, Released(T, T2, n, st, d),
         NEW texts, IsRest(texts, TextsAt(p, s))
  PROVE  Relisted(p, q, ent, es, ns, own2, pop, rw, T2, k, texts)
<1>0. s = ns[k] /\ Len(s) # 0
  BY Zenon DEF IsFirst
<1>1. PICK s2 : s2 = Tail(s)
  OBVIOUS
<1>2. PICK ns2 : ns2 = [m \in Keys |-> IF m = k THEN s2 ELSE ns[m]]
  OBVIOUS
<1>3. PoolOK(p) /\ KeyOK(p, own, e, s, k, rw) /\ T = {b \in p.held : own[b] = TMP}
  BY <1>0 DEF Sound, MapOK
<1>4. ListOK(p, own, c, s, k)
  BY <1>3 DEF KeyOK, ValueOK, Val
<1>5. IsPulled(p, q, c, s)
  BY <1>0, <1>3, <1>4, PullFacts
<1>6. ListOK(q, own2, c, s2, k) /\ TextsAt(q, s2) = Tail(TextsAt(p, s))
  <2>1. IsRest(s2, s)
    BY <1>1 DEF IsRest
  <2>2. PoolOK(p) /\ Untagged(own, own2, n, st, d) /\ IsFirst(p, s, n, st, d)
    BY <1>3
  <2>3. ListOK(q, own2, c, s2, k) /\ IsRest(TextsAt(q, s2), TextsAt(p, s))
    BY ONLY <1>4, <1>5, <2>1, <2>2, PullList
  <2> QED
    BY <2>3 DEF IsRest
<1>7. /\ s \in Seq(Blocks) /\ Len(s) \in Nat /\ 1 \in 1 .. Len(s)
      /\ \A j \in 1 .. Len(s) : j = 1 \/ (j - 1 \in 1 .. Len(s2) /\ s2[j - 1] = s[j])
  <2>1. s \in Seq(Blocks)
    BY <1>4 DEF ListOK
  <2>2. Len(s) \in Nat /\ s # <<>>
    BY <1>0, <2>1, EmptySeq
  <2>3. Len(s2) = Len(s) - 1 /\ \A j \in 1 .. Len(s) - 1 : s2[j] = s[j + 1]
    BY <1>1, <2>1, <2>2
  <2>4. ASSUME NEW j \in 1 .. Len(s), j # 1
        PROVE  j - 1 \in 1 .. Len(s2) /\ s2[j - 1] = s[j]
    <3>1. j - 1 \in 1 .. Len(s) - 1 /\ (j - 1) + 1 = j
      BY <2>2, <2>4
    <3> QED
      BY <2>3, <3>1
  <2>5. Len(s) \in Nat /\ 1 \in 1 .. Len(s)
    <3>1. Len(s) # 0 /\ Len(s) \in Nat
      BY <1>0, <2>2
    <3> QED
      BY <3>1
  <2>6. \A j \in 1 .. Len(s) : j = 1 \/ (j - 1 \in 1 .. Len(s2) /\ s2[j - 1] = s[j])
    BY <2>4, SMTT(30)
  <2> QED
    BY <2>1, <2>5, <2>6
<1>8. /\ Has(p, own, n, "node", <<"node", k, NIL>>) /\ Has(p, own, st, "pair", <<"str", k, n>>)
      /\ Has(p, own, d, "text", <<"len", k, st>>)
  <2>1. NodeOK(p, own, n, At(s, 1 + 1), k)
    BY <1>4, <1>7, Zenon DEF ListOK, IsFirst
  <2> QED
    BY <2>1, ZenonT(40) DEF NodeOK, StrOK, TextOK, IsFirst
<1>9. /\ {n, st, d} \subseteq p.held /\ own[n][2] = k /\ own[st][2] = k /\ own[d][2] = k
      /\ p.held \subseteq Blocks
  BY <1>3, <1>8 DEF Has, PoolOK, Carved
<1>10. q.held = p.held /\ \A b \in p.held : b # c => q.mem[b] = p.mem[b]
  BY <1>5 DEF IsPulled
<1>11. c \in p.held /\ c[1] = "chain" /\ own[c][2] = k
  BY <1>4 DEF ListOK, Has
<1>12. AllTmp(q, own2, T2)
  BY <1>3, <1>9, <1>10 DEF AllTmp, Untagged, Released
<1>13. AllPopped(q, own2, pop)
  <2> SUFFICES ASSUME NEW b \in pop PROVE Has(q, own2, b, "pair", POPPED)
    BY DEF AllPopped
  <2>1. Has(p, own, b, "pair", POPPED)
    BY DEF Sound
  <2>2. POPPED[2] # k
    BY NoKeyIsNone DEF POPPED
  <2>3. b \notin {n, st, d}
    BY <1>9, <2>1, <2>2 DEF Has
  <2> QED
    BY <1>9, <1>10, <2>1, <2>3 DEF Has, Untagged
<1>14. OnlyList(p, q, own, k)
  BY <1>5, <1>10, <1>11 DEF OnlyList, IsPulled
<1>15. PICK y : y = p.mem[e].key
  OBVIOUS
<1>16. /\ Has(p, own, e, "entry", <<"entry", k, NIL>>) /\ Has(p, own, y, "text", <<"key", k, NIL>>)
  BY <1>3, <1>15 DEF KeyOK, EntryOK
<1>17. e \notin {n, st, d} /\ y \notin {n, st, d} /\ e \in p.held /\ y \in p.held
  BY <1>8, <1>16 DEF Has
<1>18. RestStays(p, own, own2, k, e)
  <2> SUFFICES ASSUME NEW b \in p.held, own[b][2] \in Keys \ {k} \/ b = e \/ b = y
               PROVE  own2[b] = own[b]
    BY <1>15 DEF RestStays
  <2>1. b \notin {n, st, d}
    BY <1>9, <1>17
  <2> QED
    BY <1>9, <2>1 DEF Untagged
<1>19. /\ OthersKeep(p, q, own, own2, ent, ent, ns, ns2, k)
       /\ BucketsOK(q, ent, es)
       /\ KeyOK(q, own2, ent[k], ns2[k], k, rw)
       /\ q.mem[e] = p.mem[e]
  <2>1. e \in q.held /\ p.mem[e].key \in q.held
    BY <1>10, <1>15, <1>17
  <2>2. Updated(ns, ns2, k, s2)
    BY <1>2 DEF Updated
  <2> QED
    BY <1>6, <1>14, <1>18, <2>1, <2>2, ListChange
<1>20. ns2[k] = s2
  BY <1>2
<1>21. Accounted(p, q, ent, ent, ns, ns2, pop, T, T2, k, rw)
  <2>1. ASSUME NEW b \in q.held \ T2, InKey(p, e, s, b) PROVE InKey(q, e, s2, b)
    <3>1. CASE b = e \/ b = p.mem[e].key
      BY <1>19, <3>1 DEF InKey
    <3>2. CASE InValue(p, Val(CHAIN, c), s, b)
      <4>1. CASE b = c
        <5>1. InValue(q, Val(CHAIN, c), s2, b)
          BY <4>1 DEF InValue, Val
        <5> QED
          BY <1>19, <5>1 DEF InKey
      <4>2. CASE b # c
        <5>1. PICK j \in 1 .. Len(s) : \/ b = s[j]
                                       \/ b = p.mem[s[j]].val.addr
                                       \/ b = p.mem[p.mem[s[j]].val.addr].addr
          BY <3>2, <4>2, ZenonT(40) DEF InValue, Val, STR, CHAIN
        <5>2. j # 1
          BY <2>1, <5>1, Zenon DEF IsFirst, Released
        <5>3. PICK i \in 1 .. Len(s2) : s2[i] = s[j]
          BY <1>7, <5>2
        <5>4. NodeOK(p, own, s[j], At(s, j + 1), k)
          BY <1>4, SMTT(30) DEF ListOK
        <5>5. q.mem[s[j]] = p.mem[s[j]] /\ q.mem[p.mem[s[j]].val.addr] = p.mem[p.mem[s[j]].val.addr]
          BY <1>10, <1>11, <5>4, ZenonT(40) DEF NodeOK, StrOK, Has
        <5>6. InValue(q, Val(CHAIN, c), s2, b)
          BY <5>1, <5>3, <5>5, ZenonT(40) DEF InValue, Val
        <5> QED
          BY <1>19, <5>6, SMTT(30) DEF InKey
      <4> QED
        BY <4>1, <4>2
    <3> QED
      BY <2>1, <3>1, <3>2 DEF InKey
  <2> QED
    BY <1>0, <1>10, <1>20, <2>1 DEF Accounted, Released
<1>22. Sound(q, own2, ent, es, ns2, pop, rw, T2) /\ OthersRead(p, ent, ns, q, ent, ns2, k)
  <2>1. PoolOK(q) /\ Grows(rw, rw) /\ pop \subseteq pop
    BY <1>5 DEF IsPulled, Grows
  <2> QED
    BY <1>12, <1>13, <1>19, <1>21, <2>1, KeyChange
<1>23. AbsVal(q, e, ns2[k]) = [kind |-> "list", texts |-> Tail(TextsAt(p, s))]
  <2>1. q.mem[e].val.type = CHAIN
    BY <1>19 DEF Val
  <2>2. AbsVal(q, e, ns2[k]) = [kind |-> "list", texts |-> TextsAt(q, s2)]
    BY <1>20, <2>1 DEF AbsVal, AbsOf
  <2> QED
    BY <1>6, <2>2
<1> QED
  BY <1>22, <1>23, SMTT(30) DEF Relisted, IsRest

(* The block of a value that was popped is the caller's. *)
LEMMA PopDone ==
  ASSUME NEW p, NEW own, NEW ent, NEW es, NEW ns, NEW pop, NEW rw, NEW T,
         Sound(p, own, ent, es, ns, pop, rw, T),
         NEW v \in T, v[1] = "pair", T = {v}, NEW own2, own2 = Tag(own, v, POPPED)
  PROVE  Sound(p, own2, ent, es, ns, pop \cup {v}, rw, {})
<1>1. PoolOK(p) /\ v \in p.held /\ p.held \subseteq Blocks /\ own[v] = TMP
  BY DEF Sound, MapOK, PoolOK, Carved
<1>2. own2[v] = POPPED /\ \A b \in p.held \ {v} : own2[b] = own[b]
  BY <1>1 DEF Tag
<1>3. POPPED # TMP /\ TMP[2] \notin Keys
  BY NoKeyIsNone DEF POPPED, TMP
<1>4. ASSUME NEW k \in Keys
      PROVE  /\ KeyOK(p, own2, ent[k], ns[k], k, rw)
  <2>1. Keeps(p, p, own, own2, k)
    BY <1>1, <1>2, <1>3 DEF Keeps
  <2>2. KeyOK(p, own, ent[k], ns[k], k, rw)
    BY DEF Sound, MapOK
  <2>3. PICK e, s : e = ent[k] /\ s = ns[k]
    OBVIOUS
  <2>4. KeyOK(p, own2, e, s, k, rw)
    BY <2>1, <2>2, <2>3, KeyFrame
  <2> QED
    BY <2>3, <2>4
<1>5. MapOK(p, own2, ent, es, ns, rw)
  BY <1>4 DEF Sound, MapOK
<1>6. \A b \in pop \cup {v} : Has(p, own2, b, "pair", POPPED)
  <2>1. ASSUME NEW b \in pop PROVE Has(p, own2, b, "pair", POPPED)
    <3>1. Has(p, own, b, "pair", POPPED)
      BY DEF Sound
    <3> QED
      BY <1>1, <1>2, <1>3, <3>1 DEF Has
  <2> QED
    BY <1>1, <1>2, <2>1 DEF Has
<1>7. {} = {b \in p.held : own2[b] = TMP}
  BY <1>1, <1>2, <1>3 DEF Sound
<1>8. rw = FALSE => \A b \in p.held \ {} : InUse(p, ent, ns, pop \cup {v}, b)
  BY DEF Sound, InUse
<1> QED
  BY <1>5, <1>6, <1>7, <1>8 DEF Sound

-----------------------------------------------------------------------------
(* A call changes the value of its key, and hides what it does meanwhile.  *)

(* A step that leaves all values alone may precede a change of one key. *)
LEMMA ReadBefore ==
  ASSUME NEW p, NEW q, NEW r, NEW ent, NEW ns, NEW rw, SameVals(p, q, ent, ns, rw),
         NEW ent2, NEW ns2, NEW k, OthersRead(q, ent, ns, r, ent2, ns2, k)
  PROVE  OthersRead(p, ent, ns, r, ent2, ns2, k)
<1>1. \A m \in Stable : m \in Keys /\ Kept(m, rw)
  BY DEF Stable, Kept
<1> QED
  BY <1>1 DEF SameVals, OthersRead

(* A step that leaves all values alone may follow a change of one key. *)
LEMMA ReadAfter ==
  ASSUME NEW p, NEW q, NEW r, NEW ent, NEW ns, NEW rw,
         NEW ent2, NEW ns2, NEW k, OthersRead(p, ent, ns, q, ent2, ns2, k),
         SameVals(q, r, ent2, ns2, rw)
  PROVE  OthersRead(p, ent, ns, r, ent2, ns2, k)
<1>1. \A m \in Stable : m \in Keys /\ Kept(m, rw)
  BY DEF Stable, Kept
<1> QED
  BY <1>1 DEF SameVals, OthersRead

(* From p to q the blocks but the entries keep their contents. *)
BlocksStay(p, q) ==
  p.held \subseteq q.held /\ \A b \in p.held : b[1] # "entry" => q.mem[b] = p.mem[b]

(* The value v, with the nodes s, reads in q as in p, and has the same      *)
(* blocks.                                                                 *)
SameVal(p, q, v, s) ==
  AbsOf(q, v, s) = AbsOf(p, v, s) /\ \A b : InValue(p, v, s, b) => InValue(q, v, s, b)

(* A value of a key reads as it did, when the blocks of the key stay. *)
LEMMA ValueStays ==
  ASSUME NEW p, NEW q, NEW own, NEW own2, NEW k, Keeps(p, q, own, own2, k), NEW v, NEW s,
         NEW kept, ValueOK(p, own, v, s, k, kept)
  PROVE  ValueOK(q, own2, v, s, k, kept) /\ (kept = TRUE \/ v.type = CHAIN => SameVal(p, q, v, s))
<1>1. kept => kept
  OBVIOUS
<1>2. /\ ValueOK(q, own2, v, s, k, kept)
      /\ kept \/ v.type = CHAIN =>
           /\ AbsOf(q, v, s) = AbsOf(p, v, s)
           /\ \A b : InValue(p, v, s, b) => InValue(q, v, s, b)
  BY <1>1, ValueFrame
<1> QED
  BY <1>2 DEF SameVal

(* The temporary blocks but those of T2 are in the value val. *)
AllIn(p, val, s, T, T2) == \A b \in T \ T2 : InValue(p, val, s, b)

(* k has the value val, with the nodes s, which was made in p. *)
IsBound(p, q, ent2, ns2, k, val, s) ==
  /\ ent2[k] # NIL /\ ns2[k] = s
  /\ q.mem[ent2[k]].val = val
  /\ AbsOf(q, val, s) = AbsOf(p, val, s)
  /\ BlocksStay(p, q)

EntryTags(ownV, e, key, k) ==
  [b \in Blocks |-> IF b = e THEN <<"entry", k, NIL>>
                    ELSE IF b = key THEN <<"key", k, NIL>> ELSE ownV[b]]

(* The state q is sound, and k has the value val with the nodes s. *)
BoundTo(p, q, ent, ns, pop, rw, T2, k, val, s) ==
  \E own2, ent2, es2, ns2 :
    /\ Sound(q, own2, ent2, es2, ns2, pop, rw, T2)
    /\ OthersRead(p, ent, ns, q, ent2, ns2, k)
    /\ IsBound(p, q, ent2, ns2, k, val, s)

(* touchdb_map_put2 of a key without an entry. *)
LEMMA PutNew ==
  ASSUME NEW p, NEW own, NEW ent, NEW es, NEW ns, NEW pop, NEW rw \in BOOLEAN, NEW T,
         Sound(p, own, ent, es, ns, pop, rw, T),
         NEW k \in Keys, ent[k] = NIL, NEW val, NEW q, q = touchdb_map_put2(p, k, val),
         NEW ownV, NEW T2, Retag(p, own, ownV, k, T, T2), NEW s, NEW kept, kept = TRUE,
         ValueOK(p, ownV, val, s, k, kept), AllIn(p, val, s, T, T2)
  PROVE  BoundTo(p, q, ent, ns, pop, rw, T2, k, val, s)
<1>1. "entry" \in Classes /\ "text" \in Classes
  BY DEF Classes
<1>2. PICK e, p1, T1, own1 : /\ e = Blk(p, "entry") /\ p1 = New(p, "entry", NIL)
                             /\ T1 = T \cup {e} /\ own1 = Tag(own, e, TMP)
  OBVIOUS
<1>3. /\ Sound(p1, own1, ent, es, ns, pop, rw, T1)
      /\ SameVals(p, p1, ent, ns, rw)
      /\ e \in Blocks \ p.held /\ e[1] = "entry" /\ e \notin T
      /\ p1.held = p.held \cup {e}
      /\ \A a \in p.held : p1.mem[a] = p.mem[a]
  BY <1>1, <1>2, TmpNew
<1>4. PICK key, p2, T3 : /\ key = Blk(p1, "text") /\ p2 = New(p1, "text", k)
                         /\ T3 = T1 \cup {key}
  OBVIOUS
<1>17. PICK own3 : own3 = Tag(own1, key, TMP)
  OBVIOUS
<1>5. /\ Sound(p2, own3, ent, es, ns, pop, rw, T3)
      /\ SameVals(p1, p2, ent, ns, rw)
      /\ key \in Blocks \ p1.held /\ key[1] = "text" /\ key \notin T1
      /\ p2.held = p1.held \cup {key}
      /\ p2.mem[key] = k
      /\ \A a \in p1.held : p2.mem[a] = p1.mem[a]
  <2>1. Sound(p1, own1, ent, es, ns, pop, rw, T1)
    BY <1>3
  <2>2. /\ Sound(p2, Tag(own1, key, TMP), ent, es, ns, pop, rw, T1 \cup {key})
        /\ SameVals(p1, p2, ent, ns, rw)
        /\ key \in Blocks \ p1.held /\ key[1] = "text" /\ key \notin T1
        /\ p2.held = p1.held \cup {key}
        /\ p2.mem[key] = k
        /\ \A a \in p1.held : p2.mem[a] = p1.mem[a]
    BY ONLY <1>1, <1>4, <2>1, TmpNew
  <2> QED
    BY <1>4, <1>17, <2>2
<1>6. p.held \subseteq Blocks /\ T \subseteq p.held /\ T2 \subseteq T /\ get_entry(p, k) = NIL
  <2>1. MapOK(p, own, ent, es, ns, rw) /\ T \subseteq p.held
    BY DEF Sound
  <2>2. get_entry(p, k) = ent[k]
    BY <2>1, GetEntry
  <2>3. p.held \subseteq Blocks
    BY <2>1 DEF MapOK, PoolOK, Carved
  <2> QED
    BY <2>1, <2>2, <2>3 DEF Retag
<1>7. q = add_entry(p2, k, e, key, val)
  BY <1>2, <1>4, <1>6 DEF touchdb_map_put2
<1>8. PICK own2 : own2 = EntryTags(ownV, e, key, k)
  OBVIOUS
<1>9. /\ own2[e] = <<"entry", k, NIL>> /\ own2[key] = <<"key", k, NIL>>
      /\ \A b \in p.held : own2[b] = ownV[b]
  BY <1>3, <1>5, <1>6, <1>8 DEF EntryTags
<1>10. Retag(p2, own3, own2, k, T3, T2)
  <2>1. T2 \subseteq T3
    BY <1>2, <1>4, <1>6
  <2>2. ASSUME NEW b \in p2.held
        PROVE  IF b \in T3 \ T2 THEN own2[b][2] = k ELSE own2[b] = own3[b]
    <3>1. CASE b = e \/ b = key
      BY <1>2, <1>3, <1>4, <1>5, <1>6, <1>9, <3>1
    <3>2. CASE b \in p.held
      <4>1. own3[b] = own[b]
        BY <1>2, <1>3, <1>4, <1>5, <1>6, <1>17, <3>2 DEF Tag
      <4>2. b \in T3 \ T2 <=> b \in T \ T2
        BY <1>2, <1>3, <1>4, <1>5, <3>2
      <4> QED
        BY <1>9, <3>2, <4>1, <4>2 DEF Retag
    <3> QED
      BY <1>3, <1>5, <3>1, <3>2
  <2> QED
    BY <2>1, <2>2 DEF Retag
<1>11. e \in T3 /\ e[1] = "entry" /\ key \in p2.held
  BY <1>2, <1>3, <1>4, <1>5
<1>12. PICK i, l : i = index_for(k) /\ l = es[i]
  OBVIOUS
<1>13. IsLinked(p2, q, ent, l, i, k, e, key, val)
  <2>1. Sound(p2, own3, ent, es, ns, pop, rw, T3)
    BY <1>5
  <2> QED
    BY <1>7, <1>11, <1>12, <2>1, AddEntryFacts
<1>14. /\ p2.held = q.held /\ p.held \subseteq q.held
       /\ \A b \in p.held : q.mem[b] = p.mem[b] \/ (b[1] = "entry" /\ SameFields(p.mem[b], q.mem[b]))
       /\ \A b \in p.held : b[1] # "entry" => q.mem[b] = p.mem[b]
  <2>1. \A b \in p.held : b \in p2.held /\ b # e /\ p2.mem[b] = p.mem[b]
    BY <1>3, <1>5
  <2> QED
    BY <1>3, <1>5, <1>13, <2>1 DEF IsLinked
<1>15. Keeps(p, q, ownV, own2, k)
  BY <1>9, <1>14 DEF Keeps
<1>16. ValueOK(q, own2, val, s, k, kept) /\ SameVal(p, q, val, s)
  BY <1>15, ValueStays
<1>18. AllBound(q, e, key, val, s, T3, T2)
  BY <1>2, <1>4, <1>16 DEF AllIn, AllBound, SameVal
<1>19. Has(p2, own2, key, "text", <<"key", k, NIL>>) /\ p2.mem[key] = k
  BY <1>5, <1>9, <1>11 DEF Has
<1>20. PICK ent2, es2, ns2 :
         /\ Sound(q, own2, ent2, es2, ns2, pop, rw, T2)
         /\ OthersRead(p2, ent, ns, q, ent2, ns2, k)
         /\ ent2[k] = e /\ ns2[k] = s /\ q.mem[e].val = val
  <2>1. /\ Sound(p2, own3, ent, es, ns, pop, rw, T3)
        /\ rw \in BOOLEAN /\ k \in Keys /\ ent[k] = NIL /\ kept = TRUE
    BY <1>5
  <2>2. NewEntry(p2, own2, e, key, k)
    BY <1>9, <1>19 DEF NewEntry
  <2>3. Bound(p2, q, ent, ns, own2, pop, rw, T2, k, e, val, s)
    BY ONLY <1>7, <1>10, <1>11, <1>16, <1>18, <2>1, <2>2, BindNew
  <2> QED
    BY <2>3 DEF Bound
<1>21. OthersRead(p, ent, ns, q, ent2, ns2, k)
  <2>1. SameVals(p, p2, ent, ns, rw)
    BY <1>3, <1>5, SameValsTrans
  <2> QED
    BY <1>20, <2>1, ReadBefore
<1>22. IsBound(p, q, ent2, ns2, k, val, s)
  <2>1. e # NIL
    BY <1>3 DEF NIL
  <2> QED
    BY <1>14, <1>16, <1>20, <2>1 DEF IsBound, BlocksStay, SameVal
<1> QED
  BY <1>20, <1>21, <1>22 DEF BoundTo

(* k reads the text t, from a block of class c. *)
ReadsText(q, ent2, k, c, t) ==
  LET e == ent2[k]
      a == q.mem[e].val.addr
  IN
  /\ e # NIL /\ q.mem[e].val = Val(STR, a) /\ a[1] = c
  /\ IF c = "pair" THEN q.mem[a].addr[1] = "text" /\ q.mem[q.mem[a].addr] = t
                   ELSE q.mem[a] = t

(* The state q is sound, and k reads the text t. *)
PutDone(p, q, ent, ns, pop, rw, T2, k, c, t) ==
  \E own2, ent2, es2, ns2 :
    /\ Sound(q, own2, ent2, es2, ns2, pop, rw, T2)
    /\ OthersRead(p, ent, ns, q, ent2, ns2, k)
    /\ ReadsText(q, ent2, k, c, t)

(* A block that belongs to nothing is freed. *)
LEMMA FreeLast ==
  ASSUME NEW p, NEW q, NEW ent, NEW ns, NEW pop, NEW rw, NEW T, NEW k, NEW c, NEW t,
         PutDone(p, q, ent, ns, pop, rw, T, k, c, t),
         NEW v \in T, NEW r, r = Free(q, v), NEW T2, T2 = T \ {v}
  PROVE  PutDone(p, r, ent, ns, pop, rw, T2, k, c, t)
<1>1. PICK own2, ent2, es2, ns2 :
        /\ Sound(q, own2, ent2, es2, ns2, pop, rw, T)
        /\ OthersRead(p, ent, ns, q, ent2, ns2, k)
        /\ ReadsText(q, ent2, k, c, t)
  BY DEF PutDone
<1>2. /\ Sound(r, own2, ent2, es2, ns2, pop, rw, T \ {v})
      /\ SameVals(q, r, ent2, ns2, rw)
      /\ r.mem = q.mem /\ r.held = q.held \ {v}
  <2>1. Sound(q, own2, ent2, es2, ns2, pop, rw, T)
    BY <1>1
  <2>2. v \in T /\ r = Free(q, v)
    OBVIOUS
  <2> QED
    BY ONLY <2>1, <2>2, TmpFree
<1>3. OthersRead(p, ent, ns, r, ent2, ns2, k)
  <2>1. OthersRead(p, ent, ns, q, ent2, ns2, k) /\ SameVals(q, r, ent2, ns2, rw)
    BY <1>1, <1>2, SMTT(30)
  <2> QED
    BY ONLY <2>1, ReadAfter
<1>4. ReadsText(r, ent2, k, c, t)
  BY <1>1, <1>2 DEF ReadsText
<1>5. Sound(r, own2, ent2, es2, ns2, pop, rw, T2)
  BY <1>2
<1> QED
  BY ONLY <1>3, <1>4, <1>5 DEF PutDone

StrTags(own, v, s, d, k) ==
  [b \in Blocks |-> IF b = s THEN <<"val", k, NIL>> ELSE IF b = d THEN <<"len", k, s>> ELSE own[b]]

(* The temporary blocks are those of a string value. *)
StrBlocks(p, T, v, s, d, t) ==
  T = {v, s, d} /\ IsStr(p, v, s, d, t)

(* The string value goes to a new entry. *)
LEMMA PutStrNew ==
  ASSUME NEW p, NEW own, NEW ent, NEW es, NEW ns, NEW pop, NEW rw \in BOOLEAN, NEW T,
         Sound(p, own, ent, es, ns, pop, rw, T),
         NEW v, NEW s, NEW d, NEW t, StrBlocks(p, T, v, s, d, t),
         NEW k \in Keys, ent[k] = NIL, NEW val, val = Val(STR, s),
         NEW q, q = touchdb_map_put2(p, k, val), NEW T2, T2 = {v}
  PROVE  PutDone(p, q, ent, ns, pop, rw, T2, k, "pair", t)
<1>1. /\ T = {b \in p.held : own[b] = TMP} /\ p.held \subseteq Blocks
      /\ T = {v, s, d} /\ v # s /\ v[1] = "pair" /\ s[1] = "pair" /\ d[1] = "text"
      /\ p.mem[s].addr = d /\ p.mem[d] = t
  BY DEF Sound, MapOK, PoolOK, Carved, StrBlocks, IsStr
<1>2. v # d /\ s # d /\ T \subseteq p.held
  BY <1>1
<1>3. PICK ownV : ownV = StrTags(own, v, s, d, k)
  OBVIOUS
<1>4. /\ ownV[s] = <<"val", k, NIL>> /\ ownV[d] = <<"len", k, s>>
      /\ \A b \in p.held \ {s, d} : ownV[b] = own[b]
  BY <1>1, <1>2, <1>3 DEF StrTags
<1>5. Retag(p, own, ownV, k, T, T2)
  <2>1. T2 \subseteq T /\ T \ T2 = {s, d}
    BY <1>1, <1>2
  <2>2. ownV[s][2] = k /\ ownV[d][2] = k
    BY ONLY <1>4
  <2> QED
    BY <1>4, <2>1, <2>2 DEF Retag
<1>6. PICK kept : kept = TRUE
  OBVIOUS
<1>7. PICK none : none = <<>>
  OBVIOUS
<1>8. val.type = STR /\ val.addr = s /\ val.type # CHAIN
  BY DEF Val, STR, CHAIN
<1>9. ValueOK(p, ownV, val, none, k, kept)
  <2>1. Has(p, ownV, s, "pair", <<"val", k, NIL>>) /\ Has(p, ownV, d, "text", <<"len", k, s>>)
    BY <1>1, <1>2, <1>4 DEF Has
  <2>2. TextOK(p, ownV, s, k)
    BY <1>1, <2>1 DEF TextOK
  <2> QED
    BY <1>1, <1>8, <2>1, <2>2 DEF ValueOK
<1>10. AllIn(p, val, none, T, T2)
  BY <1>1, <1>8 DEF AllIn, InValue
<1>11. BoundTo(p, q, ent, ns, pop, rw, T2, k, val, none)
  <2>1. /\ Sound(p, own, ent, es, ns, pop, rw, T) /\ k \in Keys /\ ent[k] = NIL
        /\ q = touchdb_map_put2(p, k, val) /\ rw \in BOOLEAN
    OBVIOUS
  <2> QED
    BY ONLY <1>5, <1>6, <1>9, <1>10, <2>1, PutNew
<1>12. PICK own2, ent2, es2, ns2 :
         /\ Sound(q, own2, ent2, es2, ns2, pop, rw, T2)
         /\ OthersRead(p, ent, ns, q, ent2, ns2, k)
         /\ IsBound(p, q, ent2, ns2, k, val, none)
  BY <1>11 DEF BoundTo
<1>13. ReadsText(q, ent2, k, "pair", t)
  <2>1. q.mem[s] = p.mem[s] /\ q.mem[d] = p.mem[d]
    BY <1>1, <1>2, <1>12 DEF IsBound, BlocksStay
  <2>2. ent2[k] # NIL /\ q.mem[ent2[k]].val = Val(STR, s)
    BY <1>12 DEF IsBound
  <2> QED
    BY <1>1, <1>8, <2>1, <2>2 DEF ReadsText
<1> QED
  BY <1>12, <1>13 DEF PutDone

(* The string value takes the place of another one: the string is freed    *)
(* with its text, and read all the same.                                   *)
LEMMA PutStrOver ==
  ASSUME NEW p, NEW own, NEW ent, NEW es, NEW ns, NEW pop, NEW rw \in BOOLEAN, NEW T,
         Sound(p, own, ent, es, ns, pop, rw, T),
         NEW v, NEW s, NEW d, NEW t, StrBlocks(p, T, v, s, d, t),
         NEW k \in Keys, k \in RewriteKeys, ent[k] # NIL, NEW val, val = Val(STR, s),
         NEW q, q = touchdb_map_put2(p, k, val), NEW T2, T2 = {v}, NEW rw2, rw2 = TRUE
  PROVE  PutDone(p, q, ent, ns, pop, rw2, T2, k, "pair", t)
<1>1. /\ T = {b \in p.held : own[b] = TMP}
      /\ T = {v, s, d} /\ v # s /\ v[1] = "pair" /\ s[1] = "pair" /\ d[1] = "text"
      /\ p.mem[s].addr = d /\ p.mem[d] = t
  BY DEF Sound, StrBlocks, IsStr
<1>2. v # d /\ s # d /\ T \subseteq p.held
  BY <1>1
<1>3. PICK e : e = ent[k]
  OBVIOUS
<1>4. get_entry(p, k) = e /\ e # NIL /\ e[1] = "entry"
  <2>1. MapOK(p, own, ent, es, ns, rw)
    BY DEF Sound
  <2>2. EntryOK(p, own, ent[k], k)
    BY OwnedApart
  <2> QED
    BY <1>3, <2>1, <2>2, GetEntry DEF EntryOK, Has
<1>5. PICK q0 : q0 = [p EXCEPT !.mem[e].val = val]
  OBVIOUS
<1>6. IsAssigned(p, q0, e, val)
  <2>1. /\ Sound(p, own, ent, es, ns, pop, rw, T) /\ k \in Keys /\ e = ent[k] /\ e # NIL
    BY <1>3, <1>4
  <2> QED
    BY ONLY <1>5, <2>1, AssignFacts
<1>7. val.type = STR /\ val.addr = s /\ val.type # CHAIN
  BY DEF Val, STR, CHAIN
<1>8. PICK none : none = <<>>
  OBVIOUS
<1>9. PICK lost : lost = FALSE
  OBVIOUS
<1>10. ValueOK(q0, own, val, none, k, lost)
  BY <1>1, <1>7, <1>9 DEF ValueOK
<1>11. Retag(p, own, own, k, T, T)
  BY DEF Retag
<1>12. Assigned(p, q0, ent, es, ns, own, pop, rw2, T, k, none)
  <2>1. /\ Sound(p, own, ent, es, ns, pop, rw, T) /\ k \in Keys /\ e = ent[k] /\ e # NIL
        /\ k \in RewriteKeys /\ rw \in BOOLEAN /\ rw2 = TRUE
    BY <1>3, <1>4
  <2> QED
    BY ONLY <1>5, <1>9, <1>10, <1>11, <2>1, Assign
<1>13. q0.mem[e].val = val /\ q0.mem[s] = p.mem[s] /\ q0.mem[d] = p.mem[d]
  BY <1>1, <1>2, <1>4, <1>6 DEF IsAssigned
<1>14. PutDone(p, q0, ent, ns, pop, rw2, T, k, "pair", t)
  <2>1. PICK ns2 : /\ Sound(q0, own, ent, es, ns2, pop, rw2, T)
                   /\ OthersRead(p, ent, ns, q0, ent, ns2, k)
    BY <1>12 DEF Assigned
  <2>2. ReadsText(q0, ent, k, "pair", t)
    BY <1>1, <1>3, <1>4, <1>7, <1>13 DEF ReadsText
  <2> QED
    BY <2>1, <2>2 DEF PutDone
<1>15. PICK q1 : q1 = Free(q0, d)
  OBVIOUS
<1>16. q = Free(q1, s)
  <2>1. q = touchdb_val_destroy(q0, val)
    BY <1>4, <1>5 DEF touchdb_map_put2, map_replaced
  <2>2. q0.mem[val.addr].addr = d
    BY <1>1, <1>7, <1>13
  <2> QED
    BY <1>7, <1>15, <2>1, <2>2 DEF touchdb_val_destroy, touchdb_str_destory
<1>17. PICK T1 : T1 = T \ {d}
  OBVIOUS
<1>18. PutDone(p, q1, ent, ns, pop, rw2, T1, k, "pair", t)
  <2>1. d \in T
    BY <1>1
  <2> QED
    BY ONLY <1>14, <1>15, <1>17, <2>1, FreeLast
<1> QED
  <2>1. s \in T1 /\ T2 = T1 \ {s}
    BY <1>1, <1>2, <1>17
  <2> QED
    BY ONLY <1>16, <1>18, <2>1, FreeLast

(* Whether a value was ever replaced, after a put of k. *)
Rewrote(rw, rw2, e, k) ==
  /\ rw \in BOOLEAN
  /\ e # NIL => k \in RewriteKeys /\ rw2 = TRUE
  /\ e = NIL => rw2 = rw

(* touchdb_put_str leaves the state sound, and k with its text. *)
LEMMA PutStr ==
  ASSUME NEW p, NEW own, NEW ent, NEW es, NEW ns, NEW pop, NEW rw, NEW T, T = {},
         Sound(p, own, ent, es, ns, pop, rw, T),
         NEW k \in Keys, NEW rw2, Rewrote(rw, rw2, ent[k], k), NEW t,
         NEW v, v = Blk(p, "pair"), NEW p1, p1 = new_str_val(p, t),
         NEW q, q = Free(touchdb_map_put2(p1, k, p1.mem[v]), v)
  PROVE  PutDone(p, q, ent, ns, pop, rw2, T, k, "pair", t)
<1>1. Strung(p, p1, ent, es, ns, pop, rw, T, v, t)
  <2>1. Sound(p, own, ent, es, ns, pop, rw, T) /\ v = Blk(p, "pair") /\ p1 = new_str_val(p, t)
    OBVIOUS
  <2> QED
    BY ONLY <2>1, StrMade
<1>2. PICK own1, s, d : /\ Sound(p1, own1, ent, es, ns, pop, rw, T \cup {v, s, d})
                        /\ SameVals(p, p1, ent, ns, rw)
                        /\ IsStr(p1, v, s, d, t)
  BY <1>1 DEF Strung
<1>3. PICK T1 : T1 = {v, s, d}
  OBVIOUS
<1>4. Sound(p1, own1, ent, es, ns, pop, rw, T1) /\ StrBlocks(p1, T1, v, s, d, t)
  <2>1. T \cup {v, s, d} = T1
    BY <1>3
  <2> QED
    BY <1>2, <1>3, <2>1 DEF StrBlocks
<1>5. PICK val : val = Val(STR, s)
  OBVIOUS
<1>6. p1.mem[v] = val
  BY <1>2, <1>5 DEF IsStr
<1>7. PICK q1 : q1 = touchdb_map_put2(p1, k, val)
  OBVIOUS
<1>8. q = Free(q1, v)
  BY <1>6, <1>7
<1>9. PICK T2 : T2 = {v}
  OBVIOUS
<1>10. PutDone(p1, q1, ent, ns, pop, rw2, T2, k, "pair", t)
  <2>1. CASE ent[k] = NIL
    <3>1. rw \in BOOLEAN /\ rw2 = rw
      BY <2>1 DEF Rewrote
    <3>2. PutDone(p1, q1, ent, ns, pop, rw, T2, k, "pair", t)
      <4>1. k \in Keys /\ rw \in BOOLEAN
        BY <3>1
      <4> QED
        BY ONLY <1>4, <1>5, <1>7, <1>9, <2>1, <4>1, PutStrNew
    <3> QED
      BY <3>1, <3>2
  <2>2. CASE ent[k] # NIL
    <3>1. rw \in BOOLEAN /\ rw2 = TRUE /\ k \in RewriteKeys /\ k \in Keys
      BY <2>2 DEF Rewrote
    <3> QED
      BY ONLY <1>4, <1>5, <1>7, <1>9, <2>2, <3>1, PutStrOver
  <2> QED
    BY <2>1, <2>2
<1>11. PutDone(p1, q, ent, ns, pop, rw2, T, k, "pair", t)
  <2>1. v \in T2 /\ T = T2 \ {v}
    BY <1>9
  <2> QED
    BY ONLY <1>8, <1>10, <2>1, FreeLast
<1>12. PICK own2, ent2, es2, ns2 :
        /\ Sound(q, own2, ent2, es2, ns2, pop, rw2, T)
        /\ OthersRead(p1, ent, ns, q, ent2, ns2, k)
        /\ ReadsText(q, ent2, k, "pair", t)
  BY <1>11 DEF PutDone
<1>13. OthersRead(p, ent, ns, q, ent2, ns2, k)
  <2>1. SameVals(p, p1, ent, ns, rw)
    BY <1>2
  <2>2. OthersRead(p1, ent, ns, q, ent2, ns2, k)
    BY <1>12
  <2> QED
    BY ONLY <2>1, <2>2, ReadBefore
<1> QED
  BY <1>12, <1>13 DEF PutDone

(* The owners after a put of a key without an entry. *)
RawTags(own, e, key, d, k) ==
  [b \in Blocks |-> IF b = e THEN <<"entry", k, NIL>>
                    ELSE IF b = key THEN <<"key", k, NIL>>
                    ELSE IF b = d THEN <<"val", k, NIL>> ELSE own[b]]

(* touchdb_put of a key without an entry: a new entry is linked, with a    *)
(* copy of the key and of the text.                                        *)
LEMMA PutRawNew ==
  ASSUME NEW p, NEW own, NEW ent, NEW es, NEW ns, NEW pop, NEW rw \in BOOLEAN, NEW T, T = {},
         Sound(p, own, ent, es, ns, pop, rw, T),
         NEW k \in Keys, ent[k] = NIL, NEW t,
         NEW q, q = touchdb_map_put(p, k, t)
  PROVE  PutDone(p, q, ent, ns, pop, rw, T, k, "text", t)
<1>1. "entry" \in Classes /\ "text" \in Classes
  BY DEF Classes
<1>2. PICK e, p1, T1 : e = Blk(p, "entry") /\ p1 = New(p, "entry", NIL) /\ T1 = T \cup {e}
  OBVIOUS
<1>3. PICK own1 : own1 = Tag(own, e, TMP)
  OBVIOUS
<1>4. /\ Sound(p1, own1, ent, es, ns, pop, rw, T1)
      /\ SameVals(p, p1, ent, ns, rw)
      /\ e \in Blocks \ p.held /\ e[1] = "entry"
      /\ p1.held = p.held \cup {e}
      /\ \A a \in p.held : p1.mem[a] = p.mem[a]
  <2>1. Sound(p, own, ent, es, ns, pop, rw, T)
    OBVIOUS
  <2>2. /\ Sound(p1, Tag(own, e, TMP), ent, es, ns, pop, rw, T \cup {e})
        /\ SameVals(p, p1, ent, ns, rw)
        /\ e \in Blocks \ p.held /\ e[1] = "entry" /\ e \notin T
        /\ p1.held = p.held \cup {e}
        /\ p1.mem[e] = NIL
        /\ \A a \in p.held : p1.mem[a] = p.mem[a]
    BY ONLY <1>1, <1>2, <2>1, TmpNew
  <2> QED
    BY <1>2, <1>3, <2>2
<1>5. PICK key, p2, T2 : key = Blk(p1, "text") /\ p2 = New(p1, "text", k) /\ T2 = T1 \cup {key}
  OBVIOUS
<1>6. PICK own2 : own2 = Tag(own1, key, TMP)
  OBVIOUS
<1>7. /\ Sound(p2, own2, ent, es, ns, pop, rw, T2)
      /\ SameVals(p1, p2, ent, ns, rw)
      /\ key \in Blocks \ p1.held /\ key[1] = "text" /\ p2.mem[key] = k
      /\ p2.held = p1.held \cup {key}
      /\ \A a \in p1.held : p2.mem[a] = p1.mem[a]
  <2>1. Sound(p1, own1, ent, es, ns, pop, rw, T1)
    BY <1>4
  <2>2. /\ Sound(p2, Tag(own1, key, TMP), ent, es, ns, pop, rw, T1 \cup {key})
        /\ SameVals(p1, p2, ent, ns, rw)
        /\ key \in Blocks \ p1.held /\ key[1] = "text" /\ key \notin T1
        /\ p2.held = p1.held \cup {key}
        /\ p2.mem[key] = k
        /\ \A a \in p1.held : p2.mem[a] = p1.mem[a]
    BY ONLY <1>1, <1>5, <2>1, TmpNew
  <2> QED
    BY <1>5, <1>6, <2>2
<1>8. PICK d, p3, T3 : d = Blk(p2, "text") /\ p3 = New(p2, "text", t) /\ T3 = T2 \cup {d}
  OBVIOUS
<1>9. PICK own3 : own3 = Tag(own2, d, TMP)
  OBVIOUS
<1>10. /\ Sound(p3, own3, ent, es, ns, pop, rw, T3)
       /\ SameVals(p2, p3, ent, ns, rw)
       /\ d \in Blocks \ p2.held /\ d[1] = "text" /\ p3.mem[d] = t
       /\ p3.held = p2.held \cup {d}
       /\ \A a \in p2.held : p3.mem[a] = p2.mem[a]
  <2>1. Sound(p2, own2, ent, es, ns, pop, rw, T2)
    BY <1>7
  <2>2. /\ Sound(p3, Tag(own2, d, TMP), ent, es, ns, pop, rw, T2 \cup {d})
        /\ SameVals(p2, p3, ent, ns, rw)
        /\ d \in Blocks \ p2.held /\ d[1] = "text" /\ d \notin T2
        /\ p3.held = p2.held \cup {d}
        /\ p3.mem[d] = t
        /\ \A a \in p2.held : p3.mem[a] = p2.mem[a]
    BY ONLY <1>1, <1>8, <2>1, TmpNew
  <2> QED
    BY <1>8, <1>9, <2>2
<1>11. PICK val : val = Val(STR, d)
  OBVIOUS
<1>12. q = add_entry(p3, k, e, key, val)
  <2>1. get_entry(p, k) = NIL
    <3>1. MapOK(p, own, ent, es, ns, rw)
      BY DEF Sound
    <3> QED
      BY <3>1, GetEntry
  <2> QED
    BY <1>2, <1>5, <1>8, <1>11, <2>1 DEF touchdb_map_put
<1>13. PICK own4 : own4 = RawTags(own, e, key, d, k)
  OBVIOUS
<1>14. p.held \subseteq Blocks /\ e # key /\ e # d /\ key # d /\ {e, key, d} \cap p.held = {}
       /\ T3 = {e, key, d} /\ p3.held = p.held \cup {e, key, d} /\ p3.mem[key] = k
  <2>1. p.held \subseteq Blocks
    BY DEF Sound, MapOK, PoolOK, Carved
  <2> QED
    BY <1>2, <1>4, <1>5, <1>7, <1>8, <1>10, <2>1
<1>15. /\ own4[e] = <<"entry", k, NIL>> /\ own4[key] = <<"key", k, NIL>> /\ own4[d] = <<"val", k, NIL>>
       /\ \A b \in p.held : own4[b] = own[b] /\ own3[b] = own[b]
  <2>1. /\ own4[e] = <<"entry", k, NIL>> /\ own4[key] = <<"key", k, NIL>> /\ own4[d] = <<"val", k, NIL>>
    BY <1>4, <1>7, <1>10, <1>13, <1>14 DEF RawTags
  <2>2. \A b \in p.held : own4[b] = own[b]
    BY <1>13, <1>14 DEF RawTags
  <2>3. \A b \in p.held : own3[b] = own[b]
    BY <1>3, <1>6, <1>9, <1>14 DEF Tag
  <2> QED
    BY <2>1, <2>2, <2>3
<1>16. Retag(p3, own3, own4, k, T3, T)
  <2>1. own4[e][2] = k /\ own4[key][2] = k /\ own4[d][2] = k
    BY ONLY <1>15
  <2> QED
    BY <1>14, <1>15, <2>1 DEF Retag
<1>17. PICK i, l : i = index_for(k) /\ l = es[i]
  OBVIOUS
<1>18. e \in T3 /\ e[1] = "entry" /\ Sound(p3, own3, ent, es, ns, pop, rw, T3) /\ k \in Keys
       /\ rw \in BOOLEAN /\ ent[k] = NIL
  BY <1>4, <1>10, <1>14
<1>19. IsLinked(p3, q, ent, l, i, k, e, key, val)
  BY ONLY <1>12, <1>17, <1>18, AddEntryFacts
<1>20. q.held = p3.held /\ q.mem[d] = t
  BY <1>10, <1>14, <1>19 DEF IsLinked
<1>21. PICK none, kept : none = <<>> /\ kept = TRUE
  OBVIOUS
<1>22. val.type = STR /\ val.addr = d /\ val.type # CHAIN
  BY <1>11 DEF Val, STR, CHAIN
<1>23. ValueOK(q, own4, val, none, k, kept)
  <2>1. Has(q, own4, d, "text", <<"val", k, NIL>>)
    BY <1>10, <1>14, <1>15, <1>20 DEF Has
  <2> QED
    BY <1>10, <1>11, <1>22, <2>1 DEF ValueOK
<1>24. AllBound(q, e, key, val, none, T3, T)
  BY <1>14, <1>22 DEF AllBound, InValue
<1>25. NewEntry(p3, own4, e, key, k)
  BY <1>7, <1>14, <1>15 DEF NewEntry, Has
<1>26. Bound(p3, q, ent, ns, own4, pop, rw, T, k, e, val, none)
  <2>1. kept = TRUE
    BY <1>21
  <2> QED
    BY ONLY <1>12, <1>16, <1>18, <1>23, <1>24, <1>25, <2>1, BindNew
<1>27. PICK ent2, es2, ns2 :
         /\ Sound(q, own4, ent2, es2, ns2, pop, rw, T)
         /\ OthersRead(p3, ent, ns, q, ent2, ns2, k)
         /\ ent2[k] = e /\ q.mem[e].val = val
  BY <1>26 DEF Bound
<1>28. OthersRead(p, ent, ns, q, ent2, ns2, k)
  <2>1. SameVals(p, p3, ent, ns, rw)
    BY <1>4, <1>7, <1>10, SameValsTrans
  <2>2. OthersRead(p3, ent, ns, q, ent2, ns2, k)
    BY <1>27
  <2> QED
    BY ONLY <2>1, <2>2, ReadBefore
<1>29. ReadsText(q, ent2, k, "text", t)
  <2>1. e # NIL
    BY <1>4 DEF NIL
  <2> QED
    BY <1>10, <1>11, <1>20, <1>22, <1>27, <2>1 DEF ReadsText
<1> QED
  BY <1>27, <1>28, <1>29 DEF PutDone

(* touchdb_put of a key that has an entry: the entry's text is replaced,   *)
(* and the block of the new text is freed, and read all the same.          *)
LEMMA PutRawOver ==
  ASSUME NEW p, NEW own, NEW ent, NEW es, NEW ns, NEW pop, NEW rw \in BOOLEAN, NEW T, T = {},
         Sound(p, own, ent, es, ns, pop, rw, T),
         NEW k \in Keys, k \in RewriteKeys, ent[k] # NIL, NEW t,
         NEW q, q = touchdb_map_put(p, k, t), NEW rw2, rw2 = TRUE
  PROVE  PutDone(p, q, ent, ns, pop, rw2, T, k, "text", t)
<1>1. "text" \in Classes
  BY DEF Classes
<1>2. PICK e : e = ent[k]
  OBVIOUS
<1>3. get_entry(p, k) = e /\ e # NIL /\ e[1] = "entry" /\ e \in p.held
  <2>1. MapOK(p, own, ent, es, ns, rw)
    BY DEF Sound
  <2>2. EntryOK(p, own, ent[k], k)
    BY OwnedApart
  <2> QED
    BY <1>2, <2>1, <2>2, GetEntry DEF EntryOK, Has
<1>4. PICK d, p1, T1 : d = Blk(p, "text") /\ p1 = New(p, "text", t) /\ T1 = T \cup {d}
  OBVIOUS
<1>5. PICK own1 : own1 = Tag(own, d, TMP)
  OBVIOUS
<1>6. /\ Sound(p1, own1, ent, es, ns, pop, rw, T1)
      /\ SameVals(p, p1, ent, ns, rw)
      /\ d \in Blocks \ p.held /\ d[1] = "text" /\ p1.mem[d] = t
      /\ p1.held = p.held \cup {d}
      /\ \A a \in p.held : p1.mem[a] = p.mem[a]
  <2>1. Sound(p, own, ent, es, ns, pop, rw, T)
    OBVIOUS
  <2>2. /\ Sound(p1, Tag(own, d, TMP), ent, es, ns, pop, rw, T \cup {d})
        /\ SameVals(p, p1, ent, ns, rw)
        /\ d \in Blocks \ p.held /\ d[1] = "text" /\ d \notin T
        /\ p1.held = p.held \cup {d}
        /\ p1.mem[d] = t
        /\ \A a \in p.held : p1.mem[a] = p.mem[a]
    BY ONLY <1>1, <1>4, <2>1, TmpNew
  <2> QED
    BY <1>4, <1>5, <2>2
<1>7. PICK val : val = Val(STR, d)
  OBVIOUS
<1>8. PICK q0 : q0 = [p1 EXCEPT !.mem[e].val = val]
  OBVIOUS
<1>9. val.type = STR /\ val.addr = d /\ val.type # CHAIN
  BY <1>7 DEF Val, STR, CHAIN
<1>10. PICK none, lost : none = <<>> /\ lost = FALSE
  OBVIOUS
<1>11. ASSUME NEW own4 PROVE ValueOK(q0, own4, val, none, k, lost)
  BY <1>6, <1>7, <1>9, <1>10 DEF ValueOK
<1>12. /\ Sound(p1, own1, ent, es, ns, pop, rw, T1) /\ k \in Keys /\ e = ent[k] /\ e # NIL
       /\ k \in RewriteKeys /\ rw \in BOOLEAN /\ rw2 = TRUE
  BY <1>2, <1>3, <1>6
<1>13. IsAssigned(p1, q0, e, val)
  BY ONLY <1>8, <1>12, AssignFacts
<1>14. ReadsText(q0, ent, k, "text", t)
  <2>1. d # e /\ d \in p1.held
    BY <1>3, <1>6
  <2>2. q0.mem[d] = t /\ q0.mem[e].val = val
    BY <1>6, <1>13, <2>1 DEF IsAssigned
  <2> QED
    BY <1>6, <1>7, <1>9, <1>12, <2>2 DEF ReadsText
<1>15. ASSUME NEW own4, NEW T2, Assigned(p1, q0, ent, es, ns, own4, pop, rw2, T2, k, none)
       PROVE  PutDone(p, q0, ent, ns, pop, rw2, T2, k, "text", t)
  <2>1. PICK ns2 : /\ Sound(q0, own4, ent, es, ns2, pop, rw2, T2)
                   /\ OthersRead(p1, ent, ns, q0, ent, ns2, k)
    BY <1>15 DEF Assigned
  <2>2. SameVals(p, p1, ent, ns, rw)
    BY <1>6
  <2>3. OthersRead(p, ent, ns, q0, ent, ns2, k)
    BY ONLY <2>1, <2>2, ReadBefore
  <2> QED
    BY <1>14, <2>1, <2>3 DEF PutDone
<1>16. p1.mem[e].val = p.mem[e].val
  BY <1>3, <1>6
<1>17. q = text_replaced(p1, e, d)
  BY <1>3, <1>4 DEF touchdb_map_put
<1>18. CASE p.mem[e].val.type = STR
  <2>1. q = Free(q0, d)
    BY <1>7, <1>8, <1>16, <1>17, <1>18 DEF text_replaced
  <2>2. Retag(p1, own1, own1, k, T1, T1) /\ ValueOK(q0, own1, val, none, k, lost)
    BY <1>11 DEF Retag
  <2>3. lost = FALSE
    BY <1>10
  <2>4. Assigned(p1, q0, ent, es, ns, own1, pop, rw2, T1, k, none)
    BY ONLY <1>8, <1>12, <2>2, <2>3, Assign
  <2>5. PutDone(p, q0, ent, ns, pop, rw2, T1, k, "text", t)
    BY <1>15, <2>4
  <2>6. d \in T1 /\ T = T1 \ {d}
    BY <1>4
  <2> QED
    BY ONLY <2>1, <2>5, <2>6, FreeLast
<1>19. CASE p.mem[e].val.type # STR
  <2>1. q = q0
    BY <1>7, <1>8, <1>16, <1>17, <1>19 DEF text_replaced
  <2>2. PICK own4 : own4 = [b \in Blocks |-> IF b = d THEN <<"val", k, NIL>> ELSE own1[b]]
    OBVIOUS
  <2>3. Retag(p1, own1, own4, k, T1, T)
    <3>1. p1.held \subseteq Blocks
      BY <1>6 DEF Sound, MapOK, PoolOK, Carved
    <3>2. own4[d] = <<"val", k, NIL>> /\ \A b \in p1.held \ {d} : own4[b] = own1[b]
      BY <1>6, <2>2, <3>1
    <3>3. own4[d][2] = k
      BY ONLY <3>2
    <3> QED
      BY <1>4, <3>2, <3>3 DEF Retag
  <2>4. ValueOK(q0, own4, val, none, k, lost)
    BY <1>11
  <2>5. lost = FALSE
    BY <1>10
  <2>6. Assigned(p1, q0, ent, es, ns, own4, pop, rw2, T, k, none)
    BY ONLY <1>8, <1>12, <2>3, <2>4, <2>5, Assign
  <2>7. PutDone(p, q0, ent, ns, pop, rw2, T, k, "text", t)
    BY <1>15, <2>6
  <2> QED
    BY <2>1, <2>7
<1> QED
  BY <1>18, <1>19

(* touchdb_put leaves the state sound, and k with its text. *)
LEMMA PutRaw ==
  ASSUME NEW p, NEW own, NEW ent, NEW es, NEW ns, NEW pop, NEW rw, NEW T, T = {},
         Sound(p, own, ent, es, ns, pop, rw, T),
         NEW k \in Keys, NEW rw2, Rewrote(rw, rw2, ent[k], k), NEW t,
         NEW q, q = touchdb_map_put(p, k, t)
  PROVE  PutDone(p, q, ent, ns, pop, rw2, T, k, "text", t)
<1>1. CASE ent[k] = NIL
  <2>1. rw \in BOOLEAN /\ rw2 = rw
    BY <1>1 DEF Rewrote
  <2>2. Sound(p, own, ent, es, ns, pop, rw, T) /\ k \in Keys /\ T = {} /\ q = touchdb_map_put(p, k, t)
    OBVIOUS
  <2>3. PutDone(p, q, ent, ns, pop, rw, T, k, "text", t)
    BY ONLY <1>1, <2>1, <2>2, PutRawNew
  <2> QED
    BY <2>1, <2>3
<1>2. CASE ent[k] # NIL
  <2>1. rw \in BOOLEAN /\ rw2 = TRUE /\ k \in RewriteKeys
    BY <1>2 DEF Rewrote
  <2>2. Sound(p, own, ent, es, ns, pop, rw, T) /\ k \in Keys /\ T = {} /\ q = touchdb_map_put(p, k, t)
    OBVIOUS
  <2> QED
    BY ONLY <1>2, <2>1, <2>2, PutRawOver
<1> QED
  BY <1>1, <1>2

(* The state q is sound, and k reads the list texts. *)
ReadsList(q, ent2, ns2, k, texts) ==
  /\ ent2[k] # NIL /\ q.mem[ent2[k]].val.type = CHAIN
  /\ AbsVal(q, ent2[k], ns2[k]) = [kind |-> "list", texts |-> texts]

ListDone(p, q, ent, ns, pop, rw, T2, k, texts) ==
  \E own2, ent2, es2, ns2 :
    /\ Sound(q, own2, ent2, es2, ns2, pop, rw, T2)
    /\ OthersRead(p, ent, ns, q, ent2, ns2, k)
    /\ ReadsList(q, ent2, ns2, k, texts)

(* A temporary block that a call frees last changes nothing of what it did *)
(* to a list.                                                              *)
LEMMA FreeLastList ==
  ASSUME NEW p, NEW q, NEW ent, NEW ns, NEW pop, NEW rw, NEW T, NEW k \in Keys, NEW texts,
         ListDone(p, q, ent, ns, pop, rw, T, k, texts),
         NEW v \in T, NEW r, r = Free(q, v), NEW T2, T2 = T \ {v}
  PROVE  ListDone(p, r, ent, ns, pop, rw, T2, k, texts)
<1>1. PICK own2, ent2, es2, ns2 :
        /\ Sound(q, own2, ent2, es2, ns2, pop, rw, T)
        /\ OthersRead(p, ent, ns, q, ent2, ns2, k)
        /\ ReadsList(q, ent2, ns2, k, texts)
  BY DEF ListDone
<1>2. /\ Sound(r, own2, ent2, es2, ns2, pop, rw, T \ {v})
      /\ SameVals(q, r, ent2, ns2, rw)
      /\ r.mem = q.mem /\ r.held = q.held \ {v}
  <2>1. Sound(q, own2, ent2, es2, ns2, pop, rw, T)
    BY <1>1
  <2>2. v \in T /\ r = Free(q, v)
    OBVIOUS
  <2> QED
    BY ONLY <2>1, <2>2, TmpFree
<1>3. OthersRead(p, ent, ns, r, ent2, ns2, k)
  <2>1. OthersRead(p, ent, ns, q, ent2, ns2, k) /\ SameVals(q, r, ent2, ns2, rw)
    BY <1>1, <1>2
  <2> QED
    BY ONLY <2>1, ReadAfter
<1>4. ReadsList(r, ent2, ns2, k, texts)
  BY <1>1, <1>2 DEF ReadsList, SameVals
<1>5. Sound(r, own2, ent2, es2, ns2, pop, rw, T2)
  BY <1>2
<1> QED
  BY ONLY <1>3, <1>4, <1>5 DEF ListDone

(* What reads as a list is a chain. *)
LEMMA ListKind ==
  ASSUME NEW q, NEW e, e # NIL, NEW s, NEW texts, AbsVal(q, e, s) = [kind |-> "list", texts |-> texts]
  PROVE  q.mem[e].val.type = CHAIN
<1>1. PICK v : v = q.mem[e].val
  OBVIOUS
<1>2. AbsOf(q, v, s) = [kind |-> "list", texts |-> texts]
  BY <1>1 DEF AbsVal
<1>3. AbsOf(q, v, s).kind = "list"
  BY ONLY <1>2
<1>4. v.type # CHAIN => AbsOf(q, v, s).kind = "text"
  BY DEF AbsOf
<1> QED
  BY <1>1, <1>3, <1>4

NodeTags(own, n, s, d, k) ==
  [b \in Blocks |-> IF b = n THEN <<"node", k, NIL>>
                    ELSE IF b = s THEN <<"str", k, n>>
                    ELSE IF b = d THEN <<"len", k, s>> ELSE own[b]]

(* A push to a chain, the string being made. *)
LEMMA PushNode ==
  ASSUME NEW p, NEW own, NEW ent, NEW es, NEW ns, NEW pop, NEW rw \in BOOLEAN, NEW T,
         Sound(p, own, ent, es, ns, pop, rw, T),
         NEW v, NEW s, NEW d, NEW t, StrBlocks(p, T, v, s, d, t),
         NEW k \in Keys, NEW e, e = ent[k], e # NIL, NEW c, p.mem[e].val = Val(CHAIN, c),
         NEW val, val = Val(STR, s),
         NEW q, q = touchdb_chain_push_tail(p, c, val), NEW T2, T2 = {v},
         NEW texts, IsLonger(texts, TextsAt(p, ns[k]), t)
  PROVE  ListDone(p, q, ent, ns, pop, rw, T2, k, texts)
<1>1. "node" \in Classes
  BY DEF Classes
<1>2. /\ T = {b \in p.held : own[b] = TMP}
      /\ T = {v, s, d} /\ v # s /\ v[1] = "pair" /\ s[1] = "pair" /\ d[1] = "text"
      /\ p.mem[s].addr = d /\ p.mem[d] = t
  BY DEF Sound, StrBlocks, IsStr
<1>3. v # d /\ s # d /\ T \subseteq p.held
  BY <1>2
<1>4. PICK x : x = [prev |-> p.mem[c].tail, next |-> NIL, val |-> val]
  OBVIOUS
<1>5. PICK n, p1, T1 : n = Blk(p, "node") /\ p1 = New(p, "node", x) /\ T1 = T \cup {n}
  OBVIOUS
<1>6. PICK own1 : own1 = Tag(own, n, TMP)
  OBVIOUS
<1>7. /\ Sound(p1, own1, ent, es, ns, pop, rw, T1)
      /\ SameVals(p, p1, ent, ns, rw)
      /\ n \in Blocks \ p.held /\ n[1] = "node" /\ p1.mem[n] = x
      /\ p1.held = p.held \cup {n}
      /\ \A a \in p.held : p1.mem[a] = p.mem[a]
  <2>1. Sound(p, own, ent, es, ns, pop, rw, T)
    OBVIOUS
  <2>2. /\ Sound(p1, Tag(own, n, TMP), ent, es, ns, pop, rw, T \cup {n})
        /\ SameVals(p, p1, ent, ns, rw)
        /\ n \in Blocks \ p.held /\ n[1] = "node" /\ n \notin T
        /\ p1.held = p.held \cup {n}
        /\ p1.mem[n] = x
        /\ \A a \in p.held : p1.mem[a] = p.mem[a]
    BY ONLY <1>1, <1>5, <2>1, TmpNew
  <2> QED
    BY <1>5, <1>6, <2>2
<1>8. e \in p.held /\ c \in p.held
  <2>1. e \in p.held
    BY OwnedApart
  <2>2. KeyOK(p, own, e, ns[k], k, rw)
    BY DEF Sound, MapOK
  <2>3. ListOK(p, own, c, ns[k], k)
    BY <2>2 DEF KeyOK, ValueOK, Val
  <2> QED
    BY <2>1, <2>3 DEF ListOK, Has
<1>9. p1.mem[e].val = Val(CHAIN, c) /\ p1.mem[c] = p.mem[c]
  BY <1>7, <1>8, SMTT(30)
<1>10. q = Linked(p1, c, n)
  BY <1>4, <1>5, <1>9, Zenon DEF touchdb_chain_push_tail, Linked
<1>11. PICK own2 : own2 = NodeTags(own1, n, s, d, k)
  OBVIOUS
<1>12. p1.held \subseteq Blocks /\ n \notin T /\ n # s /\ n # d /\ n # v
  <2>1. p1.held \subseteq Blocks
    BY <1>7 DEF Sound, MapOK, PoolOK, Carved
  <2> QED
    BY <1>2, <1>3, <1>7, <2>1
<1>13. /\ own2[n] = <<"node", k, NIL>> /\ own2[s] = <<"str", k, n>> /\ own2[d] = <<"len", k, s>>
       /\ \A b \in p1.held \ {n, s, d} : own2[b] = own1[b]
  <2>1. n \in Blocks /\ s \in Blocks /\ d \in Blocks
    BY <1>2, <1>3, <1>7, <1>12
  <2>2. s # d
    BY <1>3
  <2> QED
    BY <1>11, <1>12, <2>1, <2>2 DEF NodeTags
<1>14. Retag(p1, own1, own2, k, T1, T2)
  <2>1. own2[n][2] = k /\ own2[s][2] = k /\ own2[d][2] = k
    BY ONLY <1>13
  <2>2. T1 \ T2 = {n, s, d} /\ T2 \subseteq T1
    BY <1>2, <1>3, <1>5, <1>12
  <2> QED
    BY <1>13, <2>1, <2>2 DEF Retag
<1>15. /\ p1.mem[n].val = Val(STR, s) /\ p1.mem[n].val.addr = s /\ p1.mem[s].addr = d /\ p1.mem[d] = t
  BY <1>2, <1>3, <1>4, <1>7 DEF Val
<1>16. StrOK(p1, own2, n, k)
  <2>1. Has(p1, own2, s, "pair", <<"str", k, n>>) /\ Has(p1, own2, d, "text", <<"len", k, s>>)
    BY <1>2, <1>3, <1>7, <1>13 DEF Has
  <2> QED
    BY <1>15, <2>1 DEF StrOK, TextOK
<1>17. IsLast(p1, n) /\ Pushed(p1, n, s, d, T1, T2)
  BY <1>2, <1>4, <1>5, <1>7, <1>15 DEF IsLast, Pushed
<1>18. IsLonger(texts, TextsAt(p1, ns[k]), p1.mem[d])
  <2>1. AbsVal(p1, e, ns[k]) = AbsVal(p, e, ns[k])
    BY <1>7 DEF SameVals, Val
  <2>2. [kind |-> "list", texts |-> TextsAt(p1, ns[k])] = [kind |-> "list", texts |-> TextsAt(p, ns[k])]
    BY <1>9, <2>1 DEF AbsVal, AbsOf, Val
  <2>3. TextsAt(p1, ns[k]) = TextsAt(p, ns[k])
    BY ONLY <2>2
  <2> QED
    BY <1>15, <2>3 DEF IsLonger
<1>19. Relisted(p1, q, ent, es, ns, own2, pop, rw, T2, k, texts)
  <2>1. /\ Sound(p1, own1, ent, es, ns, pop, rw, T1) /\ k \in Keys /\ e = ent[k] /\ e # NIL
        /\ rw \in BOOLEAN /\ n \in T1 /\ n[1] = "node" /\ p1.mem[e].val = Val(CHAIN, c)
        /\ own2[n] = <<"node", k, NIL>>
    BY <1>5, <1>7, <1>9, <1>13
  <2> QED
    BY ONLY <1>10, <1>14, <1>16, <1>17, <1>18, <2>1, Push
<1>20. PICK ns2 : /\ Sound(q, own2, ent, es, ns2, pop, rw, T2)
                  /\ OthersRead(p1, ent, ns, q, ent, ns2, k)
                  /\ AbsVal(q, ent[k], ns2[k]) = [kind |-> "list", texts |-> texts]
  BY <1>19 DEF Relisted
<1>21. OthersRead(p, ent, ns, q, ent, ns2, k)
  <2>1. SameVals(p, p1, ent, ns, rw)
    BY <1>7
  <2>2. OthersRead(p1, ent, ns, q, ent, ns2, k)
    BY <1>20
  <2> QED
    BY ONLY <2>1, <2>2, ReadBefore
<1>22. ReadsList(q, ent, ns2, k, texts)
  <2>1. q.mem[e].val.type = CHAIN
    BY <1>20, ListKind
  <2> QED
    BY <1>20, <2>1 DEF ReadsList
<1> QED
  BY <1>20, <1>21, <1>22 DEF ListDone

(* touchdb_list_push of a key that has a chain. *)
LEMMA PushOld ==
  ASSUME NEW p, NEW own, NEW ent, NEW es, NEW ns, NEW pop, NEW rw \in BOOLEAN, NEW T, T = {},
         Sound(p, own, ent, es, ns, pop, rw, T),
         NEW k \in Keys, ent[k] # NIL, NEW c, p.mem[ent[k]].val = Val(CHAIN, c), NEW t,
         NEW v, v = Blk(p, "pair"), NEW p1, p1 = new_str_val(p, t),
         NEW q, q = Free(touchdb_chain_push_tail(p1, c, p1.mem[v]), v),
         NEW texts, IsLonger(texts, TextsAt(p, ns[k]), t)
  PROVE  ListDone(p, q, ent, ns, pop, rw, T, k, texts)
<1>1. Strung(p, p1, ent, es, ns, pop, rw, T, v, t)
  <2>1. Sound(p, own, ent, es, ns, pop, rw, T) /\ v = Blk(p, "pair") /\ p1 = new_str_val(p, t)
    OBVIOUS
  <2> QED
    BY ONLY <2>1, StrMade
<1>2. PICK own1, s, d : /\ Sound(p1, own1, ent, es, ns, pop, rw, T \cup {v, s, d})
                        /\ SameVals(p, p1, ent, ns, rw)
                        /\ IsStr(p1, v, s, d, t)
  BY <1>1 DEF Strung
<1>3. PICK T1 : T1 = {v, s, d}
  OBVIOUS
<1>4. Sound(p1, own1, ent, es, ns, pop, rw, T1) /\ StrBlocks(p1, T1, v, s, d, t)
  <2>1. T \cup {v, s, d} = T1
    BY <1>3
  <2> QED
    BY <1>2, <1>3, <2>1 DEF StrBlocks
<1>5. PICK val : val = Val(STR, s)
  OBVIOUS
<1>6. p1.mem[v] = val
  BY <1>2, <1>5 DEF IsStr
<1>7. PICK q1 : q1 = touchdb_chain_push_tail(p1, c, val)
  OBVIOUS
<1>8. q = Free(q1, v)
  BY <1>6, <1>7
<1>9. PICK T2 : T2 = {v}
  OBVIOUS
<1>10. PICK e : e = ent[k]
  OBVIOUS
<1>11. p1.mem[e].val = Val(CHAIN, c) /\ IsLonger(texts, TextsAt(p1, ns[k]), t)
  <2>1. p.mem[e].val = Val(CHAIN, c) /\ Val(CHAIN, c).type = CHAIN
    BY <1>10 DEF Val
  <2>2. p1.mem[e].val = p.mem[e].val /\ AbsVal(p1, e, ns[k]) = AbsVal(p, e, ns[k])
    BY <1>2, <1>10, <2>1 DEF SameVals
  <2>3. [kind |-> "list", texts |-> TextsAt(p1, ns[k])] = [kind |-> "list", texts |-> TextsAt(p, ns[k])]
    BY <1>10, <2>1, <2>2 DEF AbsVal, AbsOf
  <2>4. TextsAt(p1, ns[k]) = TextsAt(p, ns[k])
    BY ONLY <2>3
  <2> QED
    BY <2>1, <2>2, <2>4 DEF IsLonger
<1>12. ListDone(p1, q1, ent, ns, pop, rw, T2, k, texts)
  <2>1. e = ent[k] /\ e # NIL /\ k \in Keys /\ rw \in BOOLEAN
    BY <1>10
  <2> QED
    BY ONLY <1>4, <1>5, <1>7, <1>9, <1>11, <2>1, PushNode
<1>13. ListDone(p1, q, ent, ns, pop, rw, T, k, texts)
  <2>1. v \in T2 /\ T = T2 \ {v} /\ k \in Keys
    BY <1>9
  <2> QED
    BY ONLY <1>8, <1>12, <2>1, FreeLastList
<1>14. PICK own2, ent2, es2, ns2 :
        /\ Sound(q, own2, ent2, es2, ns2, pop, rw, T)
        /\ OthersRead(p1, ent, ns, q, ent2, ns2, k)
        /\ ReadsList(q, ent2, ns2, k, texts)
  BY <1>13 DEF ListDone
<1>15. OthersRead(p, ent, ns, q, ent2, ns2, k)
  <2>1. SameVals(p, p1, ent, ns, rw)
    BY <1>2
  <2>2. OthersRead(p1, ent, ns, q, ent2, ns2, k)
    BY <1>14
  <2> QED
    BY ONLY <2>1, <2>2, ReadBefore
<1> QED
  BY <1>14, <1>15 DEF ListDone

(* The value val is a chain of one node, with the text t. *)
OneNode(p, own, val, c, n, s, d, k, t) ==
  /\ val = Val(CHAIN, c)
  /\ Has(p, own, c, "chain", <<"chain", k, NIL>>)
  /\ Has(p, own, n, "node", <<"node", k, NIL>>)
  /\ Has(p, own, s, "pair", <<"str", k, n>>)
  /\ Has(p, own, d, "text", <<"len", k, s>>)
  /\ p.mem[c] = [header |-> n, tail |-> n, size |-> 1]
  /\ p.mem[n] = [prev |-> NIL, next |-> NIL, val |-> Val(STR, s)]
  /\ p.mem[s].addr = d /\ p.mem[d] = t

(* texts is the text t alone. *)
IsAlone(texts, t) == texts = <<t>>

(* A chain of one node is the list of one text. *)
LEMMA OneNodeIs ==
  ASSUME NEW p, PoolOK(p), NEW own, NEW val, NEW c, NEW n, NEW s, NEW d, NEW k, NEW t,
         OneNode(p, own, val, c, n, s, d, k, t), NEW one, IsAlone(one, n), NEW kept
  PROVE  /\ ValueOK(p, own, val, one, k, kept)
         /\ IsAlone(TextsAt(p, one), t)
<1>1. Len(one) = 1 /\ one[1] = n
  BY DEF IsAlone
<1>2. n \in Blocks
  BY DEF OneNode, Has, PoolOK, Carved
<1>3. one \in Seq(Blocks)
  BY <1>2 DEF IsAlone
<1>4. val = Val(val.type, val.addr) /\ val.type = CHAIN /\ val.addr = c /\ CHAIN # STR
  BY DEF OneNode, Val, STR, CHAIN
<1>5. Val(STR, s).addr = s
  BY DEF Val
<1>6. StrOK(p, own, n, k)
  BY <1>5 DEF OneNode, StrOK, TextOK
<1>7. At(one, 1) = n /\ At(one, Len(one)) = n /\ At(one, 2) = NIL
  BY <1>1 DEF At
<1>8. NodeOK(p, own, n, NIL, k)
  BY <1>6 DEF OneNode, NodeOK
<1>9. ListOK(p, own, c, one, k)
  <2>1. \A j \in 1 .. Len(one) : j = 1
    BY <1>1
  <2>2. \A j \in 1 .. Len(one) : NodeOK(p, own, one[j], At(one, j + 1), k)
    <3> SUFFICES ASSUME NEW j \in 1 .. Len(one) PROVE NodeOK(p, own, one[j], At(one, j + 1), k)
      OBVIOUS
    <3>1. j = 1 /\ j + 1 = 2
      BY <2>1
    <3> QED
      BY <1>1, <1>7, <1>8, <3>1
  <2>3. p.mem[c] = [header |-> At(one, 1), tail |-> At(one, Len(one)), size |-> Len(one)]
    BY <1>1, <1>7 DEF OneNode
  <2> QED
    BY <1>3, <2>1, <2>2, <2>3 DEF ListOK, OneNode
<1>10. ValueOK(p, own, val, one, k, kept)
  BY <1>4, <1>9 DEF ValueOK
<1>11. IsAlone(TextsAt(p, one), t)
  <2>1. p.mem[p.mem[p.mem[one[1]].val.addr].addr] = t
    BY <1>1, <1>5 DEF OneNode
  <2>2. TextsAt(p, one) = [i \in 1 .. 1 |-> p.mem[p.mem[p.mem[one[i]].val.addr].addr]]
    BY <1>1, SMTT(30) DEF TextsAt
  <2>3. TextsAt(p, one) = [i \in 1 .. 1 |-> t]
    BY <2>1, <2>2
  <2>4. <<t>> = [i \in 1 .. 1 |-> t]
    OBVIOUS
  <2> QED
    BY <2>3, <2>4 DEF IsAlone
<1> QED
  BY <1>10, <1>11

ListTags(own, c, n, s, d, k) ==
  [b \in Blocks |-> IF b = c THEN <<"chain", k, NIL>>
                    ELSE IF b = n THEN <<"node", k, NIL>>
                    ELSE IF b = s THEN <<"str", k, n>>
                    ELSE IF b = d THEN <<"len", k, s>> ELSE own[b]]

(* The state q is sound, and has a chain val of one node with the text t   *)
(* that belongs to nothing yet, and two temporary blocks besides.          *)
Listed(p, q, ent, es, ns, pop, rw, v, vb, val, k, t) ==
  \E own2, ownV, T1, T2, c, n, s, d :
    /\ Sound(q, own2, ent, es, ns, pop, rw, T1)
    /\ SameVals(p, q, ent, ns, rw)
    /\ Retag(q, own2, ownV, k, T1, T2)
    /\ T2 = {v, vb} /\ v # vb /\ T1 \ T2 \subseteq {c, n, s, d}
    /\ OneNode(q, ownV, val, c, n, s, d, k, t)

EmptyChain == [header |-> NIL, tail |-> NIL, size |-> 0]

(* touchdb_list_push of a key without a chain makes a chain of one node    *)
(* before it puts it under the key.                                        *)
LEMMA ListMade ==
  ASSUME NEW p, NEW own, NEW ent, NEW es, NEW ns, NEW pop, NEW rw, NEW T,
         Sound(p, own, ent, es, ns, pop, rw, T),
         NEW v, NEW s, NEW d, NEW t, StrBlocks(p, T, v, s, d, t),
         NEW val0, val0 = Val(STR, s), NEW k \in Keys,
         NEW vb, vb = Blk(p, "pair"), NEW p1, p1 = New(p, "pair", NIL),
         NEW c, c = Blk(p1, "chain"), NEW p2, p2 = New(p1, "chain", EmptyChain),
         NEW val, val = Val(CHAIN, c), NEW p3, p3 = Set(p2, vb, val),
         NEW q, q = touchdb_chain_push_tail(p3, c, val0)
  PROVE  Listed(p, q, ent, es, ns, pop, rw, v, vb, val, k, t)
<1>1. "pair" \in Classes /\ "chain" \in Classes /\ "node" \in Classes
  BY DEF Classes
<1>2. /\ T = {b \in p.held : own[b] = TMP}
      /\ T = {v, s, d} /\ v # s /\ v[1] = "pair" /\ s[1] = "pair" /\ d[1] = "text"
      /\ p.mem[s].addr = d /\ p.mem[d] = t
  BY DEF Sound, StrBlocks, IsStr
<1>3. v # d /\ s # d /\ T \subseteq p.held
  BY <1>2
<1>4. PICK own1, T1 : own1 = Tag(own, vb, TMP) /\ T1 = T \cup {vb}
  OBVIOUS
<1>5. /\ Sound(p1, own1, ent, es, ns, pop, rw, T1)
      /\ SameVals(p, p1, ent, ns, rw)
      /\ vb \in Blocks \ p.held /\ vb[1] = "pair"
      /\ p1.held = p.held \cup {vb}
      /\ \A a \in p.held : p1.mem[a] = p.mem[a]
  <2>1. Sound(p, own, ent, es, ns, pop, rw, T) /\ vb = Blk(p, "pair") /\ p1 = New(p, "pair", NIL)
    OBVIOUS
  <2>2. /\ Sound(p1, Tag(own, vb, TMP), ent, es, ns, pop, rw, T \cup {vb})
        /\ SameVals(p, p1, ent, ns, rw)
        /\ vb \in Blocks \ p.held /\ vb[1] = "pair" /\ vb \notin T
        /\ p1.held = p.held \cup {vb}
        /\ p1.mem[vb] = NIL
        /\ \A a \in p.held : p1.mem[a] = p.mem[a]
    BY ONLY <1>1, <2>1, TmpNew
  <2> QED
    BY <1>4, <2>2
<1>6. PICK own2, T2 : own2 = Tag(own1, c, TMP) /\ T2 = T1 \cup {c}
  OBVIOUS
<1>7. /\ Sound(p2, own2, ent, es, ns, pop, rw, T2)
      /\ SameVals(p1, p2, ent, ns, rw)
      /\ c \in Blocks \ p1.held /\ c[1] = "chain" /\ p2.mem[c] = EmptyChain
      /\ p2.held = p1.held \cup {c}
      /\ \A a \in p1.held : p2.mem[a] = p1.mem[a]
  <2>1. Sound(p1, own1, ent, es, ns, pop, rw, T1) /\ c = Blk(p1, "chain") /\ p2 = New(p1, "chain", EmptyChain)
    BY <1>5
  <2>2. /\ Sound(p2, Tag(own1, c, TMP), ent, es, ns, pop, rw, T1 \cup {c})
        /\ SameVals(p1, p2, ent, ns, rw)
        /\ c \in Blocks \ p1.held /\ c[1] = "chain" /\ c \notin T1
        /\ p2.held = p1.held \cup {c}
        /\ p2.mem[c] = EmptyChain
        /\ \A a \in p1.held : p2.mem[a] = p1.mem[a]
    BY ONLY <1>1, <2>1, TmpNew
  <2> QED
    BY <1>6, <2>2
<1>8. /\ Sound(p3, own2, ent, es, ns, pop, rw, T2)
      /\ SameVals(p2, p3, ent, ns, rw)
      /\ p3.held = p2.held
      /\ \A a \in p2.held : a # vb => p3.mem[a] = p2.mem[a]
  <2>1. Sound(p2, own2, ent, es, ns, pop, rw, T2) /\ vb \in T2 /\ p3 = Set(p2, vb, val)
    BY <1>4, <1>6, <1>7
  <2>2. /\ Sound(p3, own2, ent, es, ns, pop, rw, T2)
        /\ SameVals(p2, p3, ent, ns, rw)
        /\ p3.held = p2.held
        /\ p3.mem[vb] = val
        /\ \A a \in p2.held : a # vb => p3.mem[a] = p2.mem[a]
    BY ONLY <2>1, TmpSet
  <2> QED
    BY <2>2
<1>9. /\ c # vb /\ c \notin T /\ p3.mem[c] = EmptyChain /\ p3.mem[s] = p.mem[s] /\ p3.mem[d] = p.mem[d]
      /\ p3.held = p.held \cup {vb, c}
  <2>1. c # vb /\ c \notin T /\ s \in p.held /\ d \in p.held /\ s # vb /\ d # vb
    BY <1>2, <1>3, <1>5, <1>7
  <2> QED
    BY <1>5, <1>7, <1>8, <2>1
<1>10. PICK x : x = [prev |-> NIL, next |-> NIL, val |-> val0]
  OBVIOUS
<1>11. PICK n, p4, T4 : n = Blk(p3, "node") /\ p4 = New(p3, "node", x) /\ T4 = T2 \cup {n}
  OBVIOUS
<1>12. PICK own4 : own4 = Tag(own2, n, TMP)
  OBVIOUS
<1>13. /\ Sound(p4, own4, ent, es, ns, pop, rw, T4)
       /\ SameVals(p3, p4, ent, ns, rw)
       /\ n \in Blocks \ p3.held /\ n[1] = "node" /\ p4.mem[n] = x
       /\ p4.held = p3.held \cup {n}
       /\ \A a \in p3.held : p4.mem[a] = p3.mem[a]
  <2>1. Sound(p3, own2, ent, es, ns, pop, rw, T2) /\ n = Blk(p3, "node") /\ p4 = New(p3, "node", x)
    BY <1>8, <1>11
  <2>2. /\ Sound(p4, Tag(own2, n, TMP), ent, es, ns, pop, rw, T2 \cup {n})
        /\ SameVals(p3, p4, ent, ns, rw)
        /\ n \in Blocks \ p3.held /\ n[1] = "node" /\ n \notin T2
        /\ p4.held = p3.held \cup {n}
        /\ p4.mem[n] = x
        /\ \A a \in p3.held : p4.mem[a] = p3.mem[a]
    BY ONLY <1>1, <2>1, TmpNew
  <2> QED
    BY <1>11, <1>12, <2>2
<1>14. PICK y : y = [header |-> n, tail |-> n, size |-> 1]
  OBVIOUS
<1>15. q = Set(p4, c, y)
  <2>1. p3.mem[c].size = 0 /\ p3.mem[c].tail = NIL
    BY <1>9 DEF EmptyChain
  <2> QED
    BY <1>10, <1>11, <1>14, <2>1 DEF touchdb_chain_push_tail
<1>16. /\ Sound(q, own4, ent, es, ns, pop, rw, T4)
       /\ SameVals(p4, q, ent, ns, rw)
       /\ q.held = p4.held
       /\ q.mem[c] = y
       /\ \A a \in p4.held : a # c => q.mem[a] = p4.mem[a]
  <2>1. Sound(p4, own4, ent, es, ns, pop, rw, T4) /\ c \in T4
    BY <1>6, <1>11, <1>13
  <2> QED
    BY ONLY <1>15, <2>1, TmpSet
<1>17. /\ T4 = {v, s, d, vb, c, n} /\ n \notin {v, s, d, vb, c} /\ c \notin {v, s, d, vb}
       /\ vb \notin {v, s, d} /\ T4 \subseteq q.held
  <2>1. T4 = {v, s, d, vb, c, n}
    BY <1>2, <1>4, <1>6, <1>11
  <2>2. n \notin {v, s, d, vb, c} /\ c \notin {v, s, d, vb} /\ vb \notin {v, s, d}
    BY <1>2, <1>3, <1>5, <1>9, <1>13
  <2>3. T4 \subseteq q.held
    BY <1>2, <1>3, <1>9, <1>13, <1>16, <2>1
  <2> QED
    BY <2>1, <2>2, <2>3
<1>18. PICK T5 : T5 = {v, vb}
  OBVIOUS
<1>19. PICK ownV : ownV = ListTags(own4, c, n, s, d, k)
  OBVIOUS
<1>20. q.held \subseteq Blocks
  BY <1>16 DEF Sound, MapOK, PoolOK, Carved
<1>21. /\ ownV[c] = <<"chain", k, NIL>> /\ ownV[n] = <<"node", k, NIL>>
       /\ ownV[s] = <<"str", k, n>> /\ ownV[d] = <<"len", k, s>>
       /\ \A b \in q.held \ {c, n, s, d} : ownV[b] = own4[b]
  <2>1. c \in Blocks /\ n \in Blocks /\ s \in Blocks /\ d \in Blocks
    BY <1>17, <1>20
  <2>2. c # n /\ c # s /\ c # d /\ n # s /\ n # d /\ s # d
    BY <1>3, <1>17
  <2>3. ownV[c] = <<"chain", k, NIL>> /\ ownV[n] = <<"node", k, NIL>>
    BY <1>19, <2>1, <2>2 DEF ListTags
  <2>4. ownV[s] = <<"str", k, n>> /\ ownV[d] = <<"len", k, s>>
    BY <1>19, <2>1, <2>2 DEF ListTags
  <2>5. \A b \in q.held \ {c, n, s, d} : ownV[b] = own4[b]
    BY <1>19, <1>20 DEF ListTags
  <2> QED
    BY <2>3, <2>4, <2>5
<1>22. Retag(q, own4, ownV, k, T4, T5)
  <2>1. ownV[c][2] = k /\ ownV[n][2] = k /\ ownV[s][2] = k /\ ownV[d][2] = k
    BY ONLY <1>21
  <2>2. T4 \ T5 = {c, n, s, d} /\ T5 \subseteq T4
    BY <1>2, <1>3, <1>17, <1>18
  <2> QED
    BY <1>21, <2>1, <2>2 DEF Retag
<1>23. q.mem[n] = x /\ q.mem[s].addr = d /\ q.mem[d] = t /\ q.mem[c] = y
  <2>1. q.mem[n] = x
    BY <1>13, <1>16, <1>17
  <2>2. s \in p3.held /\ d \in p3.held
    BY <1>2, <1>3, <1>9
  <2>3. q.mem[s] = p3.mem[s] /\ q.mem[d] = p3.mem[d]
    BY <1>13, <1>16, <1>17, <2>2
  <2> QED
    BY <1>2, <1>9, <1>16, <2>1, <2>3
<1>24. OneNode(q, ownV, val, c, n, s, d, k, t)
  <2>1. c \in q.held /\ n \in q.held /\ s \in q.held /\ d \in q.held
    BY <1>17
  <2> QED
    BY <1>2, <1>7, <1>10, <1>13, <1>14, <1>21, <1>23, <2>1 DEF OneNode, Has
<1>25. SameVals(p, q, ent, ns, rw)
  <2>1. SameVals(p, p2, ent, ns, rw)
    BY <1>5, <1>7, SameValsTrans
  <2>2. SameVals(p2, p4, ent, ns, rw)
    BY <1>8, <1>13, SameValsTrans
  <2>3. SameVals(p, p4, ent, ns, rw)
    BY <2>1, <2>2, SameValsTrans
  <2> QED
    BY <1>16, <2>3, SameValsTrans
<1> QED
  <2>1. T5 = {v, vb} /\ v # vb /\ T4 \ T5 \subseteq {c, n, s, d}
    BY <1>17, <1>18
  <2> QED
    BY <1>16, <1>22, <1>24, <1>25, <2>1 DEF Listed

(* The chain goes to a new entry, or takes the place of another value. *)
LEMMA PutList ==
  ASSUME NEW p, NEW own, NEW ent, NEW es, NEW ns, NEW pop, NEW rw, NEW T,
         Sound(p, own, ent, es, ns, pop, rw, T),
         NEW k \in Keys, NEW rw2, Rewrote(rw, rw2, ent[k], k),
         NEW ownV, NEW T2, Retag(p, own, ownV, k, T, T2),
         NEW val, NEW c, NEW n, NEW s, NEW d, NEW t, OneNode(p, ownV, val, c, n, s, d, k, t),
         T \ T2 \subseteq {c, n, s, d},
         NEW texts, IsAlone(texts, t),
         NEW q, q = touchdb_map_put2(p, k, val)
  PROVE  ListDone(p, q, ent, ns, pop, rw2, T2, k, texts)
<1>1. PICK one : one = <<n>>
  OBVIOUS
<1>2. IsAlone(one, n) /\ Len(one) = 1 /\ one[1] = n
  BY <1>1 DEF IsAlone
<1>3. PoolOK(p)
  BY DEF Sound, MapOK
<1>4. val.type = CHAIN /\ val.addr = c /\ val.type # STR /\ Val(STR, s).addr = s
  BY DEF OneNode, Val, STR, CHAIN
<1>5. CASE ent[k] = NIL
  <2>1. PICK kept : kept = TRUE
    OBVIOUS
  <2>2. ValueOK(p, ownV, val, one, k, kept) /\ IsAlone(TextsAt(p, one), t)
    <3>1. OneNode(p, ownV, val, c, n, s, d, k, t)
      OBVIOUS
    <3> QED
      BY ONLY <1>2, <1>3, <3>1, OneNodeIs
  <2>3. AllIn(p, val, one, T, T2)
    <3> SUFFICES ASSUME NEW b \in T \ T2 PROVE InValue(p, val, one, b)
      BY DEF AllIn
    <3>1. b = c \/ b = n \/ b = s \/ b = d
      OBVIOUS
    <3>2. p.mem[n].val.addr = s /\ p.mem[s].addr = d
      BY <1>4 DEF OneNode
    <3>3. 1 \in 1 .. Len(one) /\ one[1] = n
      BY <1>2
    <3> QED
      BY <1>4, <3>1, <3>2, <3>3 DEF InValue
  <2>4. rw \in BOOLEAN /\ rw2 = rw
    BY <1>5 DEF Rewrote
  <2>5. BoundTo(p, q, ent, ns, pop, rw, T2, k, val, one)
    <3>1. /\ Sound(p, own, ent, es, ns, pop, rw, T) /\ k \in Keys
          /\ q = touchdb_map_put2(p, k, val) /\ Retag(p, own, ownV, k, T, T2)
      OBVIOUS
    <3>2. rw \in BOOLEAN
      BY <2>4
    <3> QED
      BY ONLY <1>5, <2>1, <2>2, <2>3, <3>1, <3>2, PutNew
  <2>6. PICK own2, ent2, es2, ns2 :
           /\ Sound(q, own2, ent2, es2, ns2, pop, rw, T2)
           /\ OthersRead(p, ent, ns, q, ent2, ns2, k)
           /\ IsBound(p, q, ent2, ns2, k, val, one)
    BY <2>5 DEF BoundTo
  <2>7. TextsAt(p, one) = texts
    BY <2>2 DEF IsAlone
  <2>8. AbsOf(p, val, one) = [kind |-> "list", texts |-> texts]
    BY <1>4, <2>7 DEF AbsOf
  <2>9. ReadsList(q, ent2, ns2, k, texts)
    BY <1>4, <2>6, <2>8 DEF IsBound, ReadsList, AbsVal
  <2> QED
    BY <2>4, <2>6, <2>9 DEF ListDone
<1>6. CASE ent[k] # NIL
  <2>1. rw \in BOOLEAN /\ rw2 = TRUE /\ k \in RewriteKeys /\ k \in Keys
    BY <1>6 DEF Rewrote
  <2>2. PICK e : e = ent[k]
    OBVIOUS
  <2>3. get_entry(p, k) = e /\ e # NIL /\ e[1] = "entry"
    <3>1. MapOK(p, own, ent, es, ns, rw)
      BY DEF Sound
    <3>2. EntryOK(p, own, ent[k], k)
      BY <1>6, OwnedApart
    <3> QED
      BY <1>6, <2>2, <3>1, <3>2, GetEntry DEF EntryOK, Has
  <2>4. q = [p EXCEPT !.mem[e].val = val]
    BY <1>4, <2>3 DEF touchdb_map_put2, map_replaced, touchdb_val_destroy
  <2>5. Sound(p, own, ent, es, ns, pop, rw, T) /\ k \in Keys /\ e = ent[k] /\ e # NIL
    BY <2>2, <2>3
  <2>6. IsAssigned(p, q, e, val)
    BY ONLY <2>4, <2>5, AssignFacts
  <2>7. OneNode(q, ownV, val, c, n, s, d, k, t) /\ PoolOK(q)
    <3>1. c # e /\ n # e /\ s # e /\ d # e
      BY <2>3 DEF OneNode, Has
    <3> QED
      BY <2>6, <3>1 DEF IsAssigned, OneNode, Has
  <2>8. PICK lost : lost = FALSE
    OBVIOUS
  <2>9. ValueOK(q, ownV, val, one, k, lost) /\ IsAlone(TextsAt(q, one), t)
    BY ONLY <1>2, <2>7, OneNodeIs
  <2>10. Assigned(p, q, ent, es, ns, ownV, pop, rw2, T2, k, one)
    <3>1. Retag(p, own, ownV, k, T, T2)
      OBVIOUS
    <3> QED
      BY ONLY <2>1, <2>4, <2>5, <2>8, <2>9, <3>1, Assign
  <2>11. PICK ns2 : /\ Sound(q, ownV, ent, es, ns2, pop, rw2, T2)
                    /\ OthersRead(p, ent, ns, q, ent, ns2, k)
                    /\ ns2[k] = one
    BY <2>10 DEF Assigned
  <2>12. TextsAt(q, one) = texts /\ q.mem[ent[k]].val = val
    BY <2>2, <2>6, <2>9 DEF IsAlone, IsAssigned
  <2>13. ReadsList(q, ent, ns2, k, texts)
    BY <1>4, <1>6, <2>11, <2>12 DEF ReadsList, AbsVal, AbsOf
  <2> QED
    BY <2>11, <2>13 DEF ListDone
<1> QED
  BY <1>5, <1>6

(* touchdb_list_push of a key without a chain. *)
LEMMA PushNew ==
  ASSUME NEW p, NEW own, NEW ent, NEW es, NEW ns, NEW pop, NEW rw, NEW T, T = {},
         Sound(p, own, ent, es, ns, pop, rw, T),
         NEW k \in Keys, NEW rw2, Rewrote(rw, rw2, ent[k], k), NEW t,
         NEW v, v = Blk(p, "pair"), NEW p1, p1 = new_str_val(p, t),
         NEW q, q = Free(list_push_new(p1, k, p1.mem[v]), v),
         NEW texts, IsAlone(texts, t)
  PROVE  ListDone(p, q, ent, ns, pop, rw2, T, k, texts)
<1>1. Strung(p, p1, ent, es, ns, pop, rw, T, v, t)
  <2>1. Sound(p, own, ent, es, ns, pop, rw, T) /\ v = Blk(p, "pair") /\ p1 = new_str_val(p, t)
    OBVIOUS
  <2> QED
    BY ONLY <2>1, StrMade
<1>2. PICK own1, s, d : /\ Sound(p1, own1, ent, es, ns, pop, rw, T \cup {v, s, d})
                        /\ SameVals(p, p1, ent, ns, rw)
                        /\ IsStr(p1, v, s, d, t)
  BY <1>1 DEF Strung
<1>3. PICK T1 : T1 = {v, s, d}
  OBVIOUS
<1>4. Sound(p1, own1, ent, es, ns, pop, rw, T1) /\ StrBlocks(p1, T1, v, s, d, t)
  <2>1. T \cup {v, s, d} = T1
    BY <1>3
  <2> QED
    BY <1>2, <1>3, <2>1 DEF StrBlocks
<1>5. PICK val0 : val0 = Val(STR, s)
  OBVIOUS
<1>6. p1.mem[v] = val0
  BY <1>2, <1>5 DEF IsStr
<1>7. PICK vb, a1 : vb = Blk(p1, "pair") /\ a1 = New(p1, "pair", NIL)
  OBVIOUS
<1>8. PICK c, a2 : c = Blk(a1, "chain") /\ a2 = New(a1, "chain", EmptyChain)
  OBVIOUS
<1>9. PICK val : val = Val(CHAIN, c)
  OBVIOUS
<1>10. PICK a3 : a3 = Set(a2, vb, val)
  OBVIOUS
<1>11. PICK r : r = touchdb_chain_push_tail(a3, c, val0)
  OBVIOUS
<1>12. PICK r1 : r1 = touchdb_map_put2(r, k, val)
  OBVIOUS
<1>13. PICK r2 : r2 = Free(r1, vb)
  OBVIOUS
<1>14. Listed(p1, r, ent, es, ns, pop, rw, v, vb, val, k, t)
  <2>1. k \in Keys
    OBVIOUS
  <2> QED
    BY ONLY <1>4, <1>5, <1>7, <1>8, <1>9, <1>10, <1>11, <2>1, ListMade
<1>15. PICK own2, ownV, T3, T2, cc, n, ss, dd :
         /\ Sound(r, own2, ent, es, ns, pop, rw, T3)
         /\ SameVals(p1, r, ent, ns, rw)
         /\ Retag(r, own2, ownV, k, T3, T2)
         /\ T2 = {v, vb} /\ v # vb /\ T3 \ T2 \subseteq {cc, n, ss, dd}
         /\ OneNode(r, ownV, val, cc, n, ss, dd, k, t)
  BY <1>14 DEF Listed
<1>16. q = Free(r2, v)
  <2>1. a3.mem[vb] = val
    <3>1. PoolOK(a2) /\ vb \in Carved(a2)
      <4>1. "pair" \in Classes /\ "chain" \in Classes
        BY DEF Classes
      <4>2. PoolOK(p1)
        BY <1>4 DEF Sound, MapOK
      <4>3. PoolOK(a1) /\ vb \in Blocks /\ a1.held = p1.held \cup {vb}
        BY <1>7, <4>1, <4>2, NewKeeps
      <4>4. PoolOK(a2) /\ Carved(a1) \subseteq Carved(a2)
        BY <1>8, <4>1, <4>3, NewKeeps
      <4> QED
        BY <4>3, <4>4 DEF PoolOK
    <3>2. vb \in DOMAIN a2.mem /\ "mem" \in DOMAIN a2
      BY <3>1 DEF PoolOK, IsDb
    <3> QED
      BY <1>10, <3>1, <3>2 DEF Set
  <2>2. list_push_new(p1, k, val0) = r2
    BY <1>7, <1>8, <1>9, <1>10, <1>11, <1>12, <1>13, <2>1 DEF list_push_new, EmptyChain
  <2> QED
    BY <1>6, <2>2
<1>17. ListDone(r, r1, ent, ns, pop, rw2, T2, k, texts)
  <2>1. k \in Keys /\ Rewrote(rw, rw2, ent[k], k) /\ IsAlone(texts, t)
    OBVIOUS
  <2>2. T3 \ T2 \subseteq {cc, n, ss, dd}
    BY <1>15
  <2>3. /\ Sound(r, own2, ent, es, ns, pop, rw, T3)
        /\ Retag(r, own2, ownV, k, T3, T2)
        /\ OneNode(r, ownV, val, cc, n, ss, dd, k, t)
    BY <1>15
  <2> QED
    BY ONLY <1>12, <2>1, <2>2, <2>3, PutList
<1>18. PICK T4 : T4 = T2 \ {vb}
  OBVIOUS
<1>19. ListDone(r, r2, ent, ns, pop, rw2, T4, k, texts)
  <2>1. vb \in T2 /\ k \in Keys
    BY <1>15
  <2> QED
    BY ONLY <1>13, <1>17, <1>18, <2>1, FreeLastList
<1>20. ListDone(r, q, ent, ns, pop, rw2, T, k, texts)
  <2>1. v \in T4 /\ T = T4 \ {v} /\ k \in Keys
    BY <1>15, <1>18
  <2> QED
    BY ONLY <1>16, <1>19, <2>1, FreeLastList
<1>21. PICK own3, ent2, es2, ns2 :
        /\ Sound(q, own3, ent2, es2, ns2, pop, rw2, T)
        /\ OthersRead(r, ent, ns, q, ent2, ns2, k)
        /\ ReadsList(q, ent2, ns2, k, texts)
  BY <1>20 DEF ListDone
<1>22. OthersRead(p, ent, ns, q, ent2, ns2, k)
  <2>1. SameVals(p, r, ent, ns, rw)
    BY <1>2, <1>15, SameValsTrans
  <2>2. OthersRead(r, ent, ns, q, ent2, ns2, k)
    BY <1>21
  <2> QED
    BY ONLY <2>1, <2>2, ReadBefore
<1> QED
  BY <1>21, <1>22 DEF ListDone

(* The state q is sound, v leads to the first text that k had, and k reads  *)
(* the list texts.                                                         *)
PopIs(p, q, ent, ns, pop, rw, T2, k, v, texts) ==
  /\ ListDone(p, q, ent, ns, pop, rw, T2, k, texts)
  /\ Len(ns[k]) \in Nat /\ Len(ns[k]) # 0
  /\ touchdb_str_data(q, q.mem[v]) = TextsAt(p, ns[k])[1]

Joined(pop2, pop, v) == pop2 = pop \cup {v}

(* touchdb_list_pop of a list that is not empty: the list is without its   *)
(* first text, which the block that is returned leads to still.            *)
LEMMA Pop ==
  ASSUME NEW p, NEW own, NEW ent, NEW es, NEW ns, NEW pop, NEW rw \in BOOLEAN, NEW T, T = {},
         Sound(p, own, ent, es, ns, pop, rw, T),
         NEW k \in Keys, ent[k] # NIL, NEW c, p.mem[ent[k]].val = Val(CHAIN, c),
         p.mem[c].header # NIL,
         NEW q, q = touchdb_chain_pull_head(p, c), NEW v, v = Blk(p, "pair"),
         NEW pop2, Joined(pop2, pop, v),
         NEW texts, IsRest(texts, TextsAt(p, ns[k]))
  PROVE  PopIs(p, q, ent, ns, pop2, rw, T, k, v, texts)
<1>1. PICK e, s : e = ent[k] /\ s = ns[k]
  OBVIOUS
<1>2. ListOK(p, own, c, s, k) /\ PoolOK(p)
  <2>1. KeyOK(p, own, e, s, k, rw) /\ PoolOK(p)
    BY <1>1 DEF Sound, MapOK
  <2>2. p.mem[e].val = Val(CHAIN, c) /\ e # NIL
    BY <1>1
  <2> QED
    BY <2>1, <2>2 DEF KeyOK, ValueOK, Val
<1>3. /\ s \in Seq(Blocks) /\ Len(s) \in Nat /\ Len(s) # 0 /\ p.mem[c].header = s[1]
      /\ 1 \in 1 .. Len(s) /\ c \in p.held /\ c[1] = "chain" /\ own[c] = <<"chain", k, NIL>>
  <2>1. s \in Seq(Blocks) /\ p.mem[c].header = At(s, 1)
    BY <1>2 DEF ListOK
  <2>2. 1 \in 1 .. Len(s) /\ p.mem[c].header = s[1]
    BY <2>1 DEF At
  <2>3. c \in p.held /\ c[1] = "chain" /\ own[c] = <<"chain", k, NIL>>
    BY <1>2 DEF ListOK, Has
  <2> QED
    BY <2>1, <2>2, <2>3
<1>4. PICK n : n = s[1]
  OBVIOUS
<1>5. NodeOK(p, own, n, At(s, 2), k) /\ StrOK(p, own, n, k)
  <2>1. NodeOK(p, own, s[1], At(s, 1 + 1), k)
    BY <1>2, <1>3 DEF ListOK
  <2> QED
    BY <1>4, <2>1 DEF NodeOK
<1>6. PICK st : st = p.mem[n].val.addr
  OBVIOUS
<1>7. PICK d : d = p.mem[st].addr
  BY SMTT(30)
<1>8. /\ Has(p, own, n, "node", <<"node", k, NIL>>) /\ Has(p, own, st, "pair", <<"str", k, n>>)
      /\ Has(p, own, d, "text", <<"len", k, st>>)
      /\ p.mem[n].val = Val(STR, st) /\ p.mem[n].next = At(s, 2)
  BY <1>5, <1>6, <1>7 DEF NodeOK, StrOK, TextOK
<1>9. IsFirst(p, s, n, st, d)
  BY <1>3, <1>4, <1>6, <1>7 DEF IsFirst
<1>10. PICK p1 : p1 = Unlinked(p, c, At(s, 2))
  OBVIOUS
<1>11. PICK T1 : T1 = T \cup {n, st, d}
  OBVIOUS
<1>12. PICK own1 : own1 = [b \in Blocks |-> IF b \in {n, st, d} THEN TMP ELSE own[b]]
  OBVIOUS
<1>13. Untagged(own, own1, n, st, d) /\ Released(T, T1, n, st, d)
  BY <1>11, <1>12 DEF Untagged, Released
<1>14. Relisted(p, p1, ent, es, ns, own1, pop, rw, T1, k, texts)
  <2>1. /\ Sound(p, own, ent, es, ns, pop, rw, T) /\ k \in Keys /\ e = ent[k] /\ e # NIL
        /\ rw \in BOOLEAN /\ p.mem[e].val = Val(CHAIN, c) /\ s = ns[k] /\ IsRest(texts, TextsAt(p, s))
    BY <1>1
  <2> QED
    BY ONLY <1>9, <1>10, <1>13, <2>1, Pull
<1>15. PICK ns1 : /\ Sound(p1, own1, ent, es, ns1, pop, rw, T1)
                  /\ OthersRead(p, ent, ns, p1, ent, ns1, k)
                  /\ AbsVal(p1, ent[k], ns1[k]) = [kind |-> "list", texts |-> texts]
  BY <1>14 DEF Relisted
<1>16. /\ p1.free = p.free /\ p1.fresh = p.fresh
       /\ p1.held = p.held /\ \A b \in p.held : b # c => p1.mem[b] = p.mem[b]
  <2>1. p1.free = p.free /\ p1.fresh = p.fresh
    BY <1>2, <1>10 DEF Unlinked, Set, PoolOK, IsDb
  <2>2. Len(s) # 0 /\ PoolOK(p) /\ ListOK(p, own, c, s, k)
    BY <1>2, <1>3
  <2>3. IsPulled(p, p1, c, s)
    BY ONLY <1>10, <2>2, PullFacts
  <2> QED
    BY <2>1, <2>3 DEF IsPulled
<1>17. v = Blk(p1, "pair") /\ "pair" \in Classes
  BY <1>16 DEF Blk, Classes
<1>18. PICK val : val = Val(STR, st)
  OBVIOUS
<1>19. PICK p2, T2 : p2 = New(p1, "pair", val) /\ T2 = T1 \cup {v}
  OBVIOUS
<1>20. PICK own2 : own2 = Tag(own1, v, TMP)
  OBVIOUS
<1>21. /\ Sound(p2, own2, ent, es, ns1, pop, rw, T2)
       /\ SameVals(p1, p2, ent, ns1, rw)
       /\ v \in Blocks \ p1.held /\ v[1] = "pair" /\ p2.mem[v] = val
       /\ p2.held = p1.held \cup {v}
       /\ \A a \in p1.held : p2.mem[a] = p1.mem[a]
  <2>1. Sound(p1, own1, ent, es, ns1, pop, rw, T1) /\ p2 = New(p1, "pair", val)
    BY <1>15, <1>19
  <2>2. /\ Sound(p2, Tag(own1, v, TMP), ent, es, ns1, pop, rw, T1 \cup {v})
        /\ SameVals(p1, p2, ent, ns1, rw)
        /\ v \in Blocks \ p1.held /\ v[1] = "pair" /\ v \notin T1
        /\ p2.held = p1.held \cup {v}
        /\ p2.mem[v] = val
        /\ \A a \in p1.held : p2.mem[a] = p1.mem[a]
    BY ONLY <1>17, <2>1, TmpNew
  <2> QED
    BY <1>19, <1>20, <2>2
<1>22. /\ n # st /\ n # d /\ st # d /\ v \notin {n, st, d} /\ c \notin {n, st, d}
       /\ {n, st, d} \subseteq p.held
  BY <1>3, <1>8, <1>16, <1>21 DEF Has
<1>23. p2.mem[st].addr = d /\ p2.mem[d] = p.mem[d]
  <2>1. p2.mem[st] = p.mem[st] /\ p2.mem[d] = p.mem[d]
    BY <1>16, <1>21, <1>22
  <2> QED
    BY <1>7, <2>1
<1>24. ListDone(p, p2, ent, ns, pop, rw, T2, k, texts)
  <2>1. OthersRead(p, ent, ns, p1, ent, ns1, k) /\ SameVals(p1, p2, ent, ns1, rw)
    BY <1>15, <1>21
  <2>2. OthersRead(p, ent, ns, p2, ent, ns1, k)
    BY ONLY <2>1, ReadAfter
  <2>3. p1.mem[ent[k]].val.type = CHAIN
    BY <1>15, ListKind
  <2>4. AbsVal(p2, ent[k], ns1[k]) = AbsVal(p1, ent[k], ns1[k]) /\ p2.mem[ent[k]].val.type = CHAIN
    BY <1>21, <2>3 DEF SameVals
  <2>5. ReadsList(p2, ent, ns1, k, texts)
    BY <1>15, <2>4 DEF ReadsList
  <2> QED
    BY <1>21, <2>2, <2>5 DEF ListDone
<1>25. PICK p3, T3 : p3 = Free(p2, d) /\ T3 = T2 \ {d}
  OBVIOUS
<1>26. PICK p4, T4 : p4 = Free(p3, st) /\ T4 = T3 \ {st}
  OBVIOUS
<1>27. PICK T5 : T5 = T4 \ {n}
  OBVIOUS
<1>28. T2 = {n, st, d, v} /\ T5 = {v} /\ d \in T2 /\ st \in T3 /\ n \in T4
  <2>1. T2 = {n, st, d, v}
    BY <1>11, <1>19
  <2>2. T3 = {n, st, v} /\ T4 = {n, v}
    BY <1>22, <1>25, <1>26, <2>1
  <2> QED
    BY <1>22, <1>27, <2>1, <2>2
<1>29. q = Free(p4, n)
  <2>1. p.mem[c].header = n /\ p.mem[n].next = At(s, 2) /\ p.mem[n].val = val
    BY <1>3, <1>4, <1>8, <1>18
  <2>2. val.type = STR /\ val.addr = st
    BY <1>18 DEF Val
  <2>3. q = Free(touchdb_val_destroy(New(p1, "pair", val), val), n)
    BY <1>10, <2>1 DEF touchdb_chain_pull_head, Unlinked
  <2>4. touchdb_val_destroy(p2, val) = p4
    BY <1>23, <1>25, <1>26, <2>2 DEF touchdb_val_destroy, touchdb_str_destory
  <2> QED
    BY <1>19, <2>3, <2>4
<1>30. ListDone(p, p3, ent, ns, pop, rw, T3, k, texts)
  <2>1. d \in T2 /\ k \in Keys
    BY <1>28
  <2> QED
    BY ONLY <1>24, <1>25, <2>1, FreeLastList
<1>31. ListDone(p, p4, ent, ns, pop, rw, T4, k, texts)
  <2>1. st \in T3 /\ k \in Keys
    BY <1>28
  <2> QED
    BY ONLY <1>26, <1>30, <2>1, FreeLastList
<1>32. ListDone(p, q, ent, ns, pop, rw, T5, k, texts)
  <2>1. n \in T4 /\ k \in Keys
    BY <1>28
  <2> QED
    BY ONLY <1>27, <1>29, <1>31, <2>1, FreeLastList
<1>33. PICK own3, ent3, es3, ns3 :
         /\ Sound(q, own3, ent3, es3, ns3, pop, rw, T5)
         /\ OthersRead(p, ent, ns, q, ent3, ns3, k)
         /\ ReadsList(q, ent3, ns3, k, texts)
  BY <1>32 DEF ListDone
<1>34. PICK own4 : own4 = Tag(own3, v, POPPED)
  OBVIOUS
<1>35. Sound(q, own4, ent3, es3, ns3, pop2, rw, T)
  <2>1. Sound(q, own3, ent3, es3, ns3, pop, rw, T5) /\ v \in T5 /\ v[1] = "pair" /\ T5 = {v}
    BY <1>21, <1>28, <1>33
  <2>2. Sound(q, own4, ent3, es3, ns3, pop \cup {v}, rw, {})
    BY ONLY <1>34, <2>1, PopDone
  <2>3. pop2 = pop \cup {v} /\ T = {}
    BY DEF Joined
  <2> QED
    BY ONLY <2>2, <2>3
<1>36. ListDone(p, q, ent, ns, pop2, rw, T, k, texts)
  BY <1>33, <1>35 DEF ListDone
<1>37. q.mem = p2.mem
  <2>1. p3.mem = p2.mem /\ p4.mem = p3.mem /\ q.mem = p4.mem
    <3>1. PoolOK(p2) /\ d \in p2.held /\ st \in p2.held /\ n \in p2.held
      BY <1>16, <1>21, <1>22 DEF Sound, MapOK
    <3>2. PoolOK(p3) /\ p3.held = p2.held \ {d} /\ p3.mem = p2.mem
      BY <1>25, <3>1, FreeKeeps
    <3>3. PoolOK(p4) /\ p4.held = p3.held \ {st} /\ p4.mem = p3.mem
      <4>1. st \in p3.held
        BY <1>22, <3>1, <3>2
      <4> QED
        BY <1>26, <3>2, <4>1, FreeKeeps
    <3>4. n \in p4.held
      BY <1>22, <3>1, <3>2, <3>3
    <3> QED
      BY <1>29, <3>2, <3>3, <3>4, FreeKeeps
  <2> QED
    BY <2>1
<1>38. touchdb_str_data(q, q.mem[v]) = p.mem[d]
  <2>1. q.mem[v] = val /\ val.addr = st /\ st[1] = "pair" /\ q.mem[st].addr = d /\ d[1] = "text"
    BY <1>8, <1>18, <1>21, <1>23, <1>37, SMTT(30) DEF Has, Val
  <2> QED
    BY <1>23, <1>37, <2>1 DEF touchdb_str_data, ReadText
<1>39. TextsAt(p, s)[1] = p.mem[d]
  BY <1>3, <1>4, <1>6, <1>7, Zenon DEF TextsAt
<1> QED
  BY <1>1, <1>3, <1>36, <1>38, <1>39 DEF PopIs

-----------------------------------------------------------------------------
(* What a call does, without the ghosts. *)

InvAt(p, pop, rw) ==
  rw \in BOOLEAN /\ \E own, ent, es, ns : Sound(p, own, ent, es, ns, pop, rw, {})

OthersView(p, q, k) == \A m \in Stable \ {k} : Value(q, m) = Value(p, m)

TextRead(q, k, c, t) ==
  LET e == get_entry(q, k) IN
  /\ e # NIL /\ q.mem[e].val.type = STR
  /\ (IF c = "pair" THEN touchdb_str_data(q, q.mem[e].val) ELSE ReadText(q, q.mem[e].val.addr)) = t

(* The call of key k leads from p to q, and binds k to the text t. *)
StepText(p, q, pop, rw, k, c, t) ==
  /\ InvAt(q, pop, rw) /\ OthersView(p, q, k) /\ TextRead(q, k, c, t)
  /\ k \in Stable => Value(q, k) = [kind |-> "text", text |-> t]

(* The call of key k leads from p to q, and leaves k the list texts. *)
StepList(p, q, pop, rw, k, texts) ==
  /\ InvAt(q, pop, rw) /\ OthersView(p, q, k)
  /\ k \in Stable => Value(q, k) = [kind |-> "list", texts |-> texts]

(* What a client reads of a key that is never rewritten is the value that  *)
(* its blocks hold.                                                        *)
LEMMA StableReads ==
  ASSUME NEW p, NEW own, NEW ent, NEW es, NEW ns, NEW pop, NEW rw, NEW T,
         Sound(p, own, ent, es, ns, pop, rw, T), NEW k \in Stable
  PROVE  Value(p, k) = AbsVal(p, ent[k], ns[k])
<1>1. MapOK(p, own, ent, es, ns, rw) /\ k \in Keys /\ Kept(k, rw)
  BY DEF Sound, Stable, Kept
<1> QED
  BY <1>1, ValueIs

(* The other keys read for a client what they did, when their blocks do. *)
LEMMA OthersViewIs ==
  ASSUME NEW p, NEW own, NEW ent, NEW es, NEW ns, NEW pop, NEW rw, NEW T,
         Sound(p, own, ent, es, ns, pop, rw, T),
         NEW q, NEW own2, NEW ent2, NEW es2, NEW ns2, NEW pop2, NEW rw2, NEW T2,
         Sound(q, own2, ent2, es2, ns2, pop2, rw2, T2),
         NEW k, OthersRead(p, ent, ns, q, ent2, ns2, k)
  PROVE  OthersView(p, q, k)
<1> SUFFICES ASSUME NEW m \in Stable, m # k PROVE Value(q, m) = Value(p, m)
  BY DEF OthersView
<1>1. Value(p, m) = AbsVal(p, ent[m], ns[m])
  BY StableReads
<1>2. Value(q, m) = AbsVal(q, ent2[m], ns2[m])
  BY StableReads
<1> QED
  BY <1>1, <1>2 DEF OthersRead

(* The change of a text, told without the tables that the proof keeps. *)
LEMMA TextStep ==
  ASSUME NEW p, NEW own, NEW ent, NEW es, NEW ns, NEW pop, NEW rw, NEW T, T = {},
         Sound(p, own, ent, es, ns, pop, rw, T), NEW k \in Keys, NEW rw2 \in BOOLEAN,
         NEW q, NEW c, c \in {"pair", "text"}, NEW t, PutDone(p, q, ent, ns, pop, rw2, T, k, c, t)
  PROVE  StepText(p, q, pop, rw2, k, c, t)
<1>1. PICK own2, ent2, es2, ns2 :
        /\ Sound(q, own2, ent2, es2, ns2, pop, rw2, T)
        /\ OthersRead(p, ent, ns, q, ent2, ns2, k)
        /\ ReadsText(q, ent2, k, c, t)
  BY DEF PutDone
<1>2. InvAt(q, pop, rw2)
  BY <1>1 DEF InvAt
<1>3. OthersView(p, q, k)
  <2>1. Sound(p, own, ent, es, ns, pop, rw, T)
    OBVIOUS
  <2>2. Sound(q, own2, ent2, es2, ns2, pop, rw2, T) /\ OthersRead(p, ent, ns, q, ent2, ns2, k)
    BY <1>1
  <2> QED
    BY ONLY <2>1, <2>2, OthersViewIs
<1>4. PICK e : e = ent2[k]
  OBVIOUS
<1>5. PICK a : a = q.mem[e].val.addr
  BY SMTT(30)
<1>6. /\ e # NIL /\ q.mem[e].val = Val(STR, a) /\ a[1] = c
      /\ IF c = "pair" THEN q.mem[a].addr[1] = "text" /\ q.mem[q.mem[a].addr] = t
                       ELSE q.mem[a] = t
  BY <1>1, <1>4, <1>5 DEF ReadsText
<1>7. get_entry(q, k) = e
  <2>1. MapOK(q, own2, ent2, es2, ns2, rw2)
    BY <1>1 DEF Sound
  <2> QED
    BY <1>4, <2>1, GetEntry
<1>8. Val(STR, a).type = STR /\ Val(STR, a).addr = a /\ Val(STR, a).type # CHAIN
  BY DEF Val, STR, CHAIN
<1>9. TextRead(q, k, c, t)
  <2>1. CASE c = "pair"
    BY <1>6, <1>7, <1>8, <2>1 DEF TextRead, touchdb_str_data, ReadText
  <2>2. CASE c = "text"
    BY <1>6, <1>7, <1>8, <2>2 DEF TextRead, ReadText
  <2> QED
    BY <2>1, <2>2
<1>10. ASSUME k \in Stable PROVE Value(q, k) = [kind |-> "text", text |-> t]
  <2>1. Value(q, k) = AbsVal(q, e, ns2[k])
    BY <1>1, <1>4, <1>10, StableReads
  <2>2. TextOf(q, Val(STR, a)) = t
    <3>1. CASE c = "pair"
      BY <1>6, <1>8, <3>1 DEF TextOf
    <3>2. CASE c = "text"
      BY <1>6, <1>8, <3>2 DEF TextOf
    <3> QED
      BY <3>1, <3>2
  <2>3. AbsVal(q, e, ns2[k]) = [kind |-> "text", text |-> t]
    BY <1>6, <1>8, <2>2 DEF AbsVal, AbsOf
  <2> QED
    BY <2>1, <2>3
<1> QED
  BY <1>2, <1>3, <1>9, <1>10 DEF StepText

(* The change of a list, told without the tables that the proof keeps. *)
LEMMA ListStep ==
  ASSUME NEW p, NEW own, NEW ent, NEW es, NEW ns, NEW pop, NEW rw, NEW T, T = {},
         Sound(p, own, ent, es, ns, pop, rw, T), NEW k \in Keys, NEW rw2 \in BOOLEAN,
         NEW q, NEW pop2, NEW texts, ListDone(p, q, ent, ns, pop2, rw2, T, k, texts)
  PROVE  StepList(p, q, pop2, rw2, k, texts)
<1>1. PICK own2, ent2, es2, ns2 :
        /\ Sound(q, own2, ent2, es2, ns2, pop2, rw2, T)
        /\ OthersRead(p, ent, ns, q, ent2, ns2, k)
        /\ ReadsList(q, ent2, ns2, k, texts)
  BY DEF ListDone
<1>2. InvAt(q, pop2, rw2)
  BY <1>1 DEF InvAt
<1>3. OthersView(p, q, k)
  <2>1. Sound(p, own, ent, es, ns, pop, rw, T)
    OBVIOUS
  <2>2. Sound(q, own2, ent2, es2, ns2, pop2, rw2, T) /\ OthersRead(p, ent, ns, q, ent2, ns2, k)
    BY <1>1
  <2> QED
    BY ONLY <2>1, <2>2, OthersViewIs
<1>4. ASSUME k \in Stable PROVE Value(q, k) = [kind |-> "list", texts |-> texts]
  <2>1. Value(q, k) = AbsVal(q, ent2[k], ns2[k])
    BY <1>1, <1>4, StableReads
  <2> QED
    BY <1>1, <2>1 DEF ReadsList
<1> QED
  BY <1>2, <1>3, <1>4 DEF StepList

(* touchdb_put_str, told without the tables that the proof keeps. *)
LEMMA PutStrStep ==
  ASSUME NEW p, NEW pop, NEW rw, InvAt(p, pop, rw), NEW k \in Keys,
         k \in RewriteKeys \/ ~touchdb_map_contains(p, k),
         NEW rw2, rw2 = (rw \/ touchdb_map_contains(p, k)), NEW t,
         NEW v, v = Blk(p, "pair"), NEW p1, p1 = new_str_val(p, t),
         NEW q, q = Free(touchdb_map_put2(p1, k, p1.mem[v]), v), NEW c, c = "pair"
  PROVE  StepText(p, q, pop, rw2, k, c, t)
<1>1. PICK T : T = {}
  OBVIOUS
<1>2. PICK own, ent, es, ns : Sound(p, own, ent, es, ns, pop, rw, T)
  BY <1>1 DEF InvAt
<1>3. Rewrote(rw, rw2, ent[k], k) /\ rw2 \in BOOLEAN
  <2>1. MapOK(p, own, ent, es, ns, rw)
    BY <1>2 DEF Sound
  <2>2. get_entry(p, k) = ent[k]
    BY <2>1, GetEntry
  <2> QED
    BY <2>2 DEF Rewrote, InvAt, touchdb_map_contains
<1>4. k \in Keys /\ v = Blk(p, "pair") /\ p1 = new_str_val(p, t)
      /\ q = Free(touchdb_map_put2(p1, k, p1.mem[v]), v)
  OBVIOUS
<1>5. PutDone(p, q, ent, ns, pop, rw2, T, k, "pair", t)
  BY ONLY <1>1, <1>2, <1>3, <1>4, PutStr
<1>6. PutDone(p, q, ent, ns, pop, rw2, T, k, c, t) /\ c \in {"pair", "text"} /\ T = {}
  BY <1>1, <1>5
<1> QED
  BY ONLY <1>2, <1>3, <1>4, <1>6, TextStep

(* touchdb_put, told without the tables that the proof keeps. *)
LEMMA PutRawStep ==
  ASSUME NEW p, NEW pop, NEW rw, InvAt(p, pop, rw), NEW k \in Keys,
         k \in RewriteKeys \/ ~touchdb_map_contains(p, k),
         NEW rw2, rw2 = (rw \/ touchdb_map_contains(p, k)), NEW t,
         NEW q, q = touchdb_map_put(p, k, t), NEW c, c = "text"
  PROVE  StepText(p, q, pop, rw2, k, c, t)
<1>1. PICK T : T = {}
  OBVIOUS
<1>2. PICK own, ent, es, ns : Sound(p, own, ent, es, ns, pop, rw, T)
  BY <1>1 DEF InvAt
<1>3. Rewrote(rw, rw2, ent[k], k) /\ rw2 \in BOOLEAN
  <2>1. MapOK(p, own, ent, es, ns, rw)
    BY <1>2 DEF Sound
  <2>2. get_entry(p, k) = ent[k]
    BY <2>1, GetEntry
  <2> QED
    BY <2>2 DEF Rewrote, InvAt, touchdb_map_contains
<1>4. k \in Keys /\ q = touchdb_map_put(p, k, t)
  OBVIOUS
<1>5. PutDone(p, q, ent, ns, pop, rw2, T, k, "text", t)
  BY ONLY <1>1, <1>2, <1>3, <1>4, PutRaw
<1>6. PutDone(p, q, ent, ns, pop, rw2, T, k, c, t) /\ c \in {"pair", "text"} /\ T = {}
  BY <1>1, <1>5
<1> QED
  BY ONLY <1>2, <1>3, <1>4, <1>6, TextStep

(* The list old, when old is a list, with t behind it. *)
Longer(old, t) == IF old.kind = "list" THEN Append(old.texts, t) ELSE <<t>>

(* The call of key k leads from p to q, and pushes the text t. *)
StepPush(p, q, pop, rw, k, t) ==
  \E texts : /\ StepList(p, q, pop, rw, k, texts)
             /\ k \in Stable => texts = Longer(Value(p, k), t)

(* The call of key k leads from p to q, and pops the text t. *)
StepPop(p, q, pop, rw, k, t) ==
  \E texts : /\ StepList(p, q, pop, rw, k, texts)
             /\ k \in Stable => /\ Value(p, k).kind = "list" /\ Value(p, k).texts # <<>>
                                /\ t = Head(Value(p, k).texts)
                                /\ texts = Tail(Value(p, k).texts)

(* The chain of a key is the one that its entry names. *)
LEMMA ChainIs ==
  ASSUME NEW p, NEW own, NEW ent, NEW es, NEW ns, NEW pop, NEW rw, NEW T,
         Sound(p, own, ent, es, ns, pop, rw, T), NEW k \in Keys, NEW c, c = get_chain(p, k)
  PROVE  /\ c # NIL => ent[k] # NIL /\ p.mem[ent[k]].val = Val(CHAIN, c)
         /\ c = NIL => ent[k] = NIL \/ p.mem[ent[k]].val.type # CHAIN
<1>1. PICK e : e = ent[k]
  OBVIOUS
<1>2. get_entry(p, k) = e
  <2>1. MapOK(p, own, ent, es, ns, rw)
    BY DEF Sound
  <2> QED
    BY <1>1, <2>1, GetEntry
<1>3. c = IF e # NIL /\ p.mem[e].val.type = CHAIN THEN p.mem[e].val.addr ELSE NIL
  BY <1>2 DEF get_chain
<1>4. CASE e # NIL /\ p.mem[e].val.type = CHAIN
  <2>1. ValueOK(p, own, p.mem[e].val, ns[k], k, Kept(k, rw)) /\ PoolOK(p)
    BY <1>1, <1>4 DEF Sound, MapOK, KeyOK
  <2>2. p.mem[e].val = Val(CHAIN, c)
    BY <1>3, <1>4, <2>1 DEF ValueOK
  <2>3. c \in p.held
    BY <1>3, <1>4, <2>1 DEF ValueOK, ListOK, Has
  <2>4. c # NIL
    <3>1. c \in Blocks
      BY <2>1, <2>3 DEF PoolOK, Carved
    <3> QED
      BY ONLY <3>1 DEF Blocks, Classes, NIL
  <2> QED
    BY <1>1, <1>4, <2>2, <2>4
<1>5. CASE ~(e # NIL /\ p.mem[e].val.type = CHAIN)
  BY <1>1, <1>3, <1>5
<1> QED
  BY <1>4, <1>5

(* The value that is pushed leaves the chain where it was. *)
LEMMA ChainStays ==
  ASSUME NEW p, NEW pop, NEW rw, InvAt(p, pop, rw), NEW k \in Keys, NEW t,
         NEW p1, p1 = new_str_val(p, t)
  PROVE  get_chain(p1, k) = get_chain(p, k)
<1>1. PICK own, ent, es, ns, T : Sound(p, own, ent, es, ns, pop, rw, T)
  BY DEF InvAt
<1>2. PICK v : v = Blk(p, "pair")
  OBVIOUS
<1>3. Strung(p, p1, ent, es, ns, pop, rw, T, v, t)
  <2>1. p1 = new_str_val(p, t)
    OBVIOUS
  <2> QED
    BY ONLY <1>1, <1>2, <2>1, StrMade
<1>4. PICK own1, T1 : Sound(p1, own1, ent, es, ns, pop, rw, T1) /\ SameVals(p, p1, ent, ns, rw)
  BY <1>3 DEF Strung
<1>5. get_entry(p, k) = ent[k] /\ get_entry(p1, k) = ent[k]
  <2>1. MapOK(p, own, ent, es, ns, rw) /\ MapOK(p1, own1, ent, es, ns, rw)
    BY <1>1, <1>4 DEF Sound
  <2> QED
    BY <2>1, GetEntry
<1>6. ent[k] # NIL => p1.mem[ent[k]].val = p.mem[ent[k]].val
  BY <1>4 DEF SameVals
<1> QED
  BY <1>5, <1>6 DEF get_chain

(* touchdb_list_push of a key that has no list. *)
LEMMA PushNewStep ==
  ASSUME NEW p, NEW pop, NEW rw, InvAt(p, pop, rw), NEW k \in Keys,
         k \in RewriteKeys \/ ~touchdb_map_contains(p, k), get_chain(p, k) = NIL,
         NEW rw2, rw2 = (rw \/ touchdb_map_contains(p, k)), NEW t,
         NEW v, v = Blk(p, "pair"), NEW p1, p1 = new_str_val(p, t),
         NEW q, q = Free(list_push_new(p1, k, p1.mem[v]), v)
  PROVE  StepPush(p, q, pop, rw2, k, t)
<1>1. PICK T : T = {}
  OBVIOUS
<1>2. PICK own, ent, es, ns : Sound(p, own, ent, es, ns, pop, rw, T)
  BY <1>1 DEF InvAt
<1>3. Rewrote(rw, rw2, ent[k], k) /\ rw2 \in BOOLEAN
  <2>1. MapOK(p, own, ent, es, ns, rw)
    BY <1>2 DEF Sound
  <2>2. get_entry(p, k) = ent[k]
    BY <2>1, GetEntry
  <2> QED
    BY <2>2 DEF Rewrote, InvAt, touchdb_map_contains
<1>4. k \in Keys /\ v = Blk(p, "pair") /\ p1 = new_str_val(p, t)
      /\ q = Free(list_push_new(p1, k, p1.mem[v]), v)
  OBVIOUS
<1>5. PICK texts : texts = <<t>>
  OBVIOUS
<1>6. IsAlone(texts, t)
  BY <1>5 DEF IsAlone
<1>7. ListDone(p, q, ent, ns, pop, rw2, T, k, texts)
  BY ONLY <1>1, <1>2, <1>3, <1>4, <1>6, PushNew
<1>8. StepList(p, q, pop, rw2, k, texts)
  BY ONLY <1>1, <1>2, <1>3, <1>4, <1>7, ListStep
<1>9. ASSUME k \in Stable PROVE texts = Longer(Value(p, k), t)
  <2>1. Value(p, k) = AbsVal(p, ent[k], ns[k])
    BY <1>2, <1>9, StableReads
  <2>2. ent[k] = NIL \/ p.mem[ent[k]].val.type # CHAIN
    <3>1. PICK c : c = get_chain(p, k)
      OBVIOUS
    <3> QED
      BY <1>2, <3>1, ChainIs
  <2>3. AbsVal(p, ent[k], ns[k]).kind # "list"
    BY <2>2 DEF AbsVal, AbsOf
  <2> QED
    BY <1>5, <2>1, <2>3 DEF Longer
<1> QED
  BY <1>8, <1>9 DEF StepPush

(* touchdb_list_push of a key that has a list. *)
LEMMA PushOldStep ==
  ASSUME NEW p, NEW pop, NEW rw, InvAt(p, pop, rw), NEW k \in Keys,
         NEW c, c = get_chain(p, k), c # NIL, NEW t,
         NEW v, v = Blk(p, "pair"), NEW p1, p1 = new_str_val(p, t),
         NEW q, q = Free(touchdb_chain_push_tail(p1, c, p1.mem[v]), v)
  PROVE  StepPush(p, q, pop, rw, k, t)
<1>1. PICK T : T = {}
  OBVIOUS
<1>2. PICK own, ent, es, ns : Sound(p, own, ent, es, ns, pop, rw, T)
  BY <1>1 DEF InvAt
<1>3. rw \in BOOLEAN
  BY DEF InvAt
<1>4. ent[k] # NIL /\ p.mem[ent[k]].val = Val(CHAIN, c)
  BY <1>2, ChainIs
<1>5. k \in Keys /\ v = Blk(p, "pair") /\ p1 = new_str_val(p, t)
      /\ q = Free(touchdb_chain_push_tail(p1, c, p1.mem[v]), v)
  OBVIOUS
<1>6. PICK texts : texts = Append(TextsAt(p, ns[k]), t)
  OBVIOUS
<1>7. IsLonger(texts, TextsAt(p, ns[k]), t)
  BY <1>6 DEF IsLonger
<1>8. ListDone(p, q, ent, ns, pop, rw, T, k, texts)
  BY ONLY <1>1, <1>2, <1>3, <1>4, <1>5, <1>7, PushOld
<1>9. StepList(p, q, pop, rw, k, texts)
  BY ONLY <1>1, <1>2, <1>3, <1>5, <1>8, ListStep
<1>10. ASSUME k \in Stable PROVE texts = Longer(Value(p, k), t)
  <2>1. Value(p, k) = AbsVal(p, ent[k], ns[k])
    BY <1>2, <1>10, StableReads
  <2>2. AbsVal(p, ent[k], ns[k]) = [kind |-> "list", texts |-> TextsAt(p, ns[k])]
    BY <1>4 DEF AbsVal, AbsOf, Val
  <2> QED
    BY <1>6, <2>1, <2>2 DEF Longer
<1> QED
  BY <1>9, <1>10 DEF StepPush

(* touchdb_list_pop of a key that has a list with a text. *)
LEMMA PopStep ==
  ASSUME NEW p, NEW pop, NEW rw, InvAt(p, pop, rw), NEW k \in Keys,
         NEW c, c = get_chain(p, k), c # NIL, p.mem[c].header # NIL,
         NEW q, q = touchdb_chain_pull_head(p, c), NEW v, v = Blk(p, "pair"),
         NEW pop2, pop2 = pop \cup {v}, NEW t, t = touchdb_str_data(q, q.mem[v])
  PROVE  StepPop(p, q, pop2, rw, k, t)
<1>1. PICK T : T = {}
  OBVIOUS
<1>2. PICK own, ent, es, ns : Sound(p, own, ent, es, ns, pop, rw, T)
  BY <1>1 DEF InvAt
<1>3. rw \in BOOLEAN
  BY DEF InvAt
<1>4. ent[k] # NIL /\ p.mem[ent[k]].val = Val(CHAIN, c)
  BY <1>2, ChainIs
<1>5. k \in Keys /\ v = Blk(p, "pair") /\ q = touchdb_chain_pull_head(p, c)
      /\ p.mem[c].header # NIL /\ pop2 = pop \cup {v}
  OBVIOUS
<1>6. PICK old, texts : old = TextsAt(p, ns[k]) /\ texts = Tail(old)
  OBVIOUS
<1>7. IsRest(texts, TextsAt(p, ns[k]))
  BY <1>6 DEF IsRest
<1>8. /\ ListDone(p, q, ent, ns, pop2, rw, T, k, texts)
      /\ Len(ns[k]) \in Nat /\ Len(ns[k]) # 0
      /\ touchdb_str_data(q, q.mem[v]) = TextsAt(p, ns[k])[1]
  <2>1. rw \in BOOLEAN /\ ent[k] # NIL /\ p.mem[c].header # NIL
    BY <1>3, <1>4
  <2>2. p.mem[ent[k]].val = Val(CHAIN, c)
    BY <1>4
  <2>3. k \in Keys /\ v = Blk(p, "pair") /\ q = touchdb_chain_pull_head(p, c)
    OBVIOUS
  <2>4. Joined(pop2, pop, v)
    BY DEF Joined
  <2>5. PopIs(p, q, ent, ns, pop2, rw, T, k, v, texts)
    BY ONLY <1>1, <1>2, <1>7, <2>1, <2>2, <2>3, <2>4, Pop
  <2> QED
    BY <2>5 DEF PopIs
<1>9. StepList(p, q, pop2, rw, k, texts)
  BY ONLY <1>1, <1>2, <1>3, <1>5, <1>8, ListStep
<1>10. t = Head(old) /\ old # <<>>
  <2>1. t = old[1]
    BY <1>6, <1>8
  <2>2. \E x : x = Len(ns[k])
    OBVIOUS
  <2>3. PICK x : x = Len(ns[k])
    BY <2>2
  <2>4. PICK f : f = [i \in 1 .. x |-> p.mem[p.mem[p.mem[ns[k][i]].val.addr].addr]]
    BY ZenonT(40)
  <2>5. x \in Nat /\ x # 0 /\ old = f
    BY <1>6, <1>8, <2>3, <2>4, Zenon DEF TextsAt
  <2>6. f \in [1 .. x -> {f[i] : i \in 1 .. x}]
    BY <2>4, Zenon
  <2>7. f \in Seq({f[i] : i \in 1 .. x}) /\ Len(f) = x
    BY ONLY <2>5, <2>6, FunctionIsSeq
  <2>8. Len(old) # 0 /\ old # <<>> /\ Head(old) = old[1]
    BY <2>5, <2>7
  <2> QED
    BY <2>1, <2>8
<1>11. ASSUME k \in Stable
       PROVE  /\ Value(p, k).kind = "list" /\ Value(p, k).texts # <<>>
              /\ t = Head(Value(p, k).texts)
              /\ texts = Tail(Value(p, k).texts)
  <2>1. Value(p, k) = AbsVal(p, ent[k], ns[k])
    BY <1>2, <1>11, StableReads
  <2>2. AbsVal(p, ent[k], ns[k]) = [kind |-> "list", texts |-> old]
    BY <1>4, <1>6 DEF AbsVal, AbsOf, Val
  <2> QED
    BY <1>6, <1>10, <2>1, <2>2
<1> QED
  BY <1>9, <1>11 DEF StepPop

(* A pop that returns nothing finds no list, or an empty one. *)
LEMMA PopNothingStep ==
  ASSUME NEW p, NEW pop, NEW rw, InvAt(p, pop, rw), NEW k \in Stable,
         NEW c, c = get_chain(p, k), c = NIL \/ p.mem[c].header = NIL
  PROVE  Value(p, k).kind = "list" => Value(p, k).texts = <<>>
<1>1. PICK own, ent, es, ns, T : Sound(p, own, ent, es, ns, pop, rw, T)
  BY DEF InvAt
<1>2. k \in Keys
  BY DEF Stable
<1>3. Value(p, k) = AbsVal(p, ent[k], ns[k])
  BY <1>1, StableReads
<1>4. CASE c = NIL
  <2>1. c = get_chain(p, k)
    OBVIOUS
  <2>2. ent[k] = NIL \/ p.mem[ent[k]].val.type # CHAIN
    BY ONLY <1>1, <1>2, <1>4, <2>1, ChainIs
  <2> QED
    BY <1>3, <2>2 DEF AbsVal, AbsOf
<1>5. CASE c # NIL /\ p.mem[c].header = NIL
  <2>1. ent[k] # NIL /\ p.mem[ent[k]].val = Val(CHAIN, c)
    BY <1>1, <1>2, <1>5, ChainIs
  <2>2. PICK s : s = ns[k]
    OBVIOUS
  <2>3. ListOK(p, own, c, s, k) /\ PoolOK(p)
    <3>1. ValueOK(p, own, p.mem[ent[k]].val, s, k, Kept(k, rw)) /\ PoolOK(p)
      BY <1>1, <1>2, <2>1, <2>2 DEF Sound, MapOK, KeyOK
    <3> QED
      BY <2>1, <3>1 DEF ValueOK, Val
  <2>4. s \in Seq(Blocks) /\ p.mem[c].header = At(s, 1)
    BY <2>3 DEF ListOK
  <2>5. Len(s) = 0
    <3> SUFFICES ASSUME Len(s) # 0 PROVE FALSE
      OBVIOUS
    <3>1. 1 \in 1 .. Len(s)
      BY <2>4
    <3>2. s[1] \in Blocks /\ At(s, 1) = s[1]
      BY <2>4, <3>1 DEF At
    <3> QED
      BY <1>5, <2>4, <3>2 DEF Blocks, Classes, NIL
  <2>6. TextsAt(p, s) = <<>>
    BY <2>5 DEF TextsAt
  <2> QED
    BY <1>3, <2>1, <2>2, <2>6 DEF AbsVal, AbsOf, Val
<1> QED
  BY <1>4, <1>5

-----------------------------------------------------------------------------
(* The invariant. *)

(* The database is sound, the view is what its clients can read, and the   *)
(* last put is read back.                                                  *)
DbInv ==
  /\ InvAt(db, popped, rewritten)
  /\ view = [k \in Keys |-> Value(db, k)]
  /\ ret = [k \in Keys |-> ret[k]]
  /\ ReadYourWrite

(* A new database, with the tables own, ent, es and ns of nothing. *)
IsEmpty(p) ==
  p = [mem |-> [b \in {NIL} |-> NIL], held |-> {}, fault |-> FALSE, map_size |-> 0,
       free |-> [c \in Classes |-> <<>>], fresh |-> [c \in Classes |-> 0],
       bulk |-> [i \in 0 .. BUCKETS - 1 |-> [header |-> NIL, tail |-> NIL, size |-> 0]]]

(* An empty table has no keys. *)
LEMMA EmptyTotal ==
  ASSUME NEW es, es = [i \in 0 .. BUCKETS - 1 |-> <<>>]
  PROVE  Total(es) = 0
<1>1. \A i \in 0 .. BUCKETS - 1 : Len(es[i]) = 0
  OBVIOUS
<1>2. PICK f \in [0 .. BUCKETS -> Nat] :
        /\ f[0] = 0 /\ \A j \in 1 .. BUCKETS : f[j] = f[j - 1] + Len(es[j - 1])
        /\ Total(es) = f[BUCKETS]
  <2>1. \A i \in 0 .. BUCKETS - 1 : Len(es[i]) \in Nat
    BY <1>1
  <2> QED
    BY ONLY <2>1, TotalIs
<1>3. PICK g : g = [j \in 0 .. BUCKETS |-> 0]
  OBVIOUS
<1>4. BUCKETS \in Nat /\ BUCKETS # 0
  BY DbAssumption
<1>5. GoAlike(f, g, BUCKETS)
  <2>1. \A j \in 1 .. BUCKETS : Len(es[j - 1]) = 0 /\ f[j] = f[j - 1] + Len(es[j - 1])
    BY <1>1, <1>2, <1>4
  <2>2. \A j \in 1 .. BUCKETS : f[j - 1] \in Nat /\ f[j] = f[j - 1] /\ g[j] = 0 /\ g[j - 1] = 0
    <3> SUFFICES ASSUME NEW j \in 1 .. BUCKETS
                 PROVE  f[j - 1] \in Nat /\ f[j] = f[j - 1] /\ g[j] = 0 /\ g[j - 1] = 0
      OBVIOUS
    <3>1. j - 1 \in 0 .. BUCKETS /\ j \in 0 .. BUCKETS
      BY <1>4
    <3>2. f[j - 1] \in Nat
      BY <1>2, <3>1
    <3>3. g[j] = 0 /\ g[j - 1] = 0
      BY <1>3, <3>1
    <3> QED
      BY <2>1, <3>2, <3>3
  <2>3. f[0] = 0 /\ g[0] = 0
    BY <1>2, <1>3, <1>4
  <2> QED
    BY <2>2, <2>3 DEF GoAlike
<1>6. Alike(f, g, BUCKETS)
  BY <1>4, <1>5, SameSteps
<1> QED
  BY <1>2, <1>3, <1>4, <1>6 DEF Alike

(* A new database is sound. *)
LEMMA EmptySound ==
  ASSUME NEW p, IsEmpty(p), NEW rw, rw = FALSE, NEW pop, pop = {}
  PROVE  InvAt(p, pop, rw)
<1>1. PICK own, ent, es, ns :
        /\ own = [b \in Blocks |-> TMP] /\ ent = [k \in Keys |-> NIL]
        /\ es = [i \in 0 .. BUCKETS - 1 |-> <<>>] /\ ns = [k \in Keys |-> <<>>]
  OBVIOUS
<1>2. /\ p.held = {} /\ p.fault = FALSE /\ p.map_size = 0 /\ IsDb(p)
      /\ p.mem = [b \in {NIL} |-> NIL]
      /\ p.free = [c \in Classes |-> <<>>] /\ p.fresh = [c \in Classes |-> 0]
      /\ p.bulk = [i \in 0 .. BUCKETS - 1 |-> [header |-> NIL, tail |-> NIL, size |-> 0]]
  BY DEF IsEmpty, IsDb
<1>3. PoolOK(p)
  <2>1. Carved(p) = {}
    BY <1>2 DEF Carved, Blocks
  <2>2. p.mem = [b \in {NIL} \cup Carved(p) |-> p.mem[b]]
    BY <1>2, <2>1
  <2>3. p.fresh \in [Classes -> Nat] /\ p.free \in [Classes -> Seq(Blocks)]
    BY <1>2
  <2>4. \A c \in Classes : Len(p.free[c]) = 0
    BY <1>2
  <2> QED
    BY <1>2, <2>2, <2>3, <2>4 DEF PoolOK
<1>4. BucketsOK(p, ent, es)
  <2>1. ASSUME NEW i \in 0 .. BUCKETS - 1 PROVE BucketOK(p, i, ent, es[i])
    <3>1. es[i] = <<>> /\ p.bulk[i] = [header |-> NIL, tail |-> NIL, size |-> 0]
      BY <1>1, <1>2
    <3>2. Len(es[i]) = 0 /\ es[i] \in Seq(Keys)
      BY <3>1
    <3> QED
      BY <3>1, <3>2 DEF BucketOK, EntAt
  <2>2. p.map_size = Total(es)
    BY <1>1, <1>2, EmptyTotal
  <2> QED
    BY <1>1, <1>2, <2>1, <2>2 DEF BucketsOK
<1>5. MapOK(p, own, ent, es, ns, rw)
  BY <1>1, <1>3, <1>4 DEF MapOK, KeyOK
<1>6. PICK T : T = {}
  OBVIOUS
<1>7. Sound(p, own, ent, es, ns, pop, rw, T)
  BY <1>2, <1>5, <1>6 DEF Sound
<1> QED
  BY <1>6, <1>7 DEF InvAt

(* A new database satisfies the invariant. *)
LEMMA DbInitInv == DbInit => DbInv
<1> SUFFICES ASSUME DbInit PROVE DbInv
  OBVIOUS
<1>1. IsEmpty(db) /\ popped = {} /\ rewritten = FALSE
  BY DEF DbInit, IsEmpty
<1>2. InvAt(db, popped, rewritten)
  BY <1>1, EmptySound
<1>3. view = [k \in Keys |-> Value(db, k)] /\ ret = [k \in Keys |-> ret[k]]
  BY DEF DbInit
<1>4. ReadYourWrite
  BY DEF DbInit, ReadYourWrite
<1> QED
  BY <1>2, <1>3, <1>4 DEF DbInv

(* What the calls do, one by one. *)

(* The action touchdb_put_str. *)
LEMMA PutStrAct ==
  ASSUME DbInv, NEW k \in StrKeys, NEW t \in Texts, MayPut(k), touchdb_put_str(k, t), Rewrites(k)
  PROVE  /\ StepText(db, db', popped', rewritten', k, "pair", t)
         /\ ret' = ret /\ last' = [op |-> "put_str", key |-> k, text |-> t]
<1>1. PICK v, p1 : v = Blk(db, "pair") /\ p1 = new_str_val(db, t)
  OBVIOUS
<1>2. PICK q : q = Free(touchdb_map_put2(p1, k, p1.mem[v]), v)
  OBVIOUS
<1>3. PICK rw2 : rw2 = (rewritten \/ touchdb_map_contains(db, k))
  OBVIOUS
<1>4. InvAt(db, popped, rewritten) /\ k \in Keys
      /\ (k \in RewriteKeys \/ ~touchdb_map_contains(db, k))
  BY DEF DbInv, Keys, MayPut
<1>5. PICK c : c = "pair"
  OBVIOUS
<1>6. StepText(db, q, popped, rw2, k, c, t)
  BY ONLY <1>1, <1>2, <1>3, <1>4, <1>5, PutStrStep
<1>7. db' = q /\ ret' = ret /\ popped' = popped
  BY <1>1, <1>2 DEF touchdb_put_str
<1>8. rewritten' = rw2 /\ last' = [op |-> "put_str", key |-> k, text |-> t]
  BY <1>3 DEF touchdb_put_str, Rewrites, Call
<1> QED
  BY <1>5, <1>6, <1>7, <1>8

(* The action touchdb_put. *)
LEMMA PutRawAct ==
  ASSUME DbInv, NEW k \in RawKeys, NEW t \in Texts, MayPut(k), touchdb_put(k, t), Rewrites(k)
  PROVE  /\ StepText(db, db', popped', rewritten', k, "text", t)
         /\ ret' = ret /\ last' = [op |-> "put", key |-> k, text |-> t]
<1>1. PICK q : q = touchdb_map_put(db, k, t)
  OBVIOUS
<1>2. PICK rw2 : rw2 = (rewritten \/ touchdb_map_contains(db, k))
  OBVIOUS
<1>3. InvAt(db, popped, rewritten) /\ k \in Keys
      /\ (k \in RewriteKeys \/ ~touchdb_map_contains(db, k))
  BY DEF DbInv, Keys, MayPut
<1>4. PICK c : c = "text"
  OBVIOUS
<1>5. StepText(db, q, popped, rw2, k, c, t)
  BY ONLY <1>1, <1>2, <1>3, <1>4, PutRawStep
<1>6. db' = q /\ ret' = ret /\ popped' = popped
  BY <1>1 DEF touchdb_put
<1>7. rewritten' = rw2 /\ last' = [op |-> "put", key |-> k, text |-> t]
  BY <1>2 DEF touchdb_put, Rewrites, Call
<1> QED
  BY <1>4, <1>5, <1>6, <1>7

(* The action touchdb_list_push, of a key that has no chain. *)
LEMMA PushNewAct ==
  ASSUME DbInv, NEW k \in ListKeys, NEW t \in Texts, MayPut(k), get_chain(db, k) = NIL,
         touchdb_list_push(k, t), Rewrites(k)
  PROVE  /\ StepPush(db, db', popped', rewritten', k, t)
         /\ ret' = ret /\ last'.op = "list_push"
<1>1. PICK v, p1 : v = Blk(db, "pair") /\ p1 = new_str_val(db, t)
  OBVIOUS
<1>2. PICK q : q = Free(list_push_new(p1, k, p1.mem[v]), v)
  OBVIOUS
<1>3. PICK rw2 : rw2 = (rewritten \/ touchdb_map_contains(db, k))
  OBVIOUS
<1>4. InvAt(db, popped, rewritten) /\ k \in Keys /\ get_chain(db, k) = NIL
      /\ (k \in RewriteKeys \/ ~touchdb_map_contains(db, k))
  BY DEF DbInv, Keys, MayPut
<1>5. StepPush(db, q, popped, rw2, k, t)
  BY ONLY <1>1, <1>2, <1>3, <1>4, PushNewStep
<1>6. get_chain(p1, k) = NIL
  BY <1>1, <1>4, ChainStays
<1>7. db' = q /\ ret' = ret /\ popped' = popped
  BY <1>1, <1>2, <1>6 DEF touchdb_list_push
<1>8. rewritten' = rw2 /\ last'.op = "list_push"
  BY <1>3 DEF touchdb_list_push, Rewrites, Call
<1> QED
  BY <1>5, <1>7, <1>8

(* The action touchdb_list_push, of a key that has a chain. *)
LEMMA PushOldAct ==
  ASSUME DbInv, NEW k \in ListKeys, NEW t \in Texts, get_chain(db, k) # NIL,
         touchdb_list_push(k, t), UNCHANGED rewritten
  PROVE  /\ StepPush(db, db', popped', rewritten', k, t)
         /\ ret' = ret /\ last'.op = "list_push"
<1>1. PICK v, p1 : v = Blk(db, "pair") /\ p1 = new_str_val(db, t)
  OBVIOUS
<1>2. PICK c : c = get_chain(db, k)
  OBVIOUS
<1>3. PICK q : q = Free(touchdb_chain_push_tail(p1, c, p1.mem[v]), v)
  OBVIOUS
<1>4. InvAt(db, popped, rewritten) /\ k \in Keys /\ c # NIL
  BY <1>2 DEF DbInv, Keys
<1>5. StepPush(db, q, popped, rewritten, k, t)
  BY ONLY <1>1, <1>2, <1>3, <1>4, PushOldStep
<1>6. get_chain(p1, k) = c
  BY <1>1, <1>2, <1>4, ChainStays
<1>7. db' = q /\ ret' = ret /\ popped' = popped
  BY <1>1, <1>3, <1>4, <1>6 DEF touchdb_list_push
<1>8. rewritten' = rewritten /\ last'.op = "list_push"
  BY DEF touchdb_list_push, Call
<1> QED
  BY <1>5, <1>7, <1>8

(* Whether a pop of k finds no text. *)
NothingToPop(k) == get_chain(db, k) = NIL \/ db.mem[get_chain(db, k)].header = NIL

(* The action touchdb_list_pop, of a list that is not empty. *)
LEMMA PopAct ==
  ASSUME DbInv, NEW k \in ListKeys, ~NothingToPop(k), touchdb_list_pop(k), UNCHANGED rewritten
  PROVE  /\ \E t : StepPop(db, db', popped', rewritten', k, t) /\ ret' = [ret EXCEPT ![k] = t]
         /\ last'.op = "list_pop"
<1>1. PICK v, c : v = Blk(db, "pair") /\ c = get_chain(db, k)
  OBVIOUS
<1>2. PICK q : q = touchdb_chain_pull_head(db, c)
  OBVIOUS
<1>3. PICK pop2, t : pop2 = popped \cup {v} /\ t = touchdb_str_data(q, q.mem[v])
  OBVIOUS
<1>4. InvAt(db, popped, rewritten) /\ k \in Keys /\ c # NIL /\ db.mem[c].header # NIL
  BY <1>1 DEF DbInv, Keys, NothingToPop
<1>5. StepPop(db, q, pop2, rewritten, k, t)
  BY ONLY <1>1, <1>2, <1>3, <1>4, PopStep
<1>6. db' = q /\ ret' = [ret EXCEPT ![k] = t] /\ popped' = pop2
  BY <1>1, <1>2, <1>3, <1>4 DEF touchdb_list_pop
<1>7. rewritten' = rewritten /\ last'.op = "list_pop"
  BY DEF touchdb_list_pop, Call
<1> QED
  BY <1>5, <1>6, <1>7

(* The action touchdb_list_pop, of a key without a text to return. *)
LEMMA PopNothingAct ==
  ASSUME NEW k \in ListKeys, NothingToPop(k), touchdb_list_pop(k)
  PROVE  /\ db' = db /\ popped' = popped /\ ret' = [ret EXCEPT ![k] = None]
         /\ last'.op = "list_pop"
BY DEF touchdb_list_pop, Call, NothingToPop

(* The last put is read back. *)
LEMMA PutReadBack ==
  ASSUME NEW k, NEW t, NEW op,
         \/ op = "put_str" /\ TextRead(db', k, "pair", t)
         \/ op = "put" /\ TextRead(db', k, "text", t),
         last' = [op |-> op, key |-> k, text |-> t]
  PROVE  ReadYourWrite'
<1>1. CASE op = "put_str"
  <2>1. touchdb_get_str(k)' = t
    BY <1>1 DEF TextRead, touchdb_get_str
  <2> QED
    BY <1>1, <2>1 DEF ReadYourWrite, touchdb_get_str
<1>2. CASE op = "put"
  <2>1. touchdb_get(k)' = t
    BY <1>2 DEF TextRead, touchdb_get
  <2> QED
    BY <1>2, <2>1 DEF ReadYourWrite, touchdb_get
<1> QED
  BY <1>1, <1>2

(* Every call keeps the invariant. *)
LEMMA DbInvNext == DbInv /\ [DbNext]_dbVars => DbInv'
<1> SUFFICES ASSUME DbInv, [DbNext]_dbVars PROVE DbInv'
  OBVIOUS
<1>1. ASSUME InvAt(db', popped', rewritten'), view' = [k \in Keys |-> Value(db', k)],
             ret' = [k \in Keys |-> ret'[k]], ReadYourWrite'
      PROVE  DbInv'
  BY <1>1 DEF DbInv
<1>2. ASSUME last'.op # "put_str", last'.op # "put" PROVE ReadYourWrite'
  BY <1>2 DEF ReadYourWrite
<1>3. ret = [k \in Keys |-> ret[k]]
  BY DEF DbInv
<1>4. ASSUME NEW k \in Keys, NEW t, ret' = [ret EXCEPT ![k] = t]
      PROVE  ret' = [m \in Keys |-> ret'[m]]
  BY <1>3, <1>4
<1>5. CASE UNCHANGED dbVars
  BY <1>5 DEF dbVars, DbInv, ReadYourWrite, touchdb_get_str, touchdb_get
<1>6. CASE DbNext
  <2>0. view' = [k \in Keys |-> Value(db', k)]
    BY <1>6 DEF DbNext
  <2>1. ASSUME NEW k \in StrKeys, NEW t \in Texts, MayPut(k), touchdb_put_str(k, t), Rewrites(k)
        PROVE  DbInv'
    <3>1. /\ StepText(db, db', popped', rewritten', k, "pair", t)
          /\ ret' = ret /\ last' = [op |-> "put_str", key |-> k, text |-> t]
      BY <2>1, PutStrAct
    <3>2. InvAt(db', popped', rewritten') /\ TextRead(db', k, "pair", t)
      BY <3>1 DEF StepText
    <3>3. ReadYourWrite'
      BY <3>1, <3>2, PutReadBack
    <3> QED
      BY <1>1, <1>3, <2>0, <3>1, <3>2, <3>3
  <2>2. ASSUME NEW k \in RawKeys, NEW t \in Texts, MayPut(k), touchdb_put(k, t), Rewrites(k)
        PROVE  DbInv'
    <3>1. /\ StepText(db, db', popped', rewritten', k, "text", t)
          /\ ret' = ret /\ last' = [op |-> "put", key |-> k, text |-> t]
      BY <2>2, PutRawAct
    <3>2. InvAt(db', popped', rewritten') /\ TextRead(db', k, "text", t)
      BY <3>1 DEF StepText
    <3>3. ReadYourWrite'
      BY <3>1, <3>2, PutReadBack
    <3> QED
      BY <1>1, <1>3, <2>0, <3>1, <3>2, <3>3
  <2>3. ASSUME NEW k \in ListKeys, NEW t \in Texts, MayPut(k), get_chain(db, k) = NIL,
               touchdb_list_push(k, t), Rewrites(k)
        PROVE  DbInv'
    <3>1. StepPush(db, db', popped', rewritten', k, t) /\ ret' = ret /\ last'.op = "list_push"
      BY <2>3, PushNewAct
    <3>2. InvAt(db', popped', rewritten')
      BY <3>1 DEF StepPush, StepList
    <3>3. ReadYourWrite'
      BY <1>2, <3>1
    <3> QED
      BY <1>1, <1>3, <2>0, <3>1, <3>2, <3>3
  <2>4. ASSUME NEW k \in ListKeys, NEW t \in Texts, get_chain(db, k) # NIL,
               touchdb_list_push(k, t), UNCHANGED rewritten
        PROVE  DbInv'
    <3>1. StepPush(db, db', popped', rewritten', k, t) /\ ret' = ret /\ last'.op = "list_push"
      BY <2>4, PushOldAct
    <3>2. InvAt(db', popped', rewritten')
      BY <3>1 DEF StepPush, StepList
    <3>3. ReadYourWrite'
      BY <1>2, <3>1
    <3> QED
      BY <1>1, <1>3, <2>0, <3>1, <3>2, <3>3
  <2>5. ASSUME NEW k \in ListKeys, touchdb_list_pop(k), UNCHANGED rewritten
        PROVE  DbInv'
    <3>0. k \in Keys
      BY DEF Keys
    <3>1. CASE NothingToPop(k)
      <4>1. db' = db /\ popped' = popped /\ ret' = [ret EXCEPT ![k] = None] /\ last'.op = "list_pop"
        BY <2>5, <3>1, PopNothingAct
      <4>2. InvAt(db', popped', rewritten')
        BY <2>5, <4>1 DEF DbInv
      <4>3. ReadYourWrite' /\ ret' = [m \in Keys |-> ret'[m]]
        BY <1>2, <1>4, <3>0, <4>1
      <4> QED
        BY <1>1, <2>0, <4>2, <4>3
    <3>2. CASE ~NothingToPop(k)
      <4>1. PICK t : /\ StepPop(db, db', popped', rewritten', k, t)
                     /\ ret' = [ret EXCEPT ![k] = t] /\ last'.op = "list_pop"
        BY <2>5, <3>2, PopAct
      <4>2. InvAt(db', popped', rewritten')
        BY <4>1 DEF StepPop, StepList
      <4>3. ReadYourWrite' /\ ret' = [m \in Keys |-> ret'[m]]
        BY <1>2, <1>4, <3>0, <4>1
      <4> QED
        BY <1>1, <2>0, <4>2, <4>3
    <3> QED
      BY <3>1, <3>2
  <2> QED
    BY <1>6, <2>1, <2>2, <2>3, <2>4, <2>5 DEF DbNext
<1> QED
  BY <1>5, <1>6

(* DbInv holds in every state: whatever calls of touchdb.c are made, the   *)
(* map, the values and the pool stay sound, and every held block has one   *)
(* owner.                                                                  *)
THEOREM DbInvariant == DbSpec => []DbInv
<1>1. DbInit => DbInv
  BY DbInitInv
<1>2. DbInv /\ [DbNext]_dbVars => DbInv'
  BY DbInvNext
<1> QED
  BY <1>1, <1>2, PTL DEF DbSpec

-----------------------------------------------------------------------------
(* touchdb_iter. *)

(* The entries of the keys of a bucket. *)
EntriesOf(ent, I) == {ent[k] : k \in {m \in Keys : ent[m] # NIL /\ index_for(m) \in I}}

(* The entries of a bucket, as a sequence and as a set. *)
LEMMA BucketElements ==
  ASSUME NEW p, NEW own, NEW ent, NEW es, NEW ns, NEW rw, MapOK(p, own, ent, es, ns, rw),
         NEW i \in 0 .. BUCKETS - 1
  PROVE  /\ Entries(p, i) \in Seq(Blocks) /\ Len(Entries(p, i)) = Len(es[i])
         /\ Len(es[i]) \in Nat
         /\ Range(Entries(p, i)) = EntriesOf(ent, {i})
<1>1. PICK s, n : s = es[i] /\ n = Len(s)
  OBVIOUS
<1>2. BucketOK(p, i, ent, s)
  BY <1>1 DEF MapOK, BucketsOK
<1>3. s \in Seq(Keys) /\ n \in Nat
      /\ \A j \in 1 .. n : s[j] \in Keys /\ ent[s[j]] # NIL /\ index_for(s[j]) = i
  BY <1>1, <1>2 DEF BucketOK
<1>4. PICK f : f = [j \in 1 .. n |-> ent[s[j]]]
  OBVIOUS
<1>5. Entries(p, i) = f
  BY <1>1, <1>4, BucketEntries
<1>6. \A j \in 1 .. n : ent[s[j]] \in Blocks
  <2> SUFFICES ASSUME NEW j \in 1 .. n PROVE ent[s[j]] \in Blocks
    OBVIOUS
  <2>1. PICK k : k = s[j]
    OBVIOUS
  <2>2. k \in Keys /\ ent[k] # NIL
    BY <1>3, <2>1, SMTT(30)
  <2>3. ent[k] \in p.held /\ p.held \subseteq Blocks
    BY <2>2, Zenon DEF MapOK, KeyOK, EntryOK, Has, PoolOK, Carved
  <2> QED
    BY <2>1, <2>3
<1>7. f \in Seq(Blocks) /\ Len(f) = n
  <2>1. f \in [1 .. n -> Blocks] /\ n \in Nat
    BY <1>3, <1>4, <1>6
  <2> QED
    BY ONLY <2>1, FunctionIsSeq
<1>8. ASSUME NEW k \in Keys, ent[k] # NIL, index_for(k) = i
      PROVE  \E j \in 1 .. n : f[j] = ent[k]
  <2>1. \E j \in 1 .. n : s[j] = k
    BY <1>1, <1>8 DEF MapOK, BucketsOK
  <2> QED
    BY <1>4, <2>1
<1>9. Range(f) = EntriesOf(ent, {i})
  <2>1. ASSUME NEW j \in 1 .. n PROVE f[j] \in EntriesOf(ent, {i})
    BY <1>3, <1>4 DEF EntriesOf
  <2>2. ASSUME NEW x \in EntriesOf(ent, {i}) PROVE \E j \in 1 .. n : f[j] = x
    BY <1>8 DEF EntriesOf
  <2>3. Range(f) = {f[j] : j \in 1 .. n}
    BY <1>7, RangeEquality
  <2> QED
    BY <2>1, <2>2, <2>3
<1> QED
  BY <1>1, <1>3, <1>5, <1>7, <1>9

Onward(p, x, j) == x \o Entries(p, j - 1)

(* The function behind touchdb_map_iter. *)
Iterates(p, f) ==
  /\ f \in [0 .. BUCKETS -> Seq(Blocks)]
  /\ f[0] = <<>> /\ \A j \in 1 .. BUCKETS : f[j] = f[j - 1] \o Entries(p, j - 1)
  /\ touchdb_map_iter(p) = f[BUCKETS]

(* The function that touchdb_map_iter is defined by exists. *)
LEMMA IterExists ==
  ASSUME NEW p, \A i \in 0 .. BUCKETS - 1 : Entries(p, i) \in Seq(Blocks)
  PROVE  \E f : Iterates(p, f)
<1> DEFINE Upto(f) == f = [i \in 0 .. BUCKETS |-> IF i = 0 THEN <<>> ELSE Onward(p, f[i - 1], i)]
           step == [j \in 1 .. BUCKETS |-> [x \in Seq(Blocks) |-> Onward(p, x, j)]]
           g == CHOOSE f : Upto(f)
<1>0. BUCKETS \in Nat /\ BUCKETS > 0
  BY DbAssumption
<1>1. step \in [1 .. BUCKETS -> [Seq(Blocks) -> Seq(Blocks)]]
  <2>1. \A j \in 1 .. BUCKETS : Entries(p, j - 1) \in Seq(Blocks)
    BY <1>0
  <2>2. \A j \in 1 .. BUCKETS : \A x \in Seq(Blocks) : Onward(p, x, j) \in Seq(Blocks)
    BY <2>1, ConcatProperties DEF Onward
  <2> QED
    BY <2>2
<1>2. PICK f \in [0 .. BUCKETS -> Seq(Blocks)] :
        f[0] = <<>> /\ \A j \in 1 .. BUCKETS : f[j] = step[j][f[j - 1]]
  <2> HIDE DEF step
  <2>1. <<>> \in Seq(Blocks)
    OBVIOUS
  <2>2. \E f \in [0 .. BUCKETS -> Seq(Blocks)] : StepsBy(f, <<>>, step, BUCKETS)
    BY <1>0, <1>1, <2>1, StepsExist
  <2> QED
    BY <2>2 DEF StepsBy
<1>3. \A j \in 1 .. BUCKETS : f[j] = Onward(p, f[j - 1], j)
  <2> SUFFICES ASSUME NEW j \in 1 .. BUCKETS PROVE f[j] = Onward(p, f[j - 1], j)
    OBVIOUS
  <2>1. j - 1 \in 0 .. BUCKETS
    BY <1>0
  <2>2. f[j - 1] \in Seq(Blocks)
    BY <1>2, <2>1
  <2> QED
    BY <1>2, <2>2
<1>4. Upto(f)
  <2>1. \A i \in 0 .. BUCKETS : f[i] = IF i = 0 THEN <<>> ELSE Onward(p, f[i - 1], i)
    BY <1>0, <1>2, <1>3
  <2> QED
    BY <1>2, <2>1
<1>5. Upto(g)
  <2> HIDE DEF Upto
  <2> QED
    BY <1>4, Zenon
<1>6. g[BUCKETS] = f[BUCKETS]
  <2>1. g[0] = <<>> /\ \A j \in 1 .. BUCKETS : g[j] = Onward(p, g[j - 1], j)
    <3> HIDE DEF g
    <3> QED
      BY <1>0, <1>5
  <2> HIDE DEF g, Upto
  <2>2. GoAlike(g, f, BUCKETS)
    BY <1>2, <1>3, <2>1 DEF GoAlike
  <2>3. Alike(g, f, BUCKETS)
    BY <1>0, <2>2, SameSteps
  <2> QED
    BY <1>0, <2>3 DEF Alike
<1>7. touchdb_map_iter(p) = g[BUCKETS]
  BY Zenon DEF touchdb_map_iter, Onward
<1> HIDE DEF g, Upto, step
<1>8. Iterates(p, f)
  BY <1>2, <1>3, <1>6, <1>7 DEF Iterates, Onward
<1> QED
  BY <1>8

(* touchdb_iter passes the entry of every key that has one, and as many as  *)
(* touchdb_size counts.                                                    *)
IterOK(p, ent, it) ==
  /\ it \in Seq(Blocks)
  /\ Len(it) = p.map_size
  /\ Range(it) = {ent[k] : k \in {m \in Keys : ent[m] # NIL}}

(* touchdb_map_iter passes the entry of every key once. *)
LEMMA IterIs ==
  ASSUME NEW p, NEW own, NEW ent, NEW es, NEW ns, NEW rw, MapOK(p, own, ent, es, ns, rw)
  PROVE  IterOK(p, ent, touchdb_map_iter(p))
<1>0. BUCKETS \in Nat /\ BUCKETS > 0
  BY DbAssumption
<1>1. ASSUME NEW i \in 0 .. BUCKETS - 1
      PROVE  /\ Entries(p, i) \in Seq(Blocks) /\ Len(Entries(p, i)) = Len(es[i])
             /\ Len(es[i]) \in Nat
             /\ Range(Entries(p, i)) = EntriesOf(ent, {i})
  BY <1>1, BucketElements
<1>2. PICK f : Iterates(p, f)
  BY <1>1, IterExists
<1>3. PICK h \in [0 .. BUCKETS -> Nat] :
        /\ h[0] = 0 /\ \A j \in 1 .. BUCKETS : h[j] = h[j - 1] + Len(es[j - 1])
        /\ Total(es) = h[BUCKETS]
  <2>1. \A i \in 0 .. BUCKETS - 1 : Len(es[i]) \in Nat
    BY <1>1
  <2> QED
    BY ONLY <2>1, TotalIs
<1>4. PICK len : len = [j \in 0 .. BUCKETS |-> Len(f[j])]
  OBVIOUS
<1>5. ASSUME NEW j \in 1 .. BUCKETS
      PROVE  /\ f[j - 1] \in Seq(Blocks) /\ Entries(p, j - 1) \in Seq(Blocks)
             /\ f[j] = f[j - 1] \o Entries(p, j - 1)
             /\ j \in 0 .. BUCKETS /\ j - 1 \in 0 .. BUCKETS /\ j - 1 \in 0 .. BUCKETS - 1
  <2>1. j \in 0 .. BUCKETS /\ j - 1 \in 0 .. BUCKETS /\ j - 1 \in 0 .. BUCKETS - 1
    BY <1>0
  <2> QED
    BY <1>1, <1>2, <2>1 DEF Iterates
<1>6. GoAlike(len, h, BUCKETS)
  <2>1. len[0] = h[0]
    BY <1>0, <1>2, <1>3, <1>4 DEF Iterates
  <2>2. ASSUME NEW j \in 1 .. BUCKETS, len[j - 1] = h[j - 1] PROVE len[j] = h[j]
    <3>1. Len(f[j]) = Len(f[j - 1]) + Len(Entries(p, j - 1))
      BY <1>5, ConcatProperties
    <3>2. Len(Entries(p, j - 1)) = Len(es[j - 1])
      BY <1>1, <1>5
    <3>3. len[j] = Len(f[j]) /\ len[j - 1] = Len(f[j - 1])
      BY <1>4, <1>5
    <3> QED
      BY <1>3, <2>2, <3>1, <3>2, <3>3
  <2> QED
    BY <2>1, <2>2 DEF GoAlike
<1>7. PICK a, b : /\ a = [j \in 0 .. BUCKETS |-> Range(f[j])]
                  /\ b = [j \in 0 .. BUCKETS |-> EntriesOf(ent, 0 .. j - 1)]
  OBVIOUS
<1>8. GoAlike(a, b, BUCKETS)
  <2>1. a[0] = b[0]
    <3>1. a[0] = {}
      BY <1>0, <1>2, <1>7 DEF Iterates, Range
    <3>2. b[0] = {}
      BY <1>0, <1>7 DEF EntriesOf
    <3> QED
      BY <3>1, <3>2
  <2>2. ASSUME NEW j \in 1 .. BUCKETS, a[j - 1] = b[j - 1] PROVE a[j] = b[j]
    <3>1. Range(f[j]) = Range(f[j - 1]) \cup Range(Entries(p, j - 1))
      <4>1. PICK x, y : x = f[j - 1] /\ y = Entries(p, j - 1)
        OBVIOUS
      <4>2. x \in Seq(Blocks) /\ y \in Seq(Blocks) /\ f[j] = x \o y
        BY <1>5, <4>1
      <4>3. Range(x \o y) = Range(x) \cup Range(y)
        BY ONLY <4>2, RangeConcatenation
      <4> QED
        BY <4>1, <4>2, <4>3
    <3>2. Range(Entries(p, j - 1)) = EntriesOf(ent, {j - 1})
      BY <1>1, <1>5
    <3>3. a[j] = Range(f[j]) /\ a[j - 1] = Range(f[j - 1])
          /\ b[j] = EntriesOf(ent, 0 .. j - 1) /\ b[j - 1] = EntriesOf(ent, 0 .. j - 1 - 1)
      BY <1>5, <1>7
    <3>4. EntriesOf(ent, 0 .. j - 1) = EntriesOf(ent, 0 .. j - 1 - 1) \cup EntriesOf(ent, {j - 1})
      <4>1. \A i : i \in 0 .. j - 1 <=> i \in 0 .. j - 1 - 1 \/ i \in {j - 1}
        BY <1>0
      <4> QED
        BY <4>1 DEF EntriesOf
    <3> QED
      BY <2>2, <3>1, <3>2, <3>3, <3>4
  <2> QED
    BY <2>1, <2>2 DEF GoAlike
<1>9. PICK it : it = touchdb_map_iter(p)
  OBVIOUS
<1>10. it = f[BUCKETS] /\ it \in Seq(Blocks)
  BY <1>0, <1>2, <1>9 DEF Iterates
<1>11. Len(it) = p.map_size
  <2>1. len[BUCKETS] = h[BUCKETS]
    BY <1>0, <1>6, SameSteps DEF Alike
  <2>2. p.map_size = Total(es)
    BY DEF MapOK, BucketsOK
  <2> QED
    BY <1>0, <1>3, <1>4, <1>10, <2>1, <2>2
<1>12. Range(it) = {ent[k] : k \in {m \in Keys : ent[m] # NIL}}
  <2>1. a[BUCKETS] = b[BUCKETS]
    BY <1>0, <1>8, SameSteps DEF Alike
  <2>2. Range(it) = EntriesOf(ent, 0 .. BUCKETS - 1)
    BY <1>0, <1>7, <1>10, <2>1
  <2>3. \A m \in Keys : index_for(m) \in 0 .. BUCKETS - 1
    BY IndexType
  <2> QED
    BY <2>2, <2>3 DEF EntriesOf
<1> QED
  BY <1>9, <1>10, <1>11, <1>12 DEF IterOK

-----------------------------------------------------------------------------
(* What the runs check. *)

(* No block is freed twice. *)
THEOREM NothingFreedTwice == DbSpec => []NoDoubleFree
<1>1. DbInv => NoDoubleFree
  BY DEF DbInv, InvAt, Sound, MapOK, PoolOK, NoDoubleFree
<1> QED
  BY <1>1, DbInvariant, PTL

(* A put is read back by the next get of its key. *)
THEOREM WritesAreRead == DbSpec => []ReadYourWrite
<1>1. DbInv => ReadYourWrite
  BY DEF DbInv
<1> QED
  BY <1>1, DbInvariant, PTL

(* One bucket is sound, and its entries are found. *)
BucketSound(p, i) ==
  LET b  == p.bulk[i]
      es == Entries(p, i)
  IN
  /\ Len(es) = b.size
  /\ b.tail = IF b.size = 0 THEN NIL ELSE es[b.size]
  /\ \A j \in 1 .. b.size :
       /\ es[j] \in p.held
       /\ p.mem[es[j]].prev = IF j = 1 THEN NIL ELSE es[j - 1]
       /\ \E k \in Keys : /\ index_for(k) = i
                          /\ is_entry_of(p, es[j], k)
                          /\ get_entry(p, k) = es[j]

(* A bucket is a doubly linked list of the entries whose hash leads to it. *)
LEMMA BucketIsSound ==
  ASSUME NEW p, NEW own, NEW ent, NEW es, NEW ns, NEW rw, MapOK(p, own, ent, es, ns, rw),
         NEW i \in 0 .. BUCKETS - 1
  PROVE  BucketSound(p, i)
<1>1. PICK s, n : s = es[i] /\ n = Len(s)
  OBVIOUS
<1>2. BucketOK(p, i, ent, s)
  BY <1>1 DEF MapOK, BucketsOK
<1>3. PICK f : f = [j \in 1 .. n |-> ent[s[j]]]
  OBVIOUS
<1>4. Entries(p, i) = f
  BY <1>1, <1>3, BucketEntries
<1>5. /\ s \in Seq(Keys) /\ n \in Nat
      /\ p.bulk[i].size = n /\ p.bulk[i].tail = EntAt(ent, s, n)
      /\ \A j \in 1 .. n : /\ s[j] \in Keys /\ ent[s[j]] # NIL
                           /\ index_for(s[j]) = i
                           /\ p.mem[ent[s[j]]].prev = EntAt(ent, s, j - 1)
  BY <1>1, <1>2 DEF BucketOK
<1>6. Len(f) = n
  <2>1. Entries(p, i) \in Seq(Blocks) /\ Len(Entries(p, i)) = n
    BY <1>1, BucketElements
  <2> QED
    BY <1>4, <2>1
<1>7. p.bulk[i].tail = IF n = 0 THEN NIL ELSE f[n]
  BY <1>1, <1>3, <1>5 DEF EntAt
<1>8. ASSUME NEW j \in 1 .. n
      PROVE  /\ f[j] \in p.held
             /\ p.mem[f[j]].prev = IF j = 1 THEN NIL ELSE f[j - 1]
             /\ \E k \in Keys : /\ index_for(k) = i
                                /\ is_entry_of(p, f[j], k)
                                /\ get_entry(p, k) = f[j]
  <2>1. PICK k : k = s[j]
    OBVIOUS
  <2>2. k \in Keys /\ ent[k] # NIL /\ index_for(k) = i /\ f[j] = ent[k]
    BY <1>3, <1>5, <2>1
  <2>3. EntryOK(p, own, ent[k], k)
    BY <2>2 DEF MapOK, KeyOK
  <2>4. is_entry_of(p, ent[k], k) /\ ent[k] \in p.held
    BY <2>3 DEF EntryOK, Has, is_entry_of, ReadText
  <2>5. get_entry(p, k) = ent[k]
    BY <2>2, GetEntry
  <2>6. p.mem[f[j]].prev = EntAt(ent, s, j - 1)
    BY <1>5, <2>1, <2>2
  <2>7. EntAt(ent, s, j - 1) = IF j = 1 THEN NIL ELSE f[j - 1]
    <3>1. CASE j = 1
      BY <3>1 DEF EntAt
    <3>2. CASE j # 1
      <4>1. j - 1 \in 1 .. n
        BY <1>5, <3>2
      <4> QED
        BY <1>1, <1>3, <3>2, <4>1 DEF EntAt
    <3> QED
      BY <3>1, <3>2
  <2> QED
    BY <2>2, <2>4, <2>5, <2>6, <2>7
<1> QED
  BY <1>4, <1>5, <1>6, <1>7, <1>8 DEF BucketSound

(* The buckets stay sound, and touchdb_iter passes what touchdb_size       *)
(* counts.                                                                 *)
THEOREM MapStaysSound == DbSpec => []MapSound
<1>1. DbInv => MapSound
  <2> SUFFICES ASSUME DbInv PROVE MapSound
    OBVIOUS
  <2>1. PICK own, ent, es, ns : MapOK(db, own, ent, es, ns, rewritten)
    BY DEF DbInv, InvAt, Sound
  <2>2. DOMAIN db.bulk = 0 .. BUCKETS - 1
    <3>1. db.bulk = [i \in 0 .. BUCKETS - 1 |-> db.bulk[i]]
      BY <2>1 DEF MapOK, BucketsOK
    <3> QED
      BY ONLY <3>1
  <2>3. \A i \in DOMAIN db.bulk : BucketSound(db, i)
    BY <2>1, <2>2, BucketIsSound
  <2>4. touchdb_size = Len(touchdb_iter)
    <3>1. IterOK(db, ent, touchdb_map_iter(db))
      BY <2>1, IterIs
    <3> QED
      BY <3>1 DEF IterOK, touchdb_size, touchdb_iter
  <2> QED
    BY <2>3, <2>4 DEF MapSound, BucketSound
<1> QED
  BY <1>1, DbInvariant, PTL

-----------------------------------------------------------------------------
(* The blocks in use. *)

(* The entries that the table reaches are those of the keys that have one. *)
LEMMA AllEntriesAre ==
  ASSUME NEW own, NEW ent, NEW es, NEW ns, NEW rw, MapOK(db, own, ent, es, ns, rw)
  PROVE  AllEntries = {ent[k] : k \in {m \in Keys : ent[m] # NIL}}
<1>1. PICK it : it = touchdb_map_iter(db)
  OBVIOUS
<1>2. Range(it) = {ent[k] : k \in {m \in Keys : ent[m] # NIL}}
  BY <1>1, IterIs DEF IterOK
<1> QED
  BY <1>1, <1>2 DEF AllEntries, touchdb_iter, Range

(* The nodes that are counted along a chain are those of its key's list. *)
LEMMA NodesOfIs ==
  ASSUME NEW own, NEW c, NEW s, NEW k, ListOK(db, own, c, s, k)
  PROVE  NodesOf(c) = {s[j] : j \in 1 .. Len(s)}
<1>1. db.mem[c].size = Len(s)
  BY DEF ListOK
<1>2. \A j \in 1 .. Len(s) : touchdb_chain_node_idx(db, c, j) = s[j]
  BY NodeIdx
<1> QED
  BY <1>1, <1>2 DEF NodesOf

(* The entry x, with its key block. *)
EntryBlocks(own, x, k) ==
  /\ Has(db, own, x, "entry", <<"entry", k, NIL>>)
  /\ Has(db, own, db.mem[x].key, "text", <<"key", k, NIL>>)

(* The node n, with its string and the string's text. *)
NodeBlocks(own, n, k) ==
  /\ Has(db, own, n, "node", <<"node", k, NIL>>)
  /\ Has(db, own, db.mem[n].val.addr, "pair", <<"str", k, n>>)
  /\ Has(db, own, db.mem[db.mem[n].val.addr].addr, "text", <<"len", k, db.mem[n].val.addr>>)

(* An entry that the table reaches, its key and its value are blocks of    *)
(* one key.                                                                *)
LEMMA EntryBlocksOf ==
  ASSUME NEW own, NEW ent, NEW es, NEW ns, NEW rw, MapOK(db, own, ent, es, ns, rw),
         NEW x \in AllEntries
  PROVE  \E k \in Keys : ent[k] # NIL /\ x = ent[k] /\ EntryBlocks(own, x, k)
<1>1. PICK k \in Keys : ent[k] # NIL /\ x = ent[k]
  BY AllEntriesAre
<1>2. EntryOK(db, own, x, k)
  BY <1>1 DEF MapOK, KeyOK
<1> QED
  BY <1>1, <1>2 DEF EntryOK, EntryBlocks

(* A chain that the table reaches is the list of one key. *)
LEMMA ChainOf ==
  ASSUME NEW own, NEW ent, NEW es, NEW ns, NEW rw, MapOK(db, own, ent, es, ns, rw),
         NEW c \in Chains
  PROVE  \E k \in Keys : /\ ent[k] # NIL /\ db.mem[ent[k]].val.type = CHAIN
                         /\ c = db.mem[ent[k]].val.addr
                         /\ ListOK(db, own, c, ns[k], k)
<1>1. PICK x \in AllEntries : db.mem[x].val.type = CHAIN /\ c = db.mem[x].val.addr
  BY DEF Chains
<1>2. PICK k \in Keys : ent[k] # NIL /\ x = ent[k]
  BY AllEntriesAre
<1>3. ValueOK(db, own, db.mem[x].val, ns[k], k, Kept(k, rw))
  BY <1>2 DEF MapOK, KeyOK
<1> QED
  BY <1>1, <1>2, <1>3 DEF ValueOK

(* A node that the table reaches, its string and its text are blocks of    *)
(* one key.                                                                *)
LEMMA NodeBlocksOf ==
  ASSUME NEW own, NEW ent, NEW es, NEW ns, NEW rw, MapOK(db, own, ent, es, ns, rw),
         NEW n \in ListNodes
  PROVE  \E k \in Keys : NodeBlocks(own, n, k)
<1>1. PICK c \in Chains : n \in NodesOf(c)
  BY DEF ListNodes
<1>2. PICK k \in Keys : ListOK(db, own, c, ns[k], k)
  BY ChainOf
<1>3. PICK s : s = ns[k]
  OBVIOUS
<1>4. PICK j \in 1 .. Len(s) : n = s[j]
  BY <1>1, <1>2, <1>3, NodesOfIs
<1>5. NodeOK(db, own, n, At(s, j + 1), k)
  BY <1>2, <1>3, <1>4 DEF ListOK
<1> QED
  BY <1>5 DEF NodeOK, StrOK, TextOK, NodeBlocks

(* The block b is allocated, and has the role r. *)
IsRole(own, b, r) == b \in db.held /\ own[b][1] = r

InRole(own, S, r) == \A b \in S : IsRole(own, b, r)

(* The tag of a block begins with its role. *)
LEMMA HasRole ==
  ASSUME NEW own, NEW b, NEW c, NEW r, NEW k, NEW x, Has(db, own, b, c, <<r, k, x>>)
  PROVE  IsRole(own, b, r)
BY DEF Has, IsRole

(* Every block has one role. *)
LEMMA Roles ==
  ASSUME NEW own, NEW ent, NEW es, NEW ns, NEW rw, NEW T,
         Sound(db, own, ent, es, ns, popped, rw, T)
  PROVE  /\ InRole(own, AllEntries, "entry") /\ InRole(own, KeyBlocks, "key")
         /\ InRole(own, Chains, "chain") /\ InRole(own, ListNodes, "node")
         /\ InRole(own, ListStrs, "str") /\ InRole(own, ListTexts, "len")
         /\ InRole(own, popped, "popped")
<1>1. MapOK(db, own, ent, es, ns, rw)
  BY DEF Sound
<1>2. ASSUME NEW x \in AllEntries
      PROVE  IsRole(own, x, "entry") /\ IsRole(own, db.mem[x].key, "key")
  <2>1. PICK k \in Keys : EntryBlocks(own, x, k)
    BY <1>1, EntryBlocksOf
  <2> QED
    BY <2>1 DEF EntryBlocks, Has, IsRole
<1>3. ASSUME NEW n \in ListNodes
      PROVE  /\ IsRole(own, n, "node") /\ IsRole(own, db.mem[n].val.addr, "str")
             /\ IsRole(own, db.mem[db.mem[n].val.addr].addr, "len")
  <2>1. PICK k \in Keys : NodeBlocks(own, n, k)
    BY <1>1, NodeBlocksOf
  <2>2. PICK st : st = db.mem[n].val.addr
    OBVIOUS
  <2>3. /\ Has(db, own, n, "node", <<"node", k, NIL>>)
        /\ Has(db, own, st, "pair", <<"str", k, n>>)
        /\ Has(db, own, db.mem[st].addr, "text", <<"len", k, st>>)
    BY <2>1, <2>2 DEF NodeBlocks
  <2>4. IsRole(own, n, "node") /\ IsRole(own, st, "str") /\ IsRole(own, db.mem[st].addr, "len")
    BY ONLY <2>3, HasRole
  <2> QED
    BY <2>2, <2>4
<1>4. ASSUME NEW c \in Chains PROVE IsRole(own, c, "chain")
  <2>1. PICK k \in Keys : ListOK(db, own, c, ns[k], k)
    BY <1>1, ChainOf
  <2> QED
    BY <2>1 DEF ListOK, Has, IsRole
<1>5. InRole(own, AllEntries, "entry")
  BY <1>2 DEF InRole
<1>6. InRole(own, KeyBlocks, "key")
  BY <1>2 DEF InRole, KeyBlocks
<1>7. InRole(own, Chains, "chain")
  BY <1>4 DEF InRole
<1>8. InRole(own, ListNodes, "node")
  BY <1>3 DEF InRole
<1>9. InRole(own, ListStrs, "str")
  BY <1>3 DEF InRole, ListStrs
<1>10. InRole(own, ListTexts, "len")
  <2>1. \A s \in ListStrs : \E n \in ListNodes : s = db.mem[n].val.addr
    BY DEF ListStrs
  <2>2. \A d \in ListTexts : \E n \in ListNodes : d = db.mem[db.mem[n].val.addr].addr
    BY <2>1 DEF ListTexts
  <2> QED
    BY <1>3, <2>2 DEF InRole
<1>11. InRole(own, popped, "popped")
  <2>1. \A b \in popped : Has(db, own, b, "pair", POPPED)
    BY DEF Sound
  <2>2. POPPED[1] = "popped"
    BY DEF POPPED
  <2> QED
    BY <2>1, <2>2 DEF InRole, IsRole, Has
<1> QED
  BY <1>5, <1>6, <1>7, <1>8, <1>9, <1>10, <1>11

(* The strings that are values of keys, and the blocks of their texts. *)
ValStrs ==
  LET vals == {db.mem[e].val : e \in AllEntries} IN {v.addr : v \in {w \in vals : w.type = STR}}

ValTexts == {db.mem[s].addr : s \in {t \in ValStrs : t[1] = "pair"}}

(* Until a key is rewritten, nothing but the values of pops leaks. *)
LEMMA NothingElseLeaks ==
  ASSUME NEW own, NEW ent, NEW es, NEW ns, NEW rw, rw = FALSE, NEW T, T = {},
         Sound(db, own, ent, es, ns, popped, rw, T)
  PROVE  db.held = AllEntries \cup KeyBlocks \cup Chains \cup ListNodes \cup ListStrs \cup ListTexts
                     \cup ValStrs \cup ValTexts \cup popped
<1>1. MapOK(db, own, ent, es, ns, rw)
  BY DEF Sound
<1>2. /\ AllEntries \subseteq db.held /\ KeyBlocks \subseteq db.held /\ Chains \subseteq db.held
      /\ ListNodes \subseteq db.held /\ ListStrs \subseteq db.held /\ ListTexts \subseteq db.held
      /\ popped \subseteq db.held
  BY Roles DEF InRole, IsRole
<1>3. AllEntries = {ent[k] : k \in {m \in Keys : ent[m] # NIL}}
  BY <1>1, AllEntriesAre
<1>4. \A k \in Keys : ent[k] # NIL =>
        /\ ValueOK(db, own, db.mem[ent[k]].val, ns[k], k, Kept(k, rw)) /\ Kept(k, rw)
        /\ ent[k] \in AllEntries
  BY <1>1, <1>3, SMTT(30) DEF MapOK, KeyOK, Kept
<1>5. ASSUME NEW s \in ValStrs
      PROVE  s \in db.held /\ (s[1] = "pair" => db.mem[s].addr \in db.held)
  <2>1. PICK e \in AllEntries : db.mem[e].val.type = STR /\ s = db.mem[e].val.addr
    BY DEF ValStrs
  <2>2. PICK k \in Keys : ent[k] # NIL /\ e = ent[k]
    BY <1>3
  <2>3. ValueOK(db, own, db.mem[e].val, ns[k], k, Kept(k, rw)) /\ Kept(k, rw)
    BY <1>4, <2>2
  <2> QED
    BY <2>1, <2>3 DEF ValueOK, TextOK, Has
<1>6. ValStrs \subseteq db.held /\ ValTexts \subseteq db.held
  BY <1>5 DEF ValTexts
<1>7. ASSUME NEW b \in db.held
      PROVE  b \in AllEntries \cup KeyBlocks \cup Chains \cup ListNodes \cup ListStrs \cup ListTexts
                     \cup ValStrs \cup ValTexts \cup popped
  <2>1. InUse(db, ent, ns, popped, b)
    BY DEF Sound
  <2>2. CASE b \in popped
    BY <2>2
  <2>3. ASSUME NEW k \in Keys, ent[k] # NIL, InKey(db, ent[k], ns[k], b)
        PROVE  b \in AllEntries \cup KeyBlocks \cup Chains \cup ListNodes \cup ListStrs \cup ListTexts
                       \cup ValStrs \cup ValTexts
    <3>1. PICK e, v, s : e = ent[k] /\ v = db.mem[e].val /\ s = ns[k]
      OBVIOUS
    <3>2. e \in AllEntries /\ ValueOK(db, own, v, s, k, Kept(k, rw))
      BY <1>4, <2>3, <3>1
    <3>3. CASE b = e \/ b = db.mem[e].key
      BY <3>2, <3>3 DEF KeyBlocks
    <3>4. CASE InValue(db, v, s, b)
      <4>1. CASE v.type = STR
        <5>1. v.addr \in ValStrs
          BY <3>1, <3>2, <4>1 DEF ValStrs
        <5>3. v.addr[1] = "pair" => db.mem[v.addr].addr \in ValTexts
          BY <5>1 DEF ValTexts
        <5>2. v.type # CHAIN
          BY <4>1, SMTT(30) DEF STR, CHAIN
        <5> QED
          BY <3>4, <4>1, <5>1, <5>2, <5>3 DEF InValue
      <4>2. CASE v.type = CHAIN
        <5>1. v.type # STR
          BY <4>2 DEF STR, CHAIN
        <5>2. PICK c : c = v.addr
          BY SMTT(30)
        <5>3. c \in Chains /\ ListOK(db, own, c, s, k)
          BY <3>1, <3>2, <4>2, <5>2 DEF Chains, ValueOK
        <5>4. \A j \in 1 .. Len(s) : s[j] \in ListNodes
          BY <5>3, NodesOfIs DEF ListNodes
        <5>5. \A n \in ListNodes : db.mem[n].val.addr \in ListStrs
                                   /\ db.mem[db.mem[n].val.addr].addr \in ListTexts
          BY DEF ListStrs, ListTexts
        <5> QED
          BY <3>4, <5>1, <5>2, <5>3, <5>4, <5>5 DEF InValue
      <4> QED
        BY <3>2, <4>1, <4>2 DEF ValueOK
    <3> QED
      BY <2>3, <3>1, <3>3, <3>4 DEF InKey
  <2> QED
    BY <2>1, <2>2, <2>3 DEF InUse
<1> QED
  BY <1>2, <1>6, <1>7

(* As long as no value was replaced, a held block that the table does not  *)
(* reach is one that touchdb_list_pop returned (touchdb.c frees what it    *)
(* allocates otherwise).                                                   *)
THEOREM PopsLeakOnly == DbSpec => []OnlyPopsLeak
<1>1. DbInv => OnlyPopsLeak
  <2> SUFFICES ASSUME DbInv, ~rewritten PROVE OnlyPopsLeak
    BY DEF OnlyPopsLeak
  <2>1. PICK T : T = {}
    OBVIOUS
  <2>2. PICK own, ent, es, ns : Sound(db, own, ent, es, ns, popped, rewritten, T)
    BY <2>1 DEF DbInv, InvAt
  <2>3. PICK rw : rw = FALSE
    OBVIOUS
  <2>4. Sound(db, own, ent, es, ns, popped, rw, T)
    BY <2>2, <2>3 DEF DbInv, InvAt
  <2>5. db.held = AllEntries \cup KeyBlocks \cup Chains \cup ListNodes \cup ListStrs \cup ListTexts
                    \cup ValStrs \cup ValTexts \cup popped
    BY ONLY <2>1, <2>3, <2>4, NothingElseLeaks
  <2> QED
    BY <2>5 DEF OnlyPopsLeak, ValStrs, ValTexts
<1> QED
  BY <1>1, DbInvariant, PTL

-----------------------------------------------------------------------------
(* Every block belongs to one place. *)

(* A finite number of blocks was carved. *)
LEMMA HeldFinite ==
  ASSUME NEW p, PoolOK(p)
  PROVE  IsFiniteSet(p.held)
<1>1. /\ p.fresh["text"] \in Nat /\ p.fresh["pair"] \in Nat /\ p.fresh["chain"] \in Nat
      /\ p.fresh["node"] \in Nat /\ p.fresh["entry"] \in Nat
  BY SMTT(30) DEF PoolOK, Classes
<1>2. PICK m : m = p.fresh["text"] + p.fresh["pair"] + p.fresh["chain"] + p.fresh["node"]
                     + p.fresh["entry"]
  OBVIOUS
<1>3. \A c \in Classes : p.fresh[c] \in Nat /\ p.fresh[c] <= m
  BY <1>1, <1>2 DEF Classes
<1>4. p.held \subseteq Classes \X (0 .. m)
  <2>1. \A b \in p.held : b \in Classes \X Nat /\ b[2] < p.fresh[b[1]]
    BY DEF PoolOK, Carved, Blocks
  <2> SUFFICES ASSUME NEW b \in p.held PROVE b \in Classes \X (0 .. m)
    OBVIOUS
  <2>2. PICK c \in Classes, n \in Nat : b = <<c, n>>
    BY <2>1
  <2>3. n < p.fresh[c]
    BY <2>1, <2>2
  <2>4. n \in 0 .. m
    BY <1>1, <1>2, <1>3, <2>3
  <2> QED
    BY <2>2, <2>4
<1>5. IsFiniteSet(Classes)
  <2>1. IsFiniteSet({"text"})
    BY FS_Singleton
  <2>2. IsFiniteSet({"text"} \cup {"pair"})
    BY <2>1, FS_AddElement
  <2>3. IsFiniteSet({"text"} \cup {"pair"} \cup {"chain"})
    BY <2>2, FS_AddElement
  <2>4. IsFiniteSet({"text"} \cup {"pair"} \cup {"chain"} \cup {"node"})
    BY <2>3, FS_AddElement
  <2>5. IsFiniteSet({"text"} \cup {"pair"} \cup {"chain"} \cup {"node"} \cup {"entry"})
    BY <2>4, FS_AddElement
  <2>6. Classes = {"text"} \cup {"pair"} \cup {"chain"} \cup {"node"} \cup {"entry"}
    BY DEF Classes
  <2> QED
    BY <2>5, <2>6
<1>6. IsFiniteSet(Classes \X (0 .. m))
  <2>1. m \in Int
    BY <1>1, <1>2
  <2>2. IsFiniteSet(0 .. m)
    BY <2>1, FS_Interval
  <2> QED
    BY <1>5, <2>2, FS_Product
<1> QED
  BY <1>4, <1>6, FS_Subset

(* A set has as many elements as its image under an injection. *)
OneToOne(f, S) == f = [x \in S |-> f[x]] /\ \A x, y \in S : f[x] = f[y] => x = y

(* A one-to-one image of a set is as large as the set. *)
LEMMA SameSize ==
  ASSUME NEW S, IsFiniteSet(S), NEW f, OneToOne(f, S), NEW T, T = {f[x] : x \in S}
  PROVE  IsFiniteSet(T) /\ Cardinality(T) = Cardinality(S) /\ Cardinality(S) \in Nat
<1>1. f \in Surjection(S, T)
  BY DEF OneToOne, Surjection
<1>2. f \in Injection(S, T)
  BY <1>1 DEF OneToOne, Injection, IsInjective, Surjection
<1>3. IsFiniteSet(T) /\ Cardinality(T) = Cardinality(S)
  BY <1>1, <1>2, FS_Surjection
<1> QED
  BY <1>3, FS_CardinalityType

(* The finite set S has n elements. *)
HasSize(S, n) == IsFiniteSet(S) /\ Cardinality(S) = n /\ n \in Nat

(* Two sets that do not meet are together as large as their sizes add up   *)
(* to.                                                                     *)
LEMMA DisjointSize ==
  ASSUME NEW S, NEW T, NEW m, NEW n, HasSize(S, m), HasSize(T, n), S \cap T = {}
  PROVE  HasSize(S \cup T, m + n)
<1>1. /\ IsFiniteSet(S \cup T)
      /\ Cardinality(S \cup T) = Cardinality(S) + Cardinality(T) - Cardinality(S \cap T)
  BY FS_Union DEF HasSize
<1>2. Cardinality(S \cap T) = 0
  BY FS_EmptySet
<1> QED
  BY <1>1, <1>2 DEF HasSize

(* Blocks of different roles are different. *)
LEMMA RolesApart ==
  ASSUME NEW own, NEW S, NEW T, NEW r, NEW r2, InRole(own, S, r), InRole(own, T, r2), r # r2
  PROVE  S \cap T = {}
BY DEF InRole, IsRole

(* The tag of a block says which it is. *)
LEMMA TagOf ==
  ASSUME NEW own, NEW b, NEW c, NEW r, NEW k, NEW x, NEW c2, NEW k2, NEW x2,
         Has(db, own, b, c, <<r, k, x>>), Has(db, own, b, c2, <<r, k2, x2>>)
  PROVE  k = k2 /\ x = x2
BY DEF Has

(* There are as many key blocks as entries, and as many strings and texts  *)
(* as nodes.                                                               *)
LEMMA Sizes ==
  ASSUME NEW own, NEW ent, NEW es, NEW ns, NEW rw, MapOK(db, own, ent, es, ns, rw),
         NEW m, HasSize(AllEntries, m), NEW n, HasSize(ListNodes, n)
  PROVE  HasSize(KeyBlocks, m) /\ HasSize(ListStrs, n) /\ HasSize(ListTexts, n)
<1>1. HasSize(KeyBlocks, m)
  <2>1. PICK f : f = [x \in AllEntries |-> db.mem[x].key]
    OBVIOUS
  <2>2. ASSUME NEW x \in AllEntries, NEW y \in AllEntries, f[x] = f[y] PROVE x = y
    <3>1. PICK k \in Keys : x = ent[k] /\ EntryBlocks(own, x, k)
      BY EntryBlocksOf
    <3>2. PICK j \in Keys : y = ent[j] /\ EntryBlocks(own, y, j)
      BY EntryBlocksOf
    <3>3. PICK b : b = db.mem[x].key
      OBVIOUS
    <3>4. Has(db, own, b, "text", <<"key", k, NIL>>) /\ Has(db, own, b, "text", <<"key", j, NIL>>)
      BY <2>1, <2>2, <3>1, <3>2, <3>3 DEF EntryBlocks
    <3>5. k = j
      BY ONLY <3>4, TagOf
    <3> QED
      BY <3>1, <3>2, <3>5
  <2>3. OneToOne(f, AllEntries)
    BY <2>1, <2>2 DEF OneToOne
  <2>4. KeyBlocks = {f[x] : x \in AllEntries}
    BY <2>1 DEF KeyBlocks
  <2>5. IsFiniteSet(AllEntries)
    BY DEF HasSize
  <2>6. IsFiniteSet(KeyBlocks) /\ Cardinality(KeyBlocks) = Cardinality(AllEntries)
    BY ONLY <2>3, <2>4, <2>5, SameSize
  <2> QED
    BY <2>6 DEF HasSize
<1>2. ASSUME NEW x \in ListNodes, NEW y \in ListNodes, db.mem[x].val.addr = db.mem[y].val.addr
      PROVE  x = y
  <2>1. PICK k \in Keys : NodeBlocks(own, x, k)
    BY NodeBlocksOf
  <2>2. PICK j \in Keys : NodeBlocks(own, y, j)
    BY NodeBlocksOf
  <2>3. PICK b : b = db.mem[x].val.addr
    BY SMTT(30)
  <2>4. Has(db, own, b, "pair", <<"str", k, x>>) /\ Has(db, own, b, "pair", <<"str", j, y>>)
    BY <1>2, <2>1, <2>2, <2>3 DEF NodeBlocks
  <2> QED
    BY ONLY <2>4, TagOf
<1>3. HasSize(ListStrs, n)
  <2>1. PICK f : f = [x \in ListNodes |-> db.mem[x].val.addr]
    OBVIOUS
  <2>2. OneToOne(f, ListNodes)
    BY <1>2, <2>1 DEF OneToOne
  <2>3. ListStrs = {f[x] : x \in ListNodes}
    BY <2>1 DEF ListStrs
  <2>4. IsFiniteSet(ListNodes)
    BY DEF HasSize
  <2>5. IsFiniteSet(ListStrs) /\ Cardinality(ListStrs) = Cardinality(ListNodes)
    BY ONLY <2>2, <2>3, <2>4, SameSize
  <2> QED
    BY <2>5 DEF HasSize
<1>4. HasSize(ListTexts, n)
  <2>1. PICK f : f = [x \in ListNodes |-> db.mem[db.mem[x].val.addr].addr]
    OBVIOUS
  <2>2. ASSUME NEW x \in ListNodes, NEW y \in ListNodes, f[x] = f[y] PROVE x = y
    <3>1. PICK k \in Keys : NodeBlocks(own, x, k)
      BY NodeBlocksOf
    <3>2. PICK j \in Keys : NodeBlocks(own, y, j)
      BY NodeBlocksOf
    <3>3. PICK b, u, w : b = f[x] /\ u = db.mem[x].val.addr /\ w = db.mem[y].val.addr
      BY SMTT(30)
    <3>4. Has(db, own, b, "text", <<"len", k, u>>) /\ Has(db, own, b, "text", <<"len", j, w>>)
      BY <2>1, <2>2, <3>1, <3>2, <3>3, Zenon DEF NodeBlocks
    <3>5. u = w
      BY ONLY <3>4, TagOf
    <3> QED
      BY <1>2, <3>3, <3>5
  <2>3. OneToOne(f, ListNodes)
    BY <2>1, <2>2 DEF OneToOne
  <2>4. ListTexts = {f[x] : x \in ListNodes}
    <3>1. \A s : s \in ListStrs <=> \E x \in ListNodes : s = db.mem[x].val.addr
      BY DEF ListStrs
    <3>2. \A d : d \in ListTexts <=> \E s \in ListStrs : d = db.mem[s].addr
      BY DEF ListTexts
    <3>3. \A d : d \in ListTexts <=> \E x \in ListNodes : d = db.mem[db.mem[x].val.addr].addr
      BY <3>1, <3>2
    <3> QED
      BY <2>1, <3>3
  <2>5. IsFiniteSet(ListNodes)
    BY DEF HasSize
  <2>6. IsFiniteSet(ListTexts) /\ Cardinality(ListTexts) = Cardinality(ListNodes)
    BY ONLY <2>3, <2>4, <2>5, SameSize
  <2> QED
    BY <2>6 DEF HasSize
<1> QED
  BY <1>1, <1>3, <1>4

(* The blocks of the map and of the lists are allocated, and each of them  *)
(* belongs to one place.                                                   *)
THEOREM OwnersStayApart == DbSpec => []OwnersApart
<1>1. DbInv => OwnersApart
  <2> SUFFICES ASSUME DbInv PROVE OwnersApart
    OBVIOUS
  <2>1. PICK own, ent, es, ns, T : Sound(db, own, ent, es, ns, popped, rewritten, T)
    BY DEF DbInv, InvAt
  <2>2. MapOK(db, own, ent, es, ns, rewritten)
    BY <2>1 DEF Sound
  <2>3. /\ InRole(own, AllEntries, "entry") /\ InRole(own, KeyBlocks, "key")
        /\ InRole(own, Chains, "chain") /\ InRole(own, ListNodes, "node")
        /\ InRole(own, ListStrs, "str") /\ InRole(own, ListTexts, "len")
        /\ InRole(own, popped, "popped")
    BY <2>1, Roles
  <2>4. IsFiniteSet(db.held)
    BY <2>2, HeldFinite DEF MapOK
  <2>5. \A S, r : InRole(own, S, r) => HasSize(S, Cardinality(S)) /\ S \subseteq db.held
    <3> SUFFICES ASSUME NEW S, NEW r, InRole(own, S, r)
                 PROVE  HasSize(S, Cardinality(S)) /\ S \subseteq db.held
      OBVIOUS
    <3>1. S \subseteq db.held
      BY DEF InRole, IsRole
    <3> QED
      BY <2>4, <3>1, FS_Subset, FS_CardinalityType DEF HasSize
  <2>6. PICK m, n, c, v : /\ m = Cardinality(AllEntries) /\ n = Cardinality(ListNodes)
                          /\ c = Cardinality(Chains) /\ v = Cardinality(popped)
    OBVIOUS
  <2>7. /\ HasSize(AllEntries, m) /\ HasSize(ListNodes, n) /\ HasSize(Chains, c)
        /\ HasSize(popped, v)
    BY <2>3, <2>5, <2>6
  <2>8. HasSize(KeyBlocks, m) /\ HasSize(ListStrs, n) /\ HasSize(ListTexts, n)
    <3>1. HasSize(AllEntries, m) /\ HasSize(ListNodes, n)
      BY <2>7
    <3> QED
      BY ONLY <2>2, <3>1, Sizes
  <2>9. PICK U2, U3, U4, U5, U6, U7 :
          /\ U2 = AllEntries \cup KeyBlocks /\ U3 = U2 \cup Chains /\ U4 = U3 \cup ListNodes
          /\ U5 = U4 \cup ListStrs /\ U6 = U5 \cup ListTexts /\ U7 = U6 \cup popped
    OBVIOUS
  <2>10. HasSize(U2, m + m)
    BY <2>3, <2>7, <2>8, <2>9, RolesApart, DisjointSize
  <2>11. HasSize(U3, m + m + c)
    <3>1. U2 \cap Chains = {}
      BY <2>3, <2>9, RolesApart
    <3> QED
      BY <2>7, <2>9, <2>10, <3>1, DisjointSize
  <2>12. HasSize(U4, m + m + c + n)
    <3>1. U3 \cap ListNodes = {}
      BY <2>3, <2>9, RolesApart
    <3> QED
      BY <2>7, <2>9, <2>11, <3>1, DisjointSize
  <2>13. HasSize(U5, m + m + c + n + n)
    <3>1. U4 \cap ListStrs = {}
      BY <2>3, <2>9, RolesApart
    <3> QED
      BY <2>8, <2>9, <2>12, <3>1, DisjointSize
  <2>14. HasSize(U6, m + m + c + n + n + n)
    <3>1. U5 \cap ListTexts = {}
      BY <2>3, <2>9, RolesApart
    <3> QED
      BY <2>8, <2>9, <2>13, <3>1, DisjointSize
  <2>15. HasSize(U7, m + m + c + n + n + n + v)
    <3>1. U6 \cap popped = {}
      BY <2>3, <2>9, RolesApart
    <3> QED
      BY <2>7, <2>9, <2>14, <3>1, DisjointSize
  <2>16. UNION {AllEntries, Chains, ListNodes, KeyBlocks, ListStrs, ListTexts, popped} = U7
    BY <2>9
  <2>17. U7 \subseteq db.held
    BY <2>3, <2>5, <2>9
  <2>18. Cardinality(U7) = 3 * n + 2 * m + c + v
    BY <2>7, <2>15 DEF HasSize
  <2> QED
    BY <2>6, <2>16, <2>17, <2>18 DEF OwnersApart
<1> QED
  BY <1>1, DbInvariant, PTL

-----------------------------------------------------------------------------
(* The keys that are not rewritten are a key-value store. *)

(* What the store holds for the state p, and what it gave out. *)
StableView(p) == [m \in Stable |-> Value(p, m)]
StableOut(r) == [m \in Stable |-> r[m]]

(* The part of the view that the abstract store is about is what its       *)
(* clients read.                                                           *)
LEMMA StableViewIs ==
  ASSUME DbInv
  PROVE  [m \in Stable |-> view[m]] = StableView(db)
BY DEF DbInv, StableView, Stable

(* A call changes the store at its key only. *)
LEMMA OthersViewStays ==
  ASSUME NEW p, NEW q, NEW k, OthersView(p, q, k)
  PROVE  StableView(q) = IF k \in Stable THEN [StableView(p) EXCEPT ![k] = Value(q, k)]
                                         ELSE StableView(p)
BY DEF OthersView, StableView

(* A call that puts the text t, as the store sees it. *)
LEMMA StorePut ==
  ASSUME NEW p, NEW q, NEW pop, NEW rw, NEW k, NEW c, NEW t, StepText(p, q, pop, rw, k, c, t)
  PROVE  StableView(q) = IF k \in Stable
                           THEN [StableView(p) EXCEPT ![k] = [kind |-> "text", text |-> t]]
                           ELSE StableView(p)
BY OthersViewStays DEF StepText

(* touchdb_list_push does to the keys that are never rewritten what the    *)
(* abstract store says.                                                    *)
LEMMA StorePush ==
  ASSUME NEW p, NEW q, NEW pop, NEW rw, NEW k, NEW t, StepPush(p, q, pop, rw, k, t)
  PROVE  StableView(q) =
           IF k \in Stable
             THEN [StableView(p) EXCEPT ![k] = [kind |-> "list", texts |-> Longer(Value(p, k), t)]]
             ELSE StableView(p)
<1>1. PICK texts : /\ StepList(p, q, pop, rw, k, texts)
                   /\ k \in Stable => texts = Longer(Value(p, k), t)
  BY DEF StepPush
<1> QED
  BY <1>1, OthersViewStays DEF StepList

(* touchdb_list_pop does to the keys that are never rewritten what the     *)
(* abstract store says.                                                    *)
LEMMA StorePop ==
  ASSUME NEW p, NEW q, NEW pop, NEW rw, NEW k, NEW t, StepPop(p, q, pop, rw, k, t)
  PROVE  /\ k \notin Stable => StableView(q) = StableView(p)
         /\ k \in Stable =>
              /\ Value(p, k).kind = "list" /\ Value(p, k).texts # <<>>
              /\ t = Head(Value(p, k).texts)
              /\ StableView(q) = [StableView(p) EXCEPT
                                    ![k] = [kind |-> "list", texts |-> Tail(Value(p, k).texts)]]
<1>1. PICK texts : /\ StepList(p, q, pop, rw, k, texts)
                   /\ k \in Stable => /\ Value(p, k).kind = "list" /\ Value(p, k).texts # <<>>
                                      /\ t = Head(Value(p, k).texts)
                                      /\ texts = Tail(Value(p, k).texts)
  BY DEF StepPop
<1> QED
  BY <1>1, OthersViewStays DEF StepList

(* The answer to a key is an answer of the abstract store, when the key is *)
(* never rewritten.                                                        *)
LEMMA OutStays ==
  ASSUME NEW r, NEW r2, NEW k, r = [m \in Keys |-> r[m]], NEW t, r2 = [r EXCEPT ![k] = t]
  PROVE  StableOut(r2) = IF k \in Stable THEN [StableOut(r) EXCEPT ![k] = t] ELSE StableOut(r)
<1>1. \A m \in Stable : m \in Keys
  BY DEF Stable
<1> QED
  BY <1>1 DEF StableOut

(* Every call is a call of the store, or hidden from it. *)
LEMMA StoreStep ==
  ASSUME DbInv, [DbNext]_dbVars
  PROVE  [StableStore!Next]_<<[k \in Stable |-> view[k]], [k \in Stable |-> ret[k]]>>
<1>1. DbInv'
  BY DbInvNext
<1>2. PICK kv, kv2, out, out2 : /\ kv = StableView(db) /\ kv2 = StableView(db')
                                /\ out = StableOut(ret) /\ out2 = StableOut(ret')
  OBVIOUS
<1>3. /\ [k \in Stable |-> view[k]] = kv /\ [k \in Stable |-> view'[k]] = kv2
      /\ [k \in Stable |-> ret[k]] = out /\ [k \in Stable |-> ret'[k]] = out2
  <2>1. [k \in Stable |-> view[k]] = StableView(db)
    BY StableViewIs
  <2>2. [k \in Stable |-> view'[k]] = StableView(db')
    BY <1>1 DEF DbInv, StableView, Stable
  <2> QED
    BY <1>2, <2>1, <2>2 DEF StableOut
<1>4. ASSUME kv2 = kv, out2 = out
      PROVE  [StableStore!Next]_<<[k \in Stable |-> view[k]], [k \in Stable |-> ret[k]]>>
  BY <1>3, <1>4
<1>5. ASSUME NEW k \in Stable, NEW t \in Texts,
             kv2 = [kv EXCEPT ![k] = [kind |-> "text", text |-> t]], out2 = out
      PROVE  StableStore!Next
  <2>1. StableStore!Put(k, t)
    BY <1>3, <1>5 DEF StableStore!Put, StableStore!Text
  <2> QED
    BY <2>1 DEF StableStore!Next
<1>6. ASSUME NEW k \in Stable, NEW t \in Texts,
             kv2 = [kv EXCEPT ![k] = [kind |-> "list", texts |-> Longer(kv[k], t)]], out2 = out
      PROVE  StableStore!Next
  <2>1. kv2 = [kv EXCEPT ![k] = [kind |-> "list",
                                 texts |-> IF @.kind = "list" THEN Append(@.texts, t) ELSE <<t>>]]
    BY <1>6 DEF Longer
  <2>2. StableStore!Push(k, t)
    BY <1>3, <1>6, <2>1 DEF StableStore!Push, StableStore!List
  <2> QED
    BY <2>2 DEF StableStore!Next
<1>7. ASSUME NEW k \in Stable, kv[k].kind = "list", kv[k].texts # <<>>,
             kv2 = [kv EXCEPT ![k] = [kind |-> "list", texts |-> Tail(kv[k].texts)]],
             out2 = [out EXCEPT ![k] = Head(kv[k].texts)]
      PROVE  StableStore!Next
  <2>1. StableStore!Pop(k)
    BY <1>3, <1>7 DEF StableStore!Pop, StableStore!List
  <2> QED
    BY <2>1 DEF StableStore!Next
<1>8. ASSUME NEW k \in Stable, kv[k].kind = "list" => kv[k].texts = <<>>,
             kv2 = kv, out2 = [out EXCEPT ![k] = None]
      PROVE  StableStore!Next
  <2>1. StableStore!PopNothing(k)
    BY <1>3, <1>8 DEF StableStore!PopNothing
  <2> QED
    BY <2>1 DEF StableStore!Next
<1>9. \A k \in Stable : kv[k] = Value(db, k)
  BY <1>2 DEF StableView
<1>10. InvAt(db, popped, rewritten) /\ ret = [m \in Keys |-> ret[m]]
  BY DEF DbInv
<1>11. CASE UNCHANGED dbVars
  BY <1>2, <1>4, <1>11 DEF dbVars
<1>12. CASE DbNext
  <2>1. ASSUME NEW k, NEW t \in Texts, NEW c, NEW pop, NEW rw,
               StepText(db, db', pop, rw, k, c, t), ret' = ret
        PROVE  [StableStore!Next]_<<[m \in Stable |-> view[m]], [m \in Stable |-> ret[m]]>>
    <3>1. kv2 = IF k \in Stable THEN [kv EXCEPT ![k] = [kind |-> "text", text |-> t]] ELSE kv
      BY <1>2, <2>1, StorePut
    <3>2. out2 = out
      BY <1>2, <2>1
    <3> QED
      BY <1>4, <1>5, <3>1, <3>2
  <2>2. ASSUME NEW k, NEW t \in Texts, NEW pop, NEW rw,
               StepPush(db, db', pop, rw, k, t), ret' = ret
        PROVE  [StableStore!Next]_<<[m \in Stable |-> view[m]], [m \in Stable |-> ret[m]]>>
    <3>1. kv2 = IF k \in Stable
                  THEN [kv EXCEPT ![k] = [kind |-> "list", texts |-> Longer(kv[k], t)]] ELSE kv
      BY <1>2, <1>9, <2>2, StorePush
    <3>2. out2 = out
      BY <1>2, <2>2
    <3> QED
      BY <1>4, <1>6, <3>1, <3>2
  <2>3. ASSUME NEW k \in StrKeys, NEW t \in Texts, MayPut(k), touchdb_put_str(k, t), Rewrites(k)
        PROVE  [StableStore!Next]_<<[m \in Stable |-> view[m]], [m \in Stable |-> ret[m]]>>
    BY <2>1, <2>3, PutStrAct
  <2>4. ASSUME NEW k \in RawKeys, NEW t \in Texts, MayPut(k), touchdb_put(k, t), Rewrites(k)
        PROVE  [StableStore!Next]_<<[m \in Stable |-> view[m]], [m \in Stable |-> ret[m]]>>
    BY <2>1, <2>4, PutRawAct
  <2>5. ASSUME NEW k \in ListKeys, NEW t \in Texts, MayPut(k), get_chain(db, k) = NIL,
               touchdb_list_push(k, t), Rewrites(k)
        PROVE  [StableStore!Next]_<<[m \in Stable |-> view[m]], [m \in Stable |-> ret[m]]>>
    BY <2>2, <2>5, PushNewAct
  <2>6. ASSUME NEW k \in ListKeys, NEW t \in Texts, get_chain(db, k) # NIL,
               touchdb_list_push(k, t), UNCHANGED rewritten
        PROVE  [StableStore!Next]_<<[m \in Stable |-> view[m]], [m \in Stable |-> ret[m]]>>
    BY <2>2, <2>6, PushOldAct
  <2>7. ASSUME NEW k \in ListKeys, touchdb_list_pop(k), UNCHANGED rewritten
        PROVE  [StableStore!Next]_<<[m \in Stable |-> view[m]], [m \in Stable |-> ret[m]]>>
    <3>1. CASE NothingToPop(k)
      <4>1. db' = db /\ ret' = [ret EXCEPT ![k] = None]
        BY <2>7, <3>1, PopNothingAct
      <4>2. kv2 = kv /\ out2 = IF k \in Stable THEN [out EXCEPT ![k] = None] ELSE out
        BY <1>2, <1>10, <4>1, OutStays
      <4>3. ASSUME k \in Stable PROVE kv[k].kind = "list" => kv[k].texts = <<>>
        <5>1. PICK c : c = get_chain(db, k)
          OBVIOUS
        <5>2. c = NIL \/ db.mem[c].header = NIL
          BY <3>1, <5>1 DEF NothingToPop
        <5> QED
          BY <1>9, <1>10, <4>3, <5>1, <5>2, PopNothingStep
      <4> QED
        BY <1>4, <1>8, <4>2, <4>3
    <3>2. CASE ~NothingToPop(k)
      <4>1. PICK t : StepPop(db, db', popped', rewritten', k, t) /\ ret' = [ret EXCEPT ![k] = t]
        BY <2>7, <3>2, PopAct
      <4>2. out2 = IF k \in Stable THEN [out EXCEPT ![k] = t] ELSE out
        BY <1>2, <1>10, <4>1, OutStays
      <4>3. /\ k \notin Stable => kv2 = kv
            /\ k \in Stable =>
                 /\ kv[k].kind = "list" /\ kv[k].texts # <<>> /\ t = Head(kv[k].texts)
                 /\ kv2 = [kv EXCEPT ![k] = [kind |-> "list", texts |-> Tail(kv[k].texts)]]
        BY <1>2, <1>9, <4>1, StorePop
      <4> QED
        BY <1>4, <1>7, <4>2, <4>3
    <3> QED
      BY <3>1, <3>2
  <2> QED
    BY <1>12, <2>3, <2>4, <2>5, <2>6, <2>7 DEF DbNext
<1> QED
  BY <1>11, <1>12

(* A new database is an empty store. *)
LEMMA StoreInit ==
  ASSUME DbInit
  PROVE  StableStore!Init
<1>1. IsEmpty(db) /\ ret = [k \in Keys |-> None]
  BY DEF DbInit, IsEmpty
<1>2. PICK rw, pop : rw = FALSE /\ pop = {}
  BY Zenon
<1>3. InvAt(db, pop, rw)
  BY <1>1, <1>2, EmptySound
<1>4. ASSUME NEW k \in Stable PROVE view[k] = [kind |-> "absent"] /\ ret[k] = None
  <2>1. k \in Keys
    BY DEF Stable
  <2>2. view[k] = Value(db, k)
    BY <2>1 DEF DbInit
  <2>3. get_entry(db, k) = NIL
    <3>1. PICK own, ent, es, ns, T : Sound(db, own, ent, es, ns, pop, rw, T)
      BY <1>3 DEF InvAt
    <3>2. MapOK(db, own, ent, es, ns, rw)
      BY <3>1 DEF Sound
    <3>3. get_entry(db, k) = ent[k]
      BY ONLY <2>1, <3>2, GetEntry
    <3>4. ent[k] # NIL => ent[k] \in db.held
      BY <2>1, <3>2 DEF MapOK, KeyOK, EntryOK, Has
    <3>5. db.held = {}
      BY <1>1 DEF IsEmpty
    <3> QED
      BY <3>3, <3>4, <3>5
  <2>4. Value(db, k) = [kind |-> "absent"]
    BY <2>3 DEF Value
  <2> QED
    BY <1>1, <2>1, <2>2, <2>4
<1>5. [k \in Stable |-> view[k]] = [k \in Stable |-> [kind |-> "absent"]]
      /\ [k \in Stable |-> ret[k]] = [k \in Stable |-> None]
  BY <1>4
<1> QED
  BY <1>5 DEF StableStore!Init, StableStore!Absent

(* The keys that are not rewritten are a key-value store with lists. *)
THEOREM StableIsStore == DbSpec => ImplementsStableStore
<1>1. DbInit => StableStore!Init
  BY StoreInit
<1>2. DbInv /\ [DbNext]_dbVars =>
        [StableStore!Next]_<<[k \in Stable |-> view[k]], [k \in Stable |-> ret[k]]>>
  BY StoreStep
<1> QED
  BY <1>1, <1>2, DbInvariant, PTL DEF DbSpec, ImplementsStableStore, StableStore!Spec
=============================================================================
