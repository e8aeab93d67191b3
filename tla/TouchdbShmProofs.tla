-------------------------- MODULE TouchdbShmProofs --------------------------
(***************************************************************************)
(* Proofs about the writer of TouchdbShm and the kills of its process, for *)
(* every set of keys and texts, number of buckets, readers and calls.      *)
(*                                                                         *)
(* The tables of a store say which entries, nodes and texts its keys have, *)
(* in which blocks, and who owns every block.  Live says that a memory     *)
(* holds the tables, links and texts of which are read; a state is Sound   *)
(* when the memory is so for the tables C, and the writes that the running *)
(* call still has to make lead to a memory that is so for the tables N.    *)
(* One of them is the write after which N is read instead of C.            *)
(***************************************************************************)
EXTENDS TouchdbShm, FiniteSetTheorems, SequenceTheorems, TLAPS

(* A set of natural numbers that is not empty has a least element. *)
LEMMA LeastElement ==
  ASSUME NEW n \in Nat, NEW T \in SUBSET (0 .. n), T # {}
  PROVE  \E x \in T : \A y \in T : x <= y
<1>1. PICK R : R = OpToRel(<, Nat)
  OBVIOUS
<1>2. \A x, y \in Nat : x < y => <<x, y>> \in R
  BY <1>1 DEF OpToRel
<1>3. IsWellFoundedOn(R, Nat)
  BY <1>1, NatLessThanWellFounded
<1>4. PICK x \in T : \A y \in T : ~(<<y, x>> \in R)
  <2>1. T \subseteq Nat
    OBVIOUS
  <2> QED
    BY ONLY <1>3, <2>1, T # {}, WFMin
<1>5. ASSUME NEW y \in T PROVE x <= y
  <2>1. x \in Nat /\ y \in Nat
    OBVIOUS
  <2>2. ~(y < x)
    BY ONLY <1>2, <1>4, <2>1, y \in T
  <2> QED
    BY ONLY <2>1, <2>2
<1> QED
  BY ONLY <1>5, x \in T

(* What holds of 0, and of each number when of the one before, holds up to n. *)
LEMMA UpTo ==
  ASSUME NEW n \in Nat, NEW T \in SUBSET (0 .. n), 0 \in T,
         \A i \in 1 .. n : i - 1 \in T => i \in T
  PROVE  T = 0 .. n
<1> SUFFICES ASSUME (0 .. n) \ T # {} PROVE FALSE
  OBVIOUS
<1>1. PICK x \in (0 .. n) \ T : \A y \in (0 .. n) \ T : x <= y
  <2>1. (0 .. n) \ T \in SUBSET (0 .. n)
    OBVIOUS
  <2> QED
    BY <2>1, LeastElement
<1>2. x \in 1 .. n /\ x - 1 \in 0 .. n /\ x - 1 < x
  BY <1>1
<1> QED
  BY <1>1, <1>2

-----------------------------------------------------------------------------
(* A function that goes along links, a bounded number of steps. *)

(* from takes a from each place of A, in at most n steps: it stops at the  *)
(* places of D with what stop says, and puts together what it finds by c.  *)
Goes(from, A, n, D, stop, nx, c) ==
  from = [p \in A \X (0 .. n) |->
            IF p[1] \in D \/ p[2] = 0 THEN stop ELSE c[p[1]][from[<<nx[p[1]], p[2] - 1>>]]]

(* Such a function exists. *)
LEMMA GoesExists ==
  ASSUME NEW A, NEW n \in Nat, NEW D, NEW S, NEW stop \in S, NEW nx \in [A -> A],
         NEW c \in [A -> [S -> S]]
  PROVE  \E from \in [A \X (0 .. n) -> S] : Goes(from, A, n, D, stop, nx, c)
<1> DEFINE Partly(f, m) ==
             /\ f \in [A \X (0 .. m) -> S]
             /\ \A a \in A, i \in 0 .. m :
                  f[<<a, i>>] = IF a \in D \/ i = 0 THEN stop ELSE c[a][f[<<nx[a], i - 1>>]]
           T == {m \in 0 .. n : \E f : Partly(f, m)}
<1>1. 0 \in T
  <2> DEFINE f == [p \in A \X (0 .. 0) |-> stop]
  <2>1. Partly(f, 0)
    OBVIOUS
  <2> HIDE DEF f
  <2> QED
    BY <2>1
<1>2. ASSUME NEW i \in 1 .. n, i - 1 \in T PROVE i \in T
  <2>1. PICK f : Partly(f, i - 1)
    BY <1>2
  <2> DEFINE g == [p \in A \X (0 .. i) |->
                     IF p[2] < i THEN f[p]
                     ELSE IF p[1] \in D THEN stop ELSE c[p[1]][f[<<nx[p[1]], i - 1>>]]]
  <2>2. i - 1 \in 0 .. i - 1 /\ i \in 0 .. i
    OBVIOUS
  <2>3. \A a \in A, j \in 0 .. i : <<a, j>> \in A \X (0 .. i) /\ <<a, j>>[1] = a /\ <<a, j>>[2] = j
    OBVIOUS
  <2>4. ASSUME NEW a \in A, NEW j \in 0 .. i - 1 PROVE g[<<a, j>>] = f[<<a, j>>] /\ f[<<a, j>>] \in S
    <3>1. j \in 0 .. i /\ j < i
      OBVIOUS
    <3>2. <<a, j>> \in A \X (0 .. i - 1)
      OBVIOUS
    <3> QED
      BY <2>1, <2>3, <3>1, <3>2
  <2>5. ASSUME NEW a \in A
        PROVE  /\ g[<<a, i>>] = IF a \in D THEN stop ELSE c[a][f[<<nx[a], i - 1>>]]
               /\ f[<<nx[a], i - 1>>] = g[<<nx[a], i - 1>>]
               /\ g[<<a, i>>] \in S
    <3>1. g[<<a, i>>] = IF a \in D THEN stop ELSE c[a][f[<<nx[a], i - 1>>]]
      <4>1. PICK p : p = <<a, i>>
        OBVIOUS
      <4>2. p \in A \X (0 .. i) /\ p[1] = a /\ p[2] = i /\ ~(p[2] < i)
        BY <2>2, <4>1
      <4>3. g[p] = IF p[1] \in D THEN stop ELSE c[p[1]][f[<<nx[p[1]], i - 1>>]]
        BY <4>2
      <4> HIDE DEF g
      <4> QED
        BY <4>1, <4>2, <4>3
    <3>2. nx[a] \in A
      OBVIOUS
    <3>3. f[<<nx[a], i - 1>>] = g[<<nx[a], i - 1>>] /\ f[<<nx[a], i - 1>>] \in S
      BY <2>2, <2>4, <3>2
    <3> HIDE DEF g
    <3> QED
      BY <3>1, <3>3
  <2>6. \A a \in A, j \in 0 .. i : j # i => j \in 0 .. i - 1
    OBVIOUS
  <2>7. g \in [A \X (0 .. i) -> S]
    <3>1. \A a \in A, j \in 0 .. i : g[<<a, j>>] \in S
      <4> HIDE DEF g
      <4> QED
        BY <2>4, <2>5, <2>6
    <3>2. \A p \in A \X (0 .. i) : p = <<p[1], p[2]>> /\ p[1] \in A /\ p[2] \in 0 .. i
      OBVIOUS
    <3>3. \A p \in A \X (0 .. i) : g[p] \in S
      <4> HIDE DEF g
      <4> QED
        BY SMTT(30), <3>1, <3>2
    <3> QED
      BY <3>3
  <2>8. ASSUME NEW a \in A, NEW j \in 0 .. i
        PROVE  g[<<a, j>>] = IF a \in D \/ j = 0 THEN stop ELSE c[a][g[<<nx[a], j - 1>>]]
    <3>1. CASE j = i
      <4>1. j # 0
        BY <3>1
      <4> HIDE DEF g
      <4> QED
        BY Zenon, <2>5, <3>1, <4>1
    <3>2. CASE j # i
      <4>1. j \in 0 .. i - 1
        BY <3>2
      <4>2. f[<<a, j>>] = IF a \in D \/ j = 0 THEN stop ELSE c[a][f[<<nx[a], j - 1>>]]
        BY <2>1, <4>1
      <4>3. CASE j = 0
        <5> HIDE DEF g
        <5> QED
          BY <2>4, <4>1, <4>2, <4>3
      <4>4. CASE j # 0
        <5>1. j - 1 \in 0 .. i - 1 /\ nx[a] \in A
          BY <4>1, <4>4
        <5>2. g[<<nx[a], j - 1>>] = f[<<nx[a], j - 1>>]
          BY <2>4, <5>1
        <5> HIDE DEF g
        <5> QED
          BY <2>4, <4>1, <4>2, <5>2
      <4> QED
        BY Zenon, <4>3, <4>4
    <3> QED
      BY Zenon, <3>1, <3>2
  <2> HIDE DEF g
  <2>9. Partly(g, i)
    BY <2>7, <2>8
  <2> QED
    BY <2>9
<1>3. n \in T
  <2>1. T \in SUBSET (0 .. n)
    OBVIOUS
  <2> HIDE DEF T
  <2>2. T = 0 .. n
    BY <1>1, <1>2, <2>1, UpTo
  <2> QED
    BY <2>2
<1>4. PICK f : Partly(f, n)
  BY <1>3
<1>5. ASSUME NEW p \in A \X (0 .. n)
      PROVE  f[p] = IF p[1] \in D \/ p[2] = 0 THEN stop ELSE c[p[1]][f[<<nx[p[1]], p[2] - 1>>]]
  <2>1. p = <<p[1], p[2]>> /\ p[1] \in A /\ p[2] \in 0 .. n
    OBVIOUS
  <2> QED
    BY <1>4, <2>1
<1>6. f = [p \in A \X (0 .. n) |-> f[p]]
  BY <1>4
<1>8. f \in [A \X (0 .. n) -> S]
  BY <1>4
<1> HIDE DEF Partly
<1>7. f = [p \in A \X (0 .. n) |-> IF p[1] \in D \/ p[2] = 0 THEN stop
                                   ELSE c[p[1]][f[<<nx[p[1]], p[2] - 1>>]]]
  BY <1>5, <1>6, Zenon
<1> QED
  BY <1>7, <1>8 DEF Goes

-----------------------------------------------------------------------------
(* The files, and what a client can read in them. *)

Blks == Classes \X Nat

Slots == 0 .. BUCKETS - 1

Bulk(i) == <<"bulk", i>>

Bulks == {Bulk(i) : i \in Slots}

slot(k) == HashOf[k] % BUCKETS

(* The fields of a block of a class. *)
Fields(c) ==
  CASE c = "text"  -> {"h1", "h2"}
    [] c = "pair"  -> {"val"}
    [] c = "chain" -> {"header", "tail", "size"}
    [] c = "bulk"  -> {"header", "tail", "size"}
    [] c = "node"  -> {"next", "val"}
    [] c = "entry" -> {"next", "hash", "key", "val", "h1", "h2"}

TextClasses == {"text", "entry"}

(* The owner of a block is a role, a key and, for a part of a value, the   *)
(* block that points to it.                                                *)
FREE == <<"free", NIL, NIL>>

(* What the last entry of a bucket may have for its next: when texts take  *)
(* blocks of the class of entries, other bytes until it is cleared.        *)
Ends == IF ListTextClass = "text" THEN {NIL} ELSE {NIL, WILD}

(* The blocks have the fields of their class, and links lead to blocks.    *)
Shaped(m) ==
  /\ Bulks \subseteq DOMAIN m
  /\ DOMAIN m \subseteq Bulks \cup Blks
  /\ \A b \in DOMAIN m : DOMAIN m[b] = Fields(b[1])
  /\ \A b \in DOMAIN m : "next" \in DOMAIN m[b] => m[b]["next"] \in Addr
  /\ \A b \in DOMAIN m : "header" \in DOMAIN m[b] => m[b]["header"] \in Addr

(* b is a block of a class in cs that is the owner's. *)
Has(m, own, b, cs, tag) == b \in Blks /\ b[1] \in cs /\ b \in DOMAIN m /\ own[b] = tag

Nth(s, j) == IF j \in 1 .. Len(s) THEN s[j] ELSE NIL

(* The string s, and its text t in both halves. *)
StrLive(m, own, s, k, tag, t) ==
  /\ Has(m, own, s, {"pair"}, tag)
  /\ Has(m, own, m[s].val.addr, TextClasses, <<"text", k, s>>)
  /\ m[m[s].val.addr].h1 = t /\ m[m[s].val.addr].h2 = t

NodeLive(m, own, n, next, k, t) ==
  /\ Has(m, own, n, {"node"}, <<"node", k, NIL>>)
  /\ m[n].next = next
  /\ m[n].val.type = STR
  /\ StrLive(m, own, m[n].val.addr, k, <<"str", k, n>>, t)

(* The chain c of k, with the nodes s, each once, and their texts. *)
ListLive(m, own, c, s, k, texts) ==
  /\ Has(m, own, c, {"chain"}, <<"chain", k, NIL>>)
  /\ s \in Seq(Blks) /\ texts \in Seq(Texts) /\ Len(texts) = Len(s)
  /\ m[c].header = Nth(s, 1)
  /\ \A j \in 1 .. Len(s) : NodeLive(m, own, s[j], Nth(s, j + 1), k, texts[j])
  /\ \A i, j \in 1 .. Len(s) : s[i] = s[j] => i = j

(* The entry e of k, with its hash and its copy of the key. *)
EntryLive(m, own, e, k) ==
  /\ Has(m, own, e, {"entry"}, <<"entry", k, NIL>>)
  /\ m[e].hash = HashOf[k]
  /\ Has(m, own, m[e].key, {"text"}, <<"key", k, NIL>>)
  /\ m[m[e].key].h1 = k /\ m[m[e].key].h2 = k

(* The value v of k in its entry e, with the nodes s if it is a list. *)
ValueLive(m, own, e, s, k, v) ==
  /\ k \in StrKeys => /\ m[e].val.type = STR
                      /\ v = [kind |-> "text", text |-> v.text]
                      /\ StrLive(m, own, m[e].val.addr, k, <<"val", k, NIL>>, v.text)
  /\ k \in ListKeys => /\ m[e].val.type = CHAIN
                       /\ v = [kind |-> "list", texts |-> v.texts]
                       /\ ListLive(m, own, m[e].val.addr, s, k, v.texts)

KeyLive(m, own, e, s, k, v) ==
  IF e = NIL THEN v = [kind |-> "absent"] ELSE EntryLive(m, own, e, k) /\ ValueLive(m, own, e, s, k, v)

(* Bucket i links the entries of the keys s, each once. *)
BucketLive(m, i, ent, s) ==
  /\ s \in Seq(Keys)
  /\ m[Bulk(i)].header = IF s = <<>> THEN NIL ELSE ent[s[1]]
  /\ \A j \in 1 .. Len(s) :
       /\ ent[s[j]] # NIL
       /\ slot(s[j]) = i
       /\ IF j < Len(s) THEN m[ent[s[j]]].next = ent[s[j + 1]] ELSE m[ent[s[j]]].next \in Ends
  /\ \A j, l \in 1 .. Len(s) : s[j] = s[l] => j = l

(* What clients read: the entries ent of the keys, in the buckets es, with *)
(* the values kv, and the nodes ns of the lists among them.                *)
Live(m, own, ent, es, ns, kv) ==
  /\ \A i \in Slots : BucketLive(m, i, ent, es[i])
  /\ \A k \in Keys : ent[k] # NIL => \E j \in 1 .. Len(es[slot(k)]) : es[slot(k)][j] = k
  /\ \A k \in Keys : KeyLive(m, own, ent[k], ns[k], k, kv[k])
  /\ kv = [k \in Keys |-> kv[k]]

(* No walk is longer than n. *)
Short(es, ns, n) ==
  /\ \A i \in Slots : es[i] \in Seq(Keys) /\ Len(es[i]) <= n
  /\ \A k \in Keys : ns[k] \in Seq(Blks) /\ Len(ns[k]) <= n

-----------------------------------------------------------------------------
(* Reading. *)

(* Blocks, buckets and NULL are different. *)
LEMMA Apart ==
  /\ NIL \notin Blks /\ WILD \notin Blks /\ NIL # WILD
  /\ \A b \in Bulks : b \notin Blks /\ b # NIL /\ b # WILD /\ b[1] = "bulk"
  /\ Blks \subseteq Addr /\ NIL \in Addr /\ WILD \in Addr
  /\ \A b \in Blks : b[1] \in Classes /\ b[1] # "bulk"
  /\ Bulks \cap Addr = {}
BY DEF NIL, WILD, Blks, Bulks, Bulk, Classes, Addr

(* The slot of a key. *)
LEMMA SlotIs ==
  ASSUME NEW k \in Keys
  PROVE  slot(k) \in Slots /\ bulk(k) = Bulk(slot(k))
<1>1. HashOf[k] \in Nat /\ BUCKETS \in Nat \ {0}
  BY ShmAssumption
<1> QED
  BY <1>1 DEF slot, Slots, bulk, Bulk

(* What a read of a block finds. *)
LEMMA ReadIs ==
  ASSUME Shaped(mem), NEW b \in DOMAIN mem, b \in Addr, NEW f \in Fields(b[1])
  PROVE  Read(b, f) = mem[b][f]
BY DEF Read, Shaped

(* A read of a block that is not carved finds other bytes. *)
LEMMA ReadNone ==
  ASSUME NEW b \in Addr, b \notin DOMAIN mem, NEW f
  PROVE  Read(b, f) = WILD
BY DEF Read

(* The address in a value is read as it is. *)
LEMMA ValueAtIs ==
  ASSUME Shaped(mem), NEW b \in DOMAIN mem, b \in Addr, "val" \in Fields(b[1])
  PROVE  ValueAt(b) = mem[b].val.addr
BY DEF ValueAt, Shaped

(* The text that a node or an entry leads to. *)
LEMMA TextIs ==
  ASSUME Shaped(mem), NEW own, NEW b \in DOMAIN mem, b \in Blks, "val" \in Fields(b[1]),
         NEW k, NEW tag, NEW t, StrLive(mem, own, mem[b].val.addr, k, tag, t)
  PROVE  TextAt(b) = t
<1> DEFINE s == mem[b].val.addr
           d == mem[s].val.addr
<1>1. s \in DOMAIN mem /\ s \in Blks /\ s[1] = "pair"
  BY DEF StrLive, Has
<1>2. d \in DOMAIN mem /\ d \in Blks /\ d[1] \in TextClasses /\ mem[d].h1 = t /\ mem[d].h2 = t
  BY DEF StrLive, Has
<1> HIDE DEF s, d
<1>3. ValueAt(b) = s
  BY ValueAtIs, Apart DEF s
<1>4. "val" \in Fields(s[1])
  BY <1>1 DEF Fields
<1>5. ValueAt(s) = d
  BY <1>1, <1>4, ValueAtIs, Apart DEF d
<1>6. "h1" \in Fields(d[1]) /\ "h2" \in Fields(d[1])
  BY <1>2 DEF Fields, TextClasses
<1>7. Read(d, "h1") = t /\ Read(d, "h2") = t
  BY <1>2, <1>6, ReadIs, Apart
<1> QED
  BY <1>3, <1>5, <1>7 DEF TextAt, Whole

(* A key is found at its own entry only. *)
LEMMA IsKeyIs ==
  ASSUME Shaped(mem), NEW own, NEW e, NEW k, EntryLive(mem, own, e, k), NEW m \in Keys
  PROVE  IsKey(e, m) <=> m = k
<1> DEFINE kb == mem[e].key
<1>1. e[1] = "entry" /\ mem[e].hash = HashOf[k]
  BY DEF EntryLive, Has
<1>2. kb \in DOMAIN mem /\ kb \in Blks /\ kb[1] = "text" /\ mem[kb].h1 = k /\ mem[kb].h2 = k
  BY DEF EntryLive, Has
<1> HIDE DEF kb
<1>3. "h1" \in Fields(kb[1]) /\ "h2" \in Fields(kb[1])
  BY <1>2 DEF Fields
<1>4. Read(kb, "h1") = k /\ Read(kb, "h2") = k
  BY <1>2, <1>3, ReadIs, Apart
<1>5. Read(mem[e].key, "h1") = k /\ Read(mem[e].key, "h2") = k
  BY <1>4 DEF kb
<1> QED
  BY <1>1, <1>5 DEF IsKey

-----------------------------------------------------------------------------
(* Walks along next are functions of the memory. *)

(* Next leads from a block to a block. *)
LEMMA NextIn ==
  ASSUME Shaped(mem), NEW a \in Addr
  PROVE  Read(a, "next") \in Addr
<1>1. Read(a, "next") = IF a \in DOMAIN mem /\ "next" \in DOMAIN mem[a] THEN mem[a]["next"] ELSE WILD
  BY DEF Read
<1> QED
  BY <1>1, Apart DEF Shaped

EntryWalk(from, k) ==
  from = [p \in Addr \X (0 .. Far) |->
            IF p[1] = NIL \/ p[2] = 0 THEN NIL
            ELSE IF IsKey(p[1], k) THEN p[1] ELSE from[<<Read(p[1], "next"), p[2] - 1>>]]

(* The walk of get_entry is a function. *)
LEMMA EntryWalkExists ==
  ASSUME Shaped(mem), NEW k
  PROVE  \E from : EntryWalk(from, k)
<1> DEFINE nx == [a \in Addr |-> Read(a, "next")]
           c  == [a \in Addr |-> [x \in Addr |-> IF IsKey(a, k) THEN a ELSE x]]
<1>1. nx \in [Addr -> Addr]
  BY NextIn
<1>2. c \in [Addr -> [Addr -> Addr]]
  OBVIOUS
<1>3. Far \in Nat /\ NIL \in Addr
  BY ShmAssumption, Apart DEF Far
<1>4. PICK from \in [Addr \X (0 .. Far) -> Addr] : Goes(from, Addr, Far, {NIL}, NIL, nx, c)
  <2> HIDE DEF nx, c
  <2> QED
    BY <1>1, <1>2, <1>3, GoesExists
<1>5. from = [p \in Addr \X (0 .. Far) |-> from[p]]
  OBVIOUS
<1>6. ASSUME NEW p \in Addr \X (0 .. Far)
      PROVE  from[p] = IF p[1] = NIL \/ p[2] = 0 THEN NIL
                       ELSE IF IsKey(p[1], k) THEN p[1] ELSE from[<<Read(p[1], "next"), p[2] - 1>>]
  <2>1. p = <<p[1], p[2]>> /\ p[1] \in Addr /\ p[2] \in 0 .. Far
    OBVIOUS
  <2> DEFINE body(q) == IF q[1] \in {NIL} \/ q[2] = 0 THEN NIL
                        ELSE c[q[1]][from[<<nx[q[1]], q[2] - 1>>]]
  <2>2. from[p] = IF p[1] \in {NIL} \/ p[2] = 0 THEN NIL ELSE c[p[1]][from[<<nx[p[1]], p[2] - 1>>]]
    <3>1. from = [q \in Addr \X (0 .. Far) |-> body(q)]
      <4> HIDE DEF nx, c
      <4> QED
        BY <1>4, Zenon DEF Goes
    <3>2. from[p] = body(p)
      <4> HIDE DEF body
      <4> QED
        BY <3>1, Zenon
    <3> QED
      BY <3>2
  <2> HIDE DEF body
  <2>3. CASE p[1] = NIL \/ p[2] = 0
    BY <2>2, <2>3
  <2>4. CASE ~(p[1] = NIL \/ p[2] = 0)
    <3>1. nx[p[1]] = Read(p[1], "next") /\ nx[p[1]] \in Addr
      BY <1>1, <2>1
    <3>2. p[2] - 1 \in 0 .. Far
      BY <1>3, <2>1, <2>4
    <3>3. from[<<nx[p[1]], p[2] - 1>>] \in Addr
      <4> HIDE DEF nx
      <4> QED
        BY <3>1, <3>2
    <3>4. \A x \in Addr : c[p[1]][x] = IF IsKey(p[1], k) THEN p[1] ELSE x
      BY <2>1
    <3> HIDE DEF nx, c
    <3> QED
      BY <2>2, <2>4, <3>1, <3>3, <3>4
  <2> QED
    BY <2>3, <2>4
<1>7. EntryWalk(from, k)
  BY <1>5, <1>6, Zenon DEF EntryWalk
<1> QED
  BY <1>7

(* What the walk finds at a place. *)
LEMMA EntryWalkOn ==
  ASSUME NEW k, NEW from, EntryWalk(from, k), NEW a \in Addr, NEW i \in 0 .. Far
  PROVE  from[<<a, i>>] = IF a = NIL \/ i = 0 THEN NIL
                          ELSE IF IsKey(a, k) THEN a ELSE from[<<Read(a, "next"), i - 1>>]
<1> DEFINE body(p) == IF p[1] = NIL \/ p[2] = 0 THEN NIL
                      ELSE IF IsKey(p[1], k) THEN p[1] ELSE from[<<Read(p[1], "next"), p[2] - 1>>]
<1>1. PICK p : p = <<a, i>>
  OBVIOUS
<1>2. p \in Addr \X (0 .. Far) /\ p[1] = a /\ p[2] = i
  BY <1>1
<1>3. from = [q \in Addr \X (0 .. Far) |-> body(q)]
  BY DEF EntryWalk
<1>4. from[p] = body(p)
  <2> HIDE DEF body
  <2> QED
    BY <1>2, <1>3, Zenon
<1> QED
  BY <1>1, <1>2, <1>4

(* Behind the last entry it finds nothing. *)
LEMMA EntryWalkEnds ==
  ASSUME Shaped(mem), NEW k, NEW from, EntryWalk(from, k), NEW x \in {NIL, WILD}, NEW n \in 0 .. Far
  PROVE  from[<<x, n>>] = NIL
<1> DEFINE T == {i \in 0 .. Far : from[<<x, i>>] = NIL}
<1>0. Far \in Nat /\ x \in Addr
  BY ShmAssumption, Apart DEF Far
<1>1. 0 \in T
  <2>1. 0 \in 0 .. Far
    BY <1>0
  <2>2. from[<<x, 0>>] = NIL
    BY Zenon, <1>0, <2>1, EntryWalkOn
  <2> QED
    BY <2>1, <2>2
<1>2. ASSUME NEW i \in 1 .. Far, i - 1 \in T PROVE i \in T
  <2>1. from[<<x, i>>] = IF x = NIL \/ i = 0 THEN NIL
                         ELSE IF IsKey(x, k) THEN x ELSE from[<<Read(x, "next"), i - 1>>]
    BY <1>0, EntryWalkOn
  <2>2. CASE x = WILD
    <3>1. ~IsKey(x, k)
      BY <2>2 DEF IsKey, WILD
    <3>2. Read(x, "next") = WILD
      <4>1. WILD \notin DOMAIN mem
        BY Apart DEF Shaped
      <4> QED
        BY <1>0, <2>2, <4>1, ReadNone
    <3> QED
      BY <1>2, <2>1, <2>2, <3>1, <3>2
  <2> QED
    BY <2>1, <2>2
<1>3. T \in SUBSET (0 .. Far)
  OBVIOUS
<1>4. T = 0 .. Far
  <2> HIDE DEF T
  <2> QED
    BY <1>0, <1>1, <1>2, <1>3, UpTo
<1> QED
  BY <1>4

(* The entry that the links of a bucket lead to is that of the key. *)
LEMMA EntryIs ==
  ASSUME Shaped(mem), NEW own, NEW ent, NEW es, NEW ns, NEW kv, Live(mem, own, ent, es, ns, kv),
         Short(es, ns, Far), NEW k \in Keys
  PROVE  EntryOf(k) = ent[k]
<1> DEFINE s == es[slot(k)]
           L == Len(s)
           at(j) == IF j <= L THEN ent[s[j]] ELSE IF L = 0 THEN NIL ELSE mem[ent[s[L]]].next
<1>0. Far \in Nat /\ BucketLive(mem, slot(k), ent, s) /\ L <= Far /\ L \in Nat /\ s \in Seq(Keys)
      /\ bulk(k) = Bulk(slot(k))
  BY SMTT(30), ShmAssumption, SlotIs DEF Far, Live, Short, BucketLive
<1>1. PICK from : EntryWalk(from, k)
  BY EntryWalkExists
<1>2. EntryOf(k) = LET f == CHOOSE f : EntryWalk(f, k) IN f[<<mem[bulk(k)].header, Far>>]
  BY Zenon DEF EntryOf, EntryWalk
<1>3. PICK f : f = (CHOOSE g : EntryWalk(g, k)) /\ EntryWalk(f, k)
  BY <1>1, Zenon
<1>4. EntryOf(k) = f[<<mem[bulk(k)].header, Far>>]
  BY <1>2, <1>3
<1> HIDE DEF s, L
<1>5. ASSUME NEW j \in 1 .. L
      PROVE  /\ s[j] \in Keys /\ at(j) = ent[s[j]] /\ EntryLive(mem, own, at(j), s[j])
             /\ at(j) \in Addr /\ at(j) # NIL /\ (IsKey(at(j), k) <=> k = s[j])
             /\ Read(at(j), "next") = at(j + 1)
  <2>1. s[j] \in Keys /\ at(j) = ent[s[j]] /\ at(j) # NIL
    BY <1>0 DEF BucketLive, L
  <2>2. EntryLive(mem, own, at(j), s[j])
    BY <2>1 DEF Live, KeyLive
  <2>3. at(j) \in Addr /\ at(j) \in DOMAIN mem /\ "next" \in Fields(at(j)[1])
    BY <2>2, Apart DEF EntryLive, Has, Fields
  <2>4. IsKey(at(j), k) <=> k = s[j]
    <3> HIDE DEF at
    <3> QED
      BY <2>1, <2>2, IsKeyIs
  <2>5. Read(at(j), "next") = mem[at(j)]["next"]
    <3> HIDE DEF at
    <3> QED
      BY <2>3, ReadIs
  <2>6. mem[at(j)]["next"] = at(j + 1)
    <3>1. CASE j < L
      <4>1. mem[ent[s[j]]].next = ent[s[j + 1]] /\ j + 1 <= L
        BY <1>0, <3>1 DEF BucketLive, L
      <4> QED
        BY <2>1, <4>1
    <3>2. CASE j = L
      BY <1>0, <2>1, <3>2
    <3> QED
      BY <1>0, <3>1, <3>2
  <2> QED
    BY <2>1, <2>2, <2>3, <2>4, <2>5, <2>6
<1>6. at(L + 1) \in {NIL, WILD}
  <2>1. CASE L = 0
    BY <2>1
  <2>2. CASE L # 0
    <3>1. L \in 1 .. L /\ ~(L + 1 <= L)
      BY <1>0, <2>2
    <3>2. mem[ent[s[L]]].next \in Ends
      BY <1>0, <3>1 DEF BucketLive, L
    <3> QED
      BY <2>2, <3>1, <3>2 DEF Ends
  <2> QED
    BY <2>1, <2>2
<1>7. mem[bulk(k)].header = at(1)
  BY <1>0 DEF BucketLive, L, s
<1> DEFINE P(j) == f[<<at(j), Far - j + 1>>] = IF \E i \in j .. L : s[i] = k THEN ent[k] ELSE NIL
           T == {d \in 0 .. L : P(L + 1 - d)}
<1> HIDE DEF at
<1>8. 0 \in T
  <2>1. L + 1 .. L = {} /\ Far - (L + 1) + 1 \in 0 .. Far /\ L + 1 - 0 = L + 1
    BY <1>0
  <2>2. f[<<at(L + 1), Far - (L + 1) + 1>>] = NIL
    BY <1>3, <1>6, <2>1, EntryWalkEnds
  <2>3. ~\E i \in L + 1 .. L : s[i] = k
    BY <2>1
  <2> QED
    BY <1>0, <2>1, <2>2, <2>3
<1>9. ASSUME NEW d \in 1 .. L, d - 1 \in T PROVE d \in T
  <2>1. PICK j : j = L + 1 - d
    OBVIOUS
  <2>2. j \in 1 .. L /\ L + 1 - (d - 1) = j + 1 /\ Far - j + 1 \in 1 .. Far
    BY <1>0, <2>1
  <2>3. P(j + 1)
    BY <1>9, <2>2
  <2>4. f[<<at(j), Far - j + 1>>] = IF at(j) = NIL \/ Far - j + 1 = 0 THEN NIL
                                    ELSE IF IsKey(at(j), k) THEN at(j)
                                    ELSE f[<<Read(at(j), "next"), (Far - j + 1) - 1>>]
    <3>1. at(j) \in Addr /\ Far - j + 1 \in 0 .. Far
      BY <1>0, <1>5, <2>2
    <3> QED
      BY ONLY <1>3, <3>1, EntryWalkOn
  <2>5. (Far - j + 1) - 1 = Far - (j + 1) + 1
    BY <1>0, <2>2
  <2>8. Far - j + 1 # 0
    BY <1>0, <2>2
  <2>10. at(j) # NIL /\ (IsKey(at(j), k) <=> k = s[j]) /\ at(j) = ent[s[j]] /\ Read(at(j), "next") = at(j + 1)
    BY <1>5, <2>2
  <2>9. d \in 0 .. L /\ L + 1 - d = j
    BY <1>0, <2>1
  <2>6. CASE s[j] = k
    <3>1. \E i \in j .. L : s[i] = k
      BY <1>0, <2>2, <2>6
    <3>2. f[<<at(j), Far - j + 1>>] = ent[k]
      BY ONLY <2>4, <2>6, <2>8, <2>10
    <3> QED
      BY <2>9, <3>1, <3>2
  <2>7. CASE s[j] # k
    <3>1. (\E i \in j .. L : s[i] = k) <=> (\E i \in j + 1 .. L : s[i] = k)
      BY <1>0, <2>2, <2>7
    <3>2. f[<<at(j), Far - j + 1>>] = f[<<at(j + 1), Far - (j + 1) + 1>>]
      BY ONLY <2>4, <2>5, <2>7, <2>8, <2>10
    <3> QED
      BY <2>3, <2>9, <3>1, <3>2
  <2> QED
    BY <2>6, <2>7
<1>10. P(1)
  <2>1. T \in SUBSET (0 .. L)
    OBVIOUS
  <2>2. T = 0 .. L
    <3> HIDE DEF T
    <3> QED
      BY <1>0, <1>8, <1>9, <2>1, UpTo
  <2>3. L \in T
    <3> HIDE DEF T
    <3> QED
      BY <1>0, <2>2
  <2>4. L + 1 - L = 1
    BY <1>0
  <2> QED
    BY <2>3, <2>4
<1>11. (\E i \in 1 .. L : s[i] = k) <=> ent[k] # NIL
  <2>1. ent[k] # NIL => \E i \in 1 .. L : s[i] = k
    BY DEF Live, s, L
  <2> QED
    BY <1>5, <2>1 DEF at
<1>12. Far - 1 + 1 = Far
  BY <1>0
<1> QED
  BY <1>4, <1>7, <1>10, <1>11, <1>12

TextWalk(from) ==
  from = [p \in Addr \X (0 .. Far) |->
            IF p[1] = NIL \/ p[2] = 0 THEN <<>>
            ELSE <<TextAt(p[1])>> \o from[<<Read(p[1], "next"), p[2] - 1>>]]

(* The walk along the nodes of a chain is a function. *)
LEMMA TextWalkExists ==
  ASSUME Shaped(mem)
  PROVE  \E from : TextWalk(from)
<1> DEFINE S  == Seq({TextAt(a) : a \in Addr})
           nx == [a \in Addr |-> Read(a, "next")]
           c  == [a \in Addr |-> [x \in S |-> <<TextAt(a)>> \o x]]
<1>1. nx \in [Addr -> Addr]
  BY NextIn
<1>2. c \in [Addr -> [S -> S]]
  <2>1. ASSUME NEW a \in Addr, NEW x \in S PROVE <<TextAt(a)>> \o x \in S
    <3>1. PICK X : X = {TextAt(b) : b \in Addr}
      OBVIOUS
    <3>2. TextAt(a) \in X /\ x \in Seq(X)
      BY <3>1
    <3>3. <<TextAt(a)>> \in Seq(X)
      BY <3>2
    <3> QED
      BY ONLY <3>1, <3>2, <3>3, ConcatProperties
  <2> HIDE DEF S
  <2> QED
    BY <2>1
<1>3. Far \in Nat /\ NIL \in Addr
  BY ShmAssumption, Apart DEF Far
<1>4. PICK from \in [Addr \X (0 .. Far) -> S] : Goes(from, Addr, Far, {NIL}, <<>>, nx, c)
  <2>1. <<>> \in S
    OBVIOUS
  <2> HIDE DEF nx, c, S
  <2> QED
    BY <1>1, <1>2, <1>3, <2>1, GoesExists
<1>5. from = [p \in Addr \X (0 .. Far) |-> from[p]]
  <2> HIDE DEF S
  <2> QED
    OBVIOUS
<1>6. ASSUME NEW p \in Addr \X (0 .. Far)
      PROVE  from[p] = IF p[1] = NIL \/ p[2] = 0 THEN <<>>
                       ELSE <<TextAt(p[1])>> \o from[<<Read(p[1], "next"), p[2] - 1>>]
  <2>1. p = <<p[1], p[2]>> /\ p[1] \in Addr /\ p[2] \in 0 .. Far
    OBVIOUS
  <2> DEFINE body(q) == IF q[1] \in {NIL} \/ q[2] = 0 THEN <<>>
                        ELSE c[q[1]][from[<<nx[q[1]], q[2] - 1>>]]
  <2>2. from[p] = IF p[1] \in {NIL} \/ p[2] = 0 THEN <<>> ELSE c[p[1]][from[<<nx[p[1]], p[2] - 1>>]]
    <3>1. from = [q \in Addr \X (0 .. Far) |-> body(q)]
      <4> HIDE DEF nx, c, S
      <4> QED
        BY <1>4, Zenon DEF Goes
    <3>2. from[p] = body(p)
      <4> HIDE DEF body, S
      <4> QED
        BY <3>1, Zenon
    <3> QED
      BY <3>2
  <2> HIDE DEF body
  <2>3. CASE p[1] = NIL \/ p[2] = 0
    BY <2>2, <2>3
  <2>4. CASE ~(p[1] = NIL \/ p[2] = 0)
    <3>1. nx[p[1]] = Read(p[1], "next") /\ nx[p[1]] \in Addr
      BY <1>1, <2>1
    <3>2. p[2] - 1 \in 0 .. Far
      BY <1>3, <2>1, <2>4
    <3>3. from[<<nx[p[1]], p[2] - 1>>] \in S
      <4> HIDE DEF nx, S
      <4> QED
        BY <3>1, <3>2
    <3>4. \A x \in S : c[p[1]][x] = <<TextAt(p[1])>> \o x
      <4> HIDE DEF S
      <4> QED
        BY <2>1
    <3> HIDE DEF nx, c, S
    <3> QED
      BY <2>2, <2>4, <3>1, <3>3, <3>4
  <2> QED
    BY <2>3, <2>4
<1>7. TextWalk(from)
  <2> HIDE DEF S
  <2> QED
    BY <1>5, <1>6, Zenon DEF TextWalk
<1> QED
  BY <1>7

(* What the walk finds at a place. *)
LEMMA TextWalkOn ==
  ASSUME NEW from, TextWalk(from), NEW a \in Addr, NEW i \in 0 .. Far
  PROVE  from[<<a, i>>] = IF a = NIL \/ i = 0 THEN <<>>
                          ELSE <<TextAt(a)>> \o from[<<Read(a, "next"), i - 1>>]
<1> DEFINE body(p) == IF p[1] = NIL \/ p[2] = 0 THEN <<>>
                      ELSE <<TextAt(p[1])>> \o from[<<Read(p[1], "next"), p[2] - 1>>]
<1>1. PICK p : p = <<a, i>>
  OBVIOUS
<1>2. p \in Addr \X (0 .. Far) /\ p[1] = a /\ p[2] = i
  BY <1>1
<1>3. from = [q \in Addr \X (0 .. Far) |-> body(q)]
  BY DEF TextWalk
<1>4. from[p] = body(p)
  <2> HIDE DEF body
  <2> QED
    BY <1>2, <1>3, Zenon
<1> QED
  BY <1>1, <1>2, <1>4

(* A text before the texts that follow it. *)
LEMMA Onwards ==
  ASSUME NEW S, NEW s \in Seq(S), NEW j \in 1 .. Len(s)
  PROVE  <<s[j]>> \o SubSeq(s, j + 1, Len(s)) = SubSeq(s, j, Len(s))
<1> DEFINE L == Len(s)
           a == <<s[j]>> \o SubSeq(s, j + 1, L)
           b == SubSeq(s, j, L)
<1>1. L \in Nat /\ s[j] \in S
  OBVIOUS
<1>2. <<s[j]>> \in Seq(S) /\ SubSeq(s, j + 1, L) \in Seq(S) /\ b \in Seq(S)
  BY <1>1
<1>3. Len(SubSeq(s, j + 1, L)) = L - j /\ Len(b) = L - j + 1 /\ Len(<<s[j]>>) = 1
  BY <1>1
<1>4. a \in Seq(S) /\ Len(a) = L - j + 1
  BY <1>1, <1>2, <1>3
<1>5. ASSUME NEW i \in 1 .. L - j + 1 PROVE a[i] = b[i]
  <2>1. b[i] = s[j + i - 1]
    BY <1>1
  <2>2. CASE i = 1
    BY <1>1, <1>2, <1>3, <2>1, <2>2
  <2>3. CASE i # 1
    <3>1. i - 1 \in 1 .. L - j
      BY <2>3, <1>1
    <3>2. SubSeq(s, j + 1, L)[i - 1] = s[(j + 1) + (i - 1) - 1]
      BY <1>1, <3>1
    <3>3. a[i] = SubSeq(s, j + 1, L)[i - 1]
      BY <1>1, <1>2, <1>3, <2>3
    <3> QED
      BY <1>1, <2>1, <3>2, <3>3
  <2> QED
    BY <2>2, <2>3
<1> HIDE DEF a, b
<1>6. a = b
  BY <1>2, <1>3, <1>4, <1>5, SeqEqual
<1> QED
  BY <1>6 DEF a, b

(* The texts that the links of a chain lead to. *)
LEMMA TextsIs ==
  ASSUME Shaped(mem), NEW own, NEW c, NEW s, NEW k, NEW texts, ListLive(mem, own, c, s, k, texts),
         Len(s) <= Far
  PROVE  TextsOf(c) = texts
<1> DEFINE L == Len(s)
           at(j) == Nth(s, j)
<1>0. Far \in Nat /\ L \in Nat /\ L <= Far /\ Len(texts) = L /\ s \in Seq(Blks) /\ texts \in Seq(Texts)
  BY ShmAssumption DEF Far, ListLive
<1>1. PICK from : TextWalk(from)
  BY TextWalkExists
<1>2. TextsOf(c) = LET f == CHOOSE f : TextWalk(f) IN f[<<Read(c, "header"), Far>>]
  BY Zenon DEF TextsOf, TextWalk
<1>3. PICK f : f = (CHOOSE g : TextWalk(g)) /\ TextWalk(f)
  BY <1>1, Zenon
<1>4. TextsOf(c) = f[<<Read(c, "header"), Far>>]
  BY <1>2, <1>3
<1>5. ASSUME NEW j \in 1 .. L
      PROVE  /\ at(j) \in Addr /\ at(j) # NIL /\ TextAt(at(j)) = texts[j]
             /\ Read(at(j), "next") = at(j + 1)
  <2>1. at(j) = s[j]
    BY DEF Nth
  <2>2. NodeLive(mem, own, at(j), at(j + 1), k, texts[j])
    BY <2>1 DEF ListLive
  <2> HIDE DEF at
  <2>3. at(j) \in Blks /\ at(j) \in DOMAIN mem /\ at(j)[1] = "node"
    BY <2>2 DEF NodeLive, Has
  <2>4. at(j) \in Addr /\ at(j) # NIL /\ "next" \in Fields(at(j)[1]) /\ "val" \in Fields(at(j)[1])
    BY <2>3, Apart DEF Fields
  <2>5. TextAt(at(j)) = texts[j]
    BY <2>2, <2>3, <2>4, TextIs DEF NodeLive
  <2>6. Read(at(j), "next") = at(j + 1)
    BY <2>2, <2>3, <2>4, ReadIs DEF NodeLive
  <2> QED
    BY <2>4, <2>5, <2>6
<1>6. at(L + 1) = NIL
  BY <1>0 DEF Nth
<1>7. Read(c, "header") = at(1)
  <2>1. c \in Addr /\ c \in DOMAIN mem /\ "header" \in Fields(c[1])
    BY Apart DEF ListLive, Has, Fields
  <2>2. Read(c, "header") = mem[c]["header"]
    BY <2>1, ReadIs
  <2> QED
    BY <2>2 DEF ListLive
<1> DEFINE P(j) == f[<<at(j), Far - j + 1>>] = SubSeq(texts, j, L)
           T == {d \in 0 .. L : P(L + 1 - d)}
<1> HIDE DEF at, L
<1>8. 0 \in T
  <2>1. Far - (L + 1) + 1 \in 0 .. Far /\ L + 1 - 0 = L + 1
    BY <1>0
  <2>2. f[<<NIL, Far - (L + 1) + 1>>] = <<>>
    BY <1>3, <2>1, TextWalkOn, Apart
  <2>3. SubSeq(texts, L + 1, L) = <<>>
    BY <1>0
  <2>4. P(L + 1)
    BY <1>6, <2>2, <2>3
  <2>5. 0 \in 0 .. L
    BY <1>0
  <2> HIDE DEF P
  <2> QED
    BY <2>1, <2>4, <2>5
<1>9. ASSUME NEW d \in 1 .. L, d - 1 \in T PROVE d \in T
  <2>1. PICK j : j = L + 1 - d
    OBVIOUS
  <2>2. j \in 1 .. L /\ L + 1 - (d - 1) = j + 1 /\ Far - j + 1 \in 0 .. Far /\ Far - j + 1 # 0
        /\ d \in 0 .. L /\ L + 1 - d = j /\ (Far - j + 1) - 1 = Far - (j + 1) + 1
    BY <1>0, <2>1
  <2>3. P(j + 1)
    BY <1>9, <2>2
  <2>4. /\ at(j) \in Addr /\ at(j) # NIL /\ TextAt(at(j)) = texts[j]
        /\ Read(at(j), "next") = at(j + 1)
    BY <1>5, <2>2
  <2>5. f[<<at(j), Far - j + 1>>] = IF at(j) = NIL \/ Far - j + 1 = 0 THEN <<>>
                                    ELSE <<TextAt(at(j))>> \o f[<<Read(at(j), "next"), (Far - j + 1) - 1>>]
    <3>1. at(j) \in Addr /\ Far - j + 1 \in 0 .. Far
      BY <2>2, <2>4
    <3> QED
      BY ONLY <1>3, <3>1, TextWalkOn
  <2>6. f[<<at(j), Far - j + 1>>] = <<texts[j]>> \o SubSeq(texts, j + 1, L)
    BY ONLY <2>2, <2>3, <2>4, <2>5
  <2>7. <<texts[j]>> \o SubSeq(texts, j + 1, L) = SubSeq(texts, j, L)
    BY <1>0, <2>2, Onwards
  <2> QED
    BY <2>2, <2>6, <2>7
<1>10. P(1)
  <2>1. T \in SUBSET (0 .. L)
    OBVIOUS
  <2>2. T = 0 .. L
    <3> HIDE DEF T
    <3> QED
      BY <1>0, <1>8, <1>9, <2>1, UpTo
  <2>3. L \in T
    <3> HIDE DEF T
    <3> QED
      BY <1>0, <2>2
  <2>4. L + 1 - L = 1
    BY <1>0
  <2> QED
    BY <2>3, <2>4
<1>11. Far - 1 + 1 = Far /\ SubSeq(texts, 1, L) = texts
  BY <1>0
<1> QED
  BY <1>4, <1>7, <1>10, <1>11

(* The value that a key leads to. *)
LEMMA ValueIs ==
  ASSUME Shaped(mem), NEW own, NEW ent, NEW es, NEW ns, NEW kv, Live(mem, own, ent, es, ns, kv),
         Short(es, ns, Far), NEW k \in Keys
  PROVE  ValueOf(k) = kv[k]
<1>1. EntryOf(k) = ent[k] /\ KeyLive(mem, own, ent[k], ns[k], k, kv[k])
  <2>1. EntryOf(k) = ent[k]
    BY EntryIs
  <2> QED
    BY <2>1 DEF Live
<1>2. ent[k] \in Addr
  BY <1>1, Apart DEF KeyLive, EntryLive, Has
<1>3. ValueOf(k) = CASE ent[k] = NIL -> [kind |-> "absent"]
                     [] ent[k] # NIL /\ mem[ent[k]].val.type = CHAIN ->
                          [kind |-> "list", texts |-> TextsOf(mem[ent[k]].val.addr)]
                     [] OTHER -> [kind |-> "text", text |-> TextAt(ent[k])]
  <2> DEFINE body(e) == CASE e = NIL -> [kind |-> "absent"]
                          [] e # NIL /\ mem[e].val.type = CHAIN ->
                               [kind |-> "list", texts |-> TextsOf(mem[e].val.addr)]
                          [] OTHER -> [kind |-> "text", text |-> TextAt(e)]
  <2>1. ValueOf(k) = [e \in Addr |-> body(e)][ent[k]]
    BY <1>1, Zenon DEF ValueOf
  <2>2. ValueOf(k) = body(ent[k])
    <3> HIDE DEF body
    <3> QED
      BY <1>2, <2>1
  <2> QED
    BY <2>2
<1>4. CASE ent[k] = NIL
  BY <1>1, <1>3, <1>4 DEF KeyLive
<1>5. CASE ent[k] # NIL
  <2>1. EntryLive(mem, own, ent[k], k) /\ ValueLive(mem, own, ent[k], ns[k], k, kv[k])
    BY <1>1, <1>5 DEF KeyLive
  <2>2. CASE k \in StrKeys
    <3>1. mem[ent[k]].val.type = STR /\ STR # CHAIN
      BY <2>1, <2>2 DEF ValueLive, STR, CHAIN
    <3>2. TextAt(ent[k]) = kv[k].text
      <4>1. StrLive(mem, own, mem[ent[k]].val.addr, k, <<"val", k, NIL>>, kv[k].text)
        BY <2>1, <2>2 DEF ValueLive
      <4>2. ent[k] \in DOMAIN mem /\ ent[k] \in Blks /\ "val" \in Fields(ent[k][1])
        BY <2>1 DEF EntryLive, Has, Fields
      <4> QED
        BY <4>1, <4>2, TextIs
    <3>3. kv[k] = [kind |-> "text", text |-> kv[k].text]
      BY <2>1, <2>2 DEF ValueLive
    <3> QED
      BY <1>3, <1>5, <3>1, <3>2, <3>3
  <2>3. CASE k \in ListKeys
    <3>1. mem[ent[k]].val.type = CHAIN /\ ListLive(mem, own, mem[ent[k]].val.addr, ns[k], k, kv[k].texts)
          /\ kv[k] = [kind |-> "list", texts |-> kv[k].texts]
      BY <2>1, <2>3 DEF ValueLive
    <3>2. Len(ns[k]) <= Far
      BY DEF Short
    <3>3. TextsOf(mem[ent[k]].val.addr) = kv[k].texts
      BY <3>1, <3>2, TextsIs
    <3> QED
      BY <1>3, <1>5, <3>1, <3>3
  <2> QED
    BY <2>2, <2>3 DEF Keys
<1> QED
  BY <1>4, <1>5

(* What clients read is the store. *)
LEMMA ViewIs ==
  ASSUME Shaped(mem), NEW own, NEW ent, NEW es, NEW ns, NEW kv, Live(mem, own, ent, es, ns, kv),
         Short(es, ns, Far)
  PROVE  View = kv
<1>1. \A k \in Keys : ValueOf(k) = kv[k]
  BY ValueIs
<1>2. View = [k \in Keys |-> kv[k]]
  BY <1>1 DEF View
<1> QED
  BY <1>2 DEF Live

-----------------------------------------------------------------------------
(* Frames, and the writes of a call. *)

(* What a write leaves alone. *)

Links == {"next", "header", "tail", "size"}

(* b is the last entry of a bucket. *)
IsLast(ent, es, b) == \E i \in Slots : es[i] # <<>> /\ b = ent[es[i][Len(es[i])]]

(* The blocks of k are the same in m2, links apart. *)
SameBlocks(m, own, m2, own2, k) ==
  \A b \in Blks : own[b] # FREE /\ own[b][2] = k =>
    /\ own2[b] = own[b] /\ b \in DOMAIN m2
    /\ \A f \in Fields(b[1]) \ Links : m2[b][f] = m[b][f]

(* And so are the links of its chain and nodes. *)
SameLinks(m, own, m2, k) ==
  \A b \in Blks : own[b] # FREE /\ own[b][2] = k =>
    /\ b[1] = "node" => m2[b].next = m[b].next
    /\ b[1] = "chain" => m2[b].header = m[b].header

(* A string of k stays one when the blocks of k do. *)
LEMMA StrFrame ==
  ASSUME NEW m, NEW own, NEW m2, NEW own2, NEW k, SameBlocks(m, own, m2, own2, k), NEW s, NEW tag, NEW t,
         StrLive(m, own, s, k, tag, t), tag # FREE, tag[2] = k
  PROVE  StrLive(m2, own2, s, k, tag, t)
<1> DEFINE d == m[s].val.addr
<1>1. s \in Blks /\ s[1] = "pair" /\ own[s] = tag
  BY DEF StrLive, Has
<1>2. d \in Blks /\ d[1] \in TextClasses /\ own[d] = <<"text", k, s>> /\ m[d].h1 = t /\ m[d].h2 = t
  BY DEF StrLive, Has
<1> HIDE DEF d
<1>3. "val" \in Fields(s[1]) \ Links /\ "h1" \in Fields(d[1]) \ Links /\ "h2" \in Fields(d[1]) \ Links
  BY <1>1, <1>2 DEF Fields, Links, TextClasses
<1>4. own2[s] = tag /\ s \in DOMAIN m2 /\ m2[s].val = m[s].val
  BY <1>1, <1>3 DEF SameBlocks
<1>5. own2[d] = own[d] /\ d \in DOMAIN m2 /\ m2[d].h1 = t /\ m2[d].h2 = t
  BY <1>2, <1>3 DEF SameBlocks, FREE
<1>6. m2[s].val.addr = d
  BY <1>4 DEF d
<1> QED
  BY <1>1, <1>2, <1>4, <1>5, <1>6 DEF StrLive, Has

(* A node stays one, with the next link that it is given. *)
LEMMA NodeFrame ==
  ASSUME NEW m, NEW own, NEW m2, NEW own2, NEW k, SameBlocks(m, own, m2, own2, k), NEW n, NEW x, NEW t,
         NodeLive(m, own, n, x, k, t), NEW y, m2[n].next = y
  PROVE  NodeLive(m2, own2, n, y, k, t)
<1>1. n \in Blks /\ n[1] = "node" /\ own[n] = <<"node", k, NIL>> /\ m[n].val.type = STR
      /\ StrLive(m, own, m[n].val.addr, k, <<"str", k, n>>, t)
  BY DEF NodeLive, Has
<1>2. "val" \in Fields(n[1]) \ Links
  BY <1>1 DEF Fields, Links
<1>3. own2[n] = own[n] /\ n \in DOMAIN m2 /\ m2[n].val = m[n].val
  BY <1>1, <1>2 DEF SameBlocks, FREE
<1>4. StrLive(m2, own2, m[n].val.addr, k, <<"str", k, n>>, t)
  BY <1>1, StrFrame DEF FREE
<1> QED
  BY <1>1, <1>3, <1>4 DEF NodeLive, Has

(* A list stays one when its blocks and their links do. *)
LEMMA ListFrame ==
  ASSUME NEW m, NEW own, NEW m2, NEW own2, NEW k, SameBlocks(m, own, m2, own2, k), SameLinks(m, own, m2, k),
         NEW c, NEW s, NEW texts, ListLive(m, own, c, s, k, texts)
  PROVE  ListLive(m2, own2, c, s, k, texts)
<1>1. c \in Blks /\ c[1] = "chain" /\ own[c] = <<"chain", k, NIL>>
  BY DEF ListLive, Has
<1>2. own2[c] = own[c] /\ c \in DOMAIN m2 /\ m2[c].header = m[c].header
  BY <1>1 DEF SameBlocks, SameLinks, FREE
<1>3. ASSUME NEW j \in 1 .. Len(s)
      PROVE  NodeLive(m2, own2, s[j], Nth(s, j + 1), k, texts[j])
  <2>1. NodeLive(m, own, s[j], Nth(s, j + 1), k, texts[j])
    BY DEF ListLive
  <2>2. s[j] \in Blks /\ s[j][1] = "node" /\ own[s[j]] = <<"node", k, NIL>> /\ m[s[j]].next = Nth(s, j + 1)
    BY <2>1 DEF NodeLive, Has
  <2>3. m2[s[j]].next = Nth(s, j + 1)
    BY <2>2 DEF SameLinks, FREE
  <2> QED
    BY <2>1, <2>3, NodeFrame
<1> QED
  BY <1>1, <1>2, <1>3 DEF ListLive, Has

(* An entry, its key and its value stay. *)
LEMMA EntryFrame ==
  ASSUME NEW m, NEW own, NEW m2, NEW own2, NEW k, SameBlocks(m, own, m2, own2, k), NEW e, EntryLive(m, own, e, k)
  PROVE  EntryLive(m2, own2, e, k) /\ m2[e].val = m[e].val
<1> DEFINE kb == m[e].key
<1>1. e \in Blks /\ e[1] = "entry" /\ own[e] = <<"entry", k, NIL>> /\ m[e].hash = HashOf[k]
  BY DEF EntryLive, Has
<1>2. kb \in Blks /\ kb[1] = "text" /\ own[kb] = <<"key", k, NIL>> /\ m[kb].h1 = k /\ m[kb].h2 = k
  BY DEF EntryLive, Has
<1> HIDE DEF kb
<1>3. /\ "hash" \in Fields(e[1]) \ Links /\ "key" \in Fields(e[1]) \ Links /\ "val" \in Fields(e[1]) \ Links
      /\ "h1" \in Fields(kb[1]) \ Links /\ "h2" \in Fields(kb[1]) \ Links
  BY <1>1, <1>2 DEF Fields, Links
<1>4. own2[e] = own[e] /\ e \in DOMAIN m2 /\ m2[e].hash = m[e].hash /\ m2[e].key = m[e].key /\ m2[e].val = m[e].val
  BY <1>1, <1>3 DEF SameBlocks, FREE
<1>5. own2[kb] = own[kb] /\ kb \in DOMAIN m2 /\ m2[kb].h1 = k /\ m2[kb].h2 = k
  BY <1>2, <1>3 DEF SameBlocks, FREE
<1>6. m2[e].key = kb
  BY <1>4 DEF kb
<1> QED
  BY <1>1, <1>2, <1>4, <1>5, <1>6 DEF EntryLive, Has

(* All that is read under a key stays when its blocks and links do. *)
LEMMA KeyFrame ==
  ASSUME NEW m, NEW own, NEW m2, NEW own2, NEW k, SameBlocks(m, own, m2, own2, k), SameLinks(m, own, m2, k),
         NEW e, NEW s, NEW v, KeyLive(m, own, e, s, k, v)
  PROVE  KeyLive(m2, own2, e, s, k, v)
<1>1. CASE e = NIL
  BY <1>1 DEF KeyLive
<1>2. CASE e # NIL
  <2>1. EntryLive(m, own, e, k) /\ ValueLive(m, own, e, s, k, v)
    BY <1>2 DEF KeyLive
  <2>2. EntryLive(m2, own2, e, k) /\ m2[e].val = m[e].val
    BY <2>1, EntryFrame
  <2>3. k \in StrKeys => StrLive(m2, own2, m[e].val.addr, k, <<"val", k, NIL>>, v.text)
    <3> SUFFICES ASSUME k \in StrKeys PROVE StrLive(m2, own2, m[e].val.addr, k, <<"val", k, NIL>>, v.text)
      OBVIOUS
    <3>1. StrLive(m, own, m[e].val.addr, k, <<"val", k, NIL>>, v.text)
      BY <2>1 DEF ValueLive
    <3> QED
      BY <3>1, StrFrame DEF FREE
  <2>4. k \in ListKeys => ListLive(m2, own2, m[e].val.addr, s, k, v.texts)
    <3> SUFFICES ASSUME k \in ListKeys PROVE ListLive(m2, own2, m[e].val.addr, s, k, v.texts)
      OBVIOUS
    <3>1. ListLive(m, own, m[e].val.addr, s, k, v.texts)
      BY <2>1 DEF ValueLive
    <3> QED
      BY <3>1, ListFrame
  <2>5. ValueLive(m2, own2, e, s, k, v)
    BY <2>1, <2>2, <2>3, <2>4 DEF ValueLive
  <2> QED
    BY <1>2, <2>2, <2>5 DEF KeyLive
<1> QED
  BY <1>1, <1>2

(* The memories have the same blocks for the owners, up to tail and size   *)
(* and the end of a bucket.                                                *)
SameLive(m, m2, own, ent, es) ==
  /\ \A i \in Slots : m2[Bulk(i)].header = m[Bulk(i)].header
  /\ \A b \in Blks : own[b] # FREE =>
       /\ b \in DOMAIN m2
       /\ \A f \in Fields(b[1]) \ {"tail", "size"} :
            m2[b][f] = m[b][f] \/ (f = "next" /\ IsLast(ent, es, b) /\ m2[b][f] \in Ends)

(* An entry is at one place of one bucket. *)
LEMMA OnePlace ==
  ASSUME NEW m, NEW own, NEW ent, NEW es, NEW ns, NEW kv, Live(m, own, ent, es, ns, kv),
         NEW i \in Slots, NEW j \in 1 .. Len(es[i]), NEW i2 \in Slots, NEW j2 \in 1 .. Len(es[i2]),
         ent[es[i][j]] = ent[es[i2][j2]]
  PROVE  i = i2 /\ j = j2
<1>1. BucketLive(m, i, ent, es[i]) /\ BucketLive(m, i2, ent, es[i2])
  BY DEF Live
<1>2. es[i][j] \in Keys /\ ent[es[i][j]] # NIL /\ slot(es[i][j]) = i
  BY <1>1 DEF BucketLive
<1>3. es[i2][j2] \in Keys /\ ent[es[i2][j2]] # NIL /\ slot(es[i2][j2]) = i2
  BY <1>1 DEF BucketLive
<1>4. own[ent[es[i][j]]] = <<"entry", es[i][j], NIL>> /\ own[ent[es[i2][j2]]] = <<"entry", es[i2][j2], NIL>>
  BY <1>2, <1>3 DEF Live, KeyLive, EntryLive, Has
<1>5. es[i][j] = es[i2][j2]
  BY <1>4
<1> QED
  BY <1>1, <1>2, <1>3, <1>5 DEF BucketLive

(* And so does all that clients read. *)
LEMMA LiveFrame ==
  ASSUME NEW m, NEW m2, NEW own, NEW ent, NEW es, NEW ns, NEW kv, Live(m, own, ent, es, ns, kv),
         SameLive(m, m2, own, ent, es)
  PROVE  Live(m2, own, ent, es, ns, kv)
<1>1. ASSUME NEW i \in Slots PROVE BucketLive(m2, i, ent, es[i])
  <2>1. BucketLive(m, i, ent, es[i]) /\ m2[Bulk(i)].header = m[Bulk(i)].header
    BY DEF Live, SameLive
  <2>2. ASSUME NEW j \in 1 .. Len(es[i])
        PROVE  IF j < Len(es[i]) THEN m2[ent[es[i][j]]].next = ent[es[i][j + 1]] ELSE m2[ent[es[i][j]]].next \in Ends
    <3>1. PICK b : b = ent[es[i][j]]
      OBVIOUS
    <3>2. es[i][j] \in Keys /\ b # NIL
      BY <2>1, <3>1 DEF BucketLive
    <3>3. b \in Blks /\ b[1] = "entry" /\ own[b] # FREE
      BY <3>1, <3>2 DEF Live, KeyLive, EntryLive, Has, FREE
    <3>4. "next" \in Fields(b[1]) \ {"tail", "size"}
      BY <3>3 DEF Fields
    <3>5. m2[b].next = m[b].next \/ (IsLast(ent, es, b) /\ m2[b].next \in Ends)
      BY <3>3, <3>4 DEF SameLive
    <3>6. CASE m2[b].next = m[b].next
      BY <2>1, <3>1, <3>6 DEF BucketLive
    <3>7. CASE IsLast(ent, es, b) /\ m2[b].next \in Ends
      <4>1. PICK i2 \in Slots : es[i2] # <<>> /\ b = ent[es[i2][Len(es[i2])]]
        BY <3>7 DEF IsLast
      <4>2. es[i2] \in Seq(Keys)
        BY DEF Live, BucketLive
      <4>3. Len(es[i2]) \in 1 .. Len(es[i2])
        BY <4>1, <4>2
      <4>4. i = i2 /\ j = Len(es[i2])
        <5>1. ent[es[i][j]] = ent[es[i2][Len(es[i2])]]
          BY <3>1, <4>1
        <5> QED
          BY ONLY <4>1, <4>3, <5>1, Live(m, own, ent, es, ns, kv), i \in Slots, j \in 1 .. Len(es[i]), OnePlace
      <4> QED
        BY <3>1, <3>7, <4>4
    <3> QED
      BY <3>5, <3>6, <3>7
  <2> QED
    BY <2>1, <2>2 DEF BucketLive
<1>2. ASSUME NEW k \in Keys PROVE KeyLive(m2, own, ent[k], ns[k], k, kv[k])
  <2>1. SameBlocks(m, own, m2, own, k)
    BY DEF SameLive, SameBlocks, Links
  <2>2. SameLinks(m, own, m2, k)
    <3> SUFFICES ASSUME NEW b \in Blks, own[b] # FREE
                 PROVE  /\ b[1] = "node" => m2[b].next = m[b].next
                        /\ b[1] = "chain" => m2[b].header = m[b].header
      BY DEF SameLinks
    <3>1. CASE b[1] = "chain"
      BY <3>1 DEF SameLive, Fields
    <3>2. CASE b[1] = "node"
      <4>1. ~IsLast(ent, es, b)
        <5> SUFFICES ASSUME NEW i \in Slots, es[i] # <<>>, b = ent[es[i][Len(es[i])]] PROVE FALSE
          BY DEF IsLast
        <5>1. BucketLive(m, i, ent, es[i]) /\ es[i] \in Seq(Keys)
          BY DEF Live, BucketLive
        <5>2. Len(es[i]) \in 1 .. Len(es[i])
          BY <5>1
        <5>3. es[i][Len(es[i])] \in Keys /\ b # NIL
          BY <5>1, <5>2 DEF BucketLive
        <5> QED
          BY <3>2, <5>3 DEF Live, KeyLive, EntryLive, Has
      <4> QED
        BY <3>2, <4>1 DEF SameLive, Fields
    <3> QED
      BY <3>1, <3>2
  <2>3. KeyLive(m, own, ent[k], ns[k], k, kv[k])
    BY DEF Live
  <2> QED
    BY <2>1, <2>2, <2>3, KeyFrame
<1> QED
  BY <1>1, <1>2 DEF Live

-----------------------------------------------------------------------------
(* The writes of a call. *)

(* T is a record of the tables own, ent, es, ns and kv. *)
LiveIn(m, T) == Live(m, T.own, T.ent, T.es, T.ns, T.kv)

(* w puts into m what fin has there. *)
IsWrite(w, fin) ==
  /\ w[1] \in DOMAIN fin
  /\ w[2] = "free" \/ (w[2] \in Fields(w[1][1]) /\ w[3] = fin[w[1]][w[2]])

(* The writes ws make fin of m. *)
Pending(m, ws, fin) ==
  /\ \E S : ws \in Seq(S)
  /\ DOMAIN fin = DOMAIN m
  /\ \A j \in 1 .. Len(ws) : IsWrite(ws[j], fin)
  /\ \A b \in DOMAIN m : \A f \in Fields(b[1]) :
       m[b][f] = fin[b][f] \/ \E j \in 1 .. Len(ws) : ws[j][1] = b /\ ws[j][2] = f

(* m2 is m with the write w. *)
Puts(m, w, m2) == m2 = [m EXCEPT ![w[1]][w[2]] = w[3]]

(* m2 is m with what fin has in field f of b. *)
OneWrite(m, b, f, fin, m2) ==
  /\ DOMAIN m2 = DOMAIN m
  /\ \A b2 \in DOMAIN m : \A f2 \in Fields(b2[1]) :
       m2[b2][f2] = IF b2 = b /\ f2 = f THEN fin[b2][f2] ELSE m[b2][f2]

(* What is read does not change, or not before the last link is cleared. *)
Quiet(w, T) ==
  \/ w[2] \in {"tail", "size", "free"}
  \/ w[1] \in Blks /\ T.own[w[1]] = FREE
  \/ w[2] = "next" /\ IsLast(T.ent, T.es, w[1])

(* What is left of a sequence without its head. *)
LEMMA Tails ==
  ASSUME NEW S, NEW ws \in Seq(S), ws # <<>>
  PROVE  /\ Tail(ws) \in Seq(S) /\ Len(Tail(ws)) = Len(ws) - 1 /\ Head(ws) = ws[1] /\ Len(ws) \in Nat \ {0}
         /\ \A j \in 1 .. Len(ws) - 1 : Tail(ws)[j] = ws[j + 1]
OBVIOUS

(* After a write, the files still become fin by the writes that are left. *)
LEMMA Written ==
  ASSUME NEW m, NEW fin, NEW ws, Shaped(m), Shaped(fin), Pending(m, ws, fin), ws # <<>>,
         NEW w, w = ws[1], w[2] # "free", NEW m2, Puts(m, w, m2)
  PROVE  Shaped(m2) /\ Pending(m2, Tail(ws), fin) /\ OneWrite(m, w[1], w[2], fin, m2)
<1> DEFINE b == w[1]
           f == w[2]
           x == w[3]
<1>1. PICK S : ws \in Seq(S)
  BY DEF Pending
<1>2. /\ Tail(ws) \in Seq(S) /\ Len(Tail(ws)) = Len(ws) - 1 /\ Len(ws) \in Nat \ {0}
      /\ \A j \in 1 .. Len(ws) - 1 : Tail(ws)[j] = ws[j + 1]
  BY <1>1, Tails
<1>3. b \in DOMAIN m /\ f \in Fields(b[1]) /\ x = fin[b][f]
  BY <1>2 DEF Pending, IsWrite
<1>4. DOMAIN m2 = DOMAIN m /\ \A b2 \in DOMAIN m : m2[b2] = IF b2 = b THEN [m[b] EXCEPT ![f] = x] ELSE m[b2]
  BY DEF Puts
<1>5. \A b2 \in DOMAIN m : DOMAIN m[b2] = Fields(b2[1])
  BY DEF Shaped
<1>6. OneWrite(m, b, f, fin, m2)
  BY <1>3, <1>4, <1>5 DEF OneWrite
<1>7. \A b2 \in DOMAIN m : DOMAIN m2[b2] = Fields(b2[1])
  BY <1>4, <1>5
<1>8. \A b2 \in DOMAIN m : \A f2 \in Fields(b2[1]) : m2[b2][f2] = m[b2][f2] \/ m2[b2][f2] = fin[b2][f2]
  BY <1>6 DEF OneWrite
<1>9. Shaped(m2)
  <2>1. DOMAIN fin = DOMAIN m
    BY DEF Pending
  <2>2. ASSUME NEW g \in {"next", "header"}, NEW b2 \in DOMAIN m, g \in Fields(b2[1]) PROVE m2[b2][g] \in Addr
    BY <1>8, <2>1, <2>2 DEF Shaped
  <2> QED
    BY <1>4, <1>7, <2>2 DEF Shaped
<1>10. Pending(m2, Tail(ws), fin)
  <2>1. ASSUME NEW j \in 1 .. Len(Tail(ws)) PROVE IsWrite(Tail(ws)[j], fin)
    BY <1>2 DEF Pending
  <2>2. ASSUME NEW b2 \in DOMAIN m, NEW f2 \in Fields(b2[1]), m2[b2][f2] # fin[b2][f2]
        PROVE  \E j \in 1 .. Len(Tail(ws)) : Tail(ws)[j][1] = b2 /\ Tail(ws)[j][2] = f2
    <3>1. ~(b2 = b /\ f2 = f) /\ m[b2][f2] # fin[b2][f2]
      BY <1>6, <2>2 DEF OneWrite
    <3>2. PICK j \in 1 .. Len(ws) : ws[j][1] = b2 /\ ws[j][2] = f2
      BY <3>1 DEF Pending
    <3>3. j # 1
      BY <3>1, <3>2
    <3>4. j - 1 \in 1 .. Len(Tail(ws)) /\ Tail(ws)[j - 1] = ws[(j - 1) + 1] /\ (j - 1) + 1 = j
      BY <1>2, <3>3
    <3> QED
      BY <3>2, <3>4
  <2> QED
    BY <1>2, <1>4, <2>1, <2>2 DEF Pending
<1> QED
  BY <1>6, <1>9, <1>10

(* A free is no write to a block. *)
LEMMA WrittenFree ==
  ASSUME NEW m, NEW fin, NEW ws, Shaped(m), Pending(m, ws, fin), ws # <<>>, ws[1][2] = "free"
  PROVE  Pending(m, Tail(ws), fin)
<1>1. PICK S : ws \in Seq(S)
  BY DEF Pending
<1>2. /\ Tail(ws) \in Seq(S) /\ Len(Tail(ws)) = Len(ws) - 1 /\ Len(ws) \in Nat \ {0}
      /\ \A j \in 1 .. Len(ws) - 1 : Tail(ws)[j] = ws[j + 1]
  BY <1>1, Tails
<1>3. ASSUME NEW j \in 1 .. Len(Tail(ws)) PROVE IsWrite(Tail(ws)[j], fin)
  BY <1>2 DEF Pending
<1>4. ASSUME NEW b2 \in DOMAIN m, NEW f2 \in Fields(b2[1]), m[b2][f2] # fin[b2][f2]
      PROVE  \E j \in 1 .. Len(Tail(ws)) : Tail(ws)[j][1] = b2 /\ Tail(ws)[j][2] = f2
  <2>1. PICK j \in 1 .. Len(ws) : ws[j][1] = b2 /\ ws[j][2] = f2
    BY <1>4 DEF Pending
  <2>2. b2[1] \in Classes \cup {"bulk"}
    BY Apart DEF Shaped
  <2>3. f2 # "free"
    BY <2>2 DEF Fields, Classes
  <2>4. j # 1
    BY <2>1, <2>3
  <2>5. j - 1 \in 1 .. Len(Tail(ws)) /\ Tail(ws)[j - 1] = ws[(j - 1) + 1] /\ (j - 1) + 1 = j
    BY <1>2, <2>4
  <2> QED
    BY <2>1, <2>5
<1> QED
  BY <1>2, <1>3, <1>4 DEF Pending

(* In the last entry is an end. *)
LEMMA LastEnds ==
  ASSUME NEW m, NEW T, LiveIn(m, T), NEW b, IsLast(T.ent, T.es, b)
  PROVE  m[b].next \in Ends /\ b[1] = "entry" /\ b \in Blks /\ b \in DOMAIN m /\ T.own[b] # FREE
         /\ \E k \in Keys : T.own[b] = <<"entry", k, NIL>>
<1>1. PICK i \in Slots : T.es[i] # <<>> /\ b = T.ent[T.es[i][Len(T.es[i])]]
  BY DEF IsLast
<1>6. PICK s, L, k : s = T.es[i] /\ s # <<>> /\ L = Len(s) /\ k = s[L] /\ b = T.ent[k]
  BY Zenon, <1>1
<1>2. BucketLive(m, i, T.ent, s) /\ s \in Seq(Keys)
  BY Zenon, <1>6 DEF LiveIn, Live, BucketLive
<1>3. L \in 1 .. Len(s) /\ ~(L < Len(s))
  BY <1>2, <1>6
<1>4. k \in Keys /\ b # NIL /\ m[b].next \in Ends
  <2>1. s[L] \in Keys
    BY <1>2, <1>3
  <2>2. T.ent[s[L]] # NIL /\ m[T.ent[s[L]]].next \in Ends
    BY ONLY <1>2, <1>3, L = Len(s) DEF BucketLive
  <2> QED
    BY <1>6, <2>1, <2>2
<1>5. EntryLive(m, T.own, b, k)
  BY <1>4, <1>6 DEF LiveIn, Live, KeyLive
<1> QED
  BY <1>4, <1>5 DEF EntryLive, Has, FREE

(* A quiet write changes nothing that clients read. *)
LEMMA QuietWrite ==
  ASSUME NEW m, NEW fin, NEW T, NEW w, NEW m2, Shaped(m), LiveIn(m, T), LiveIn(fin, T),
         OneWrite(m, w[1], w[2], fin, m2), Quiet(w, T), \A b \in Blks : T.own[b] # FREE => b \in DOMAIN m
  PROVE  LiveIn(m2, T)
<1>1. ASSUME NEW i \in Slots PROVE m2[Bulk(i)].header = m[Bulk(i)].header
  <2>1. Bulk(i) \in DOMAIN m /\ Bulk(i)[1] = "bulk" /\ Bulk(i) \notin Blks
    BY Apart DEF Shaped, Bulks
  <2>2. "header" \in Fields("bulk")
    BY DEF Fields
  <2>3. ~(w[1] = Bulk(i) /\ w[2] = "header")
    BY <2>1 DEF Quiet
  <2> QED
    BY <2>1, <2>2, <2>3 DEF OneWrite
<1>2. ASSUME NEW b \in Blks, T.own[b] # FREE, NEW f \in Fields(b[1]) \ {"tail", "size"}
      PROVE  m2[b][f] = m[b][f] \/ (f = "next" /\ IsLast(T.ent, T.es, b) /\ m2[b][f] \in Ends)
  <2>1. b \in DOMAIN m /\ b[1] \in Classes
    BY <1>2, Apart
  <2>2. CASE ~(b = w[1] /\ f = w[2])
    BY <2>1, <2>2 DEF OneWrite
  <2>3. CASE b = w[1] /\ f = w[2]
    <3>1. f # "free"
      BY <2>1 DEF Fields, Classes
    <3>2. f = "next" /\ IsLast(T.ent, T.es, b)
      BY <1>2, <2>3, <3>1 DEF Quiet
    <3>3. m2[b][f] = fin[b][f]
      BY <2>1, <2>3 DEF OneWrite
    <3> QED
      BY <3>2, <3>3, LastEnds
  <2> QED
    BY <2>2, <2>3
<1>3. SameLive(m, m2, T.own, T.ent, T.es)
  BY <1>1, <1>2 DEF SameLive, OneWrite
<1> QED
  BY <1>3, LiveFrame DEF LiveIn

(* When only quiet writes are left, what is read is what is to be read. *)
LEMMA LinkedWrite ==
  ASSUME NEW m2, NEW ws, NEW fin, NEW T, Shaped(m2), Pending(m2, ws, fin), LiveIn(fin, T),
         \A b \in Blks : T.own[b] # FREE => b \in DOMAIN m2,
         \A j \in 1 .. Len(ws) : Quiet(ws[j], T),
         \A b \in Blks : IsLast(T.ent, T.es, b) => m2[b].next = fin[b].next \/ m2[b].next \in Ends
  PROVE  LiveIn(m2, T)
<1>1. ASSUME NEW i \in Slots PROVE m2[Bulk(i)].header = fin[Bulk(i)].header
  <2>1. Bulk(i) \in DOMAIN m2 /\ Bulk(i)[1] = "bulk" /\ Bulk(i) \notin Blks
    BY Apart DEF Shaped, Bulks
  <2>2. "header" \in Fields("bulk")
    BY DEF Fields
  <2>3. ASSUME NEW j \in 1 .. Len(ws) PROVE ~(ws[j][1] = Bulk(i) /\ ws[j][2] = "header")
    BY <2>1 DEF Quiet
  <2> QED
    BY <2>1, <2>2, <2>3 DEF Pending
<1>2. ASSUME NEW b \in Blks, T.own[b] # FREE, NEW f \in Fields(b[1]) \ {"tail", "size"}
      PROVE  m2[b][f] = fin[b][f] \/ (f = "next" /\ IsLast(T.ent, T.es, b) /\ m2[b][f] \in Ends)
  <2>1. b \in DOMAIN m2 /\ b[1] \in Classes
    BY <1>2, Apart
  <2>2. SUFFICES ASSUME m2[b][f] # fin[b][f] PROVE f = "next" /\ IsLast(T.ent, T.es, b) /\ m2[b][f] \in Ends
    OBVIOUS
  <2>3. PICK j \in 1 .. Len(ws) : ws[j][1] = b /\ ws[j][2] = f
    BY <2>1, <2>2 DEF Pending
  <2>4. f # "free"
    BY <2>1 DEF Fields, Classes
  <2>5. f = "next" /\ IsLast(T.ent, T.es, b)
    BY <1>2, <2>3, <2>4 DEF Quiet
  <2> QED
    BY <2>2, <2>5
<1>3. SameLive(fin, m2, T.own, T.ent, T.es)
  BY <1>1, <1>2 DEF SameLive
<1> QED
  BY <1>3, LiveFrame DEF LiveIn

-----------------------------------------------------------------------------
(* The pool. *)

(* The blocks in the pool p belong to nobody, and are carved.              *)
PoolOK(p, m, own) ==
  /\ p.free \in [Classes -> Seq(Blks)] /\ p.fresh \in [Classes -> Nat]
  /\ p = [free |-> p.free, fresh |-> p.fresh]
  /\ \A c \in Classes : \A i \in 1 .. Len(p.free[c]) :
       p.free[c][i][1] = c /\ own[p.free[c][i]] = FREE /\ p.free[c][i] \in DOMAIN m
  /\ \A c \in Classes : \A i, j \in 1 .. Len(p.free[c]) : p.free[c][i] = p.free[c][j] => i = j
  /\ \A b \in DOMAIN m : b \in Blks => b[2] <= p.fresh[b[1]]
  /\ \A b \in Blks : own[b] # FREE => b \in DOMAIN m

(* The blocks of class c among the first i of cs. *)
First(cs, c, i) == Cardinality({j \in 1 .. i : cs[j] = c})

(* The counts of a class along a sequence of requests go up. *)
LEMMA FirstIs ==
  ASSUME NEW cs, NEW n \in Nat, NEW c, NEW i \in 0 .. n
  PROVE  /\ First(cs, c, i) \in Nat /\ First(cs, c, i) <= First(cs, c, n)
         /\ \A j \in 1 .. n : i < j /\ cs[j] = c => First(cs, c, i) < First(cs, c, j)
<1> DEFINE S(j) == {l \in 1 .. j : cs[l] = c}
<1>1. ASSUME NEW j \in 0 .. n PROVE IsFiniteSet(S(j))
  <2>1. IsFiniteSet(1 .. j) /\ S(j) \subseteq 1 .. j
    BY FS_Interval
  <2> QED
    BY <2>1, FS_Subset
<1>2. ASSUME NEW j \in 0 .. n, i <= j PROVE Cardinality(S(i)) <= Cardinality(S(j))
  <2>1. S(i) \in SUBSET S(j)
    BY <1>2
  <2> HIDE DEF S
  <2> QED
    BY <1>1, <2>1, FS_Subset
<1>3. ASSUME NEW j \in 1 .. n, i < j, cs[j] = c PROVE Cardinality(S(i)) < Cardinality(S(j))
  <2>1. S(i) \in SUBSET S(j) /\ j \in S(j) /\ j \notin S(i) /\ j \in 0 .. n
    BY <1>3
  <2> HIDE DEF S
  <2>2. Cardinality(S(i)) <= Cardinality(S(j)) /\ Cardinality(S(i)) # Cardinality(S(j))
    BY <1>1, <2>1, FS_Subset
  <2>3. Cardinality(S(i)) \in Nat /\ Cardinality(S(j)) \in Nat
    BY <1>1, <2>1, FS_CardinalityType
  <2> QED
    BY <2>2, <2>3
<1>4. Cardinality(S(i)) \in Nat
  <2> HIDE DEF S
  <2> QED
    BY <1>1, FS_CardinalityType
<1>5. n \in 0 .. n /\ i <= n
  OBVIOUS
<1> QED
  BY <1>2, <1>3, <1>4, <1>5 DEF First

(* The smaller of two numbers is the least of the set. *)
LEMMA MinIs ==
  ASSUME NEW x \in Nat, NEW y \in Nat
  PROVE  Min({x, y}) = IF x <= y THEN x ELSE y
<1>1. \A z : (z \in {x, y} /\ \A w \in {x, y} : z <= w) <=> z = IF x <= y THEN x ELSE y
  OBVIOUS
<1>2. Min({x, y}) = CHOOSE z \in {x, y} : \A w \in {x, y} : z <= w
  BY DEF Min
<1> QED
  BY <1>1, <1>2

(* The blocks that are taken from the pool. *)
LEMMA BlockIs ==
  ASSUME NEW cs \in Seq(Classes), NEW i \in 1 .. Len(cs)
  PROVE  LET n == First(cs, cs[i], i)
             c == cs[i]
         IN Blocks(cs)[i] = IF n <= Len(pool.free[c]) THEN pool.free[c][n]
                            ELSE <<c, pool.fresh[c] + n - Len(pool.free[c])>>
<1>1. i \in DOMAIN cs
  OBVIOUS
<1> QED
  BY <1>1, Zenon DEF Blocks, First

(* The requests of a call get free blocks of their classes, each its own. *)
LEMMA BlocksAre ==
  ASSUME NEW cs \in Seq(Classes), NEW own, PoolOK(pool, mem, own)
  PROVE  /\ DOMAIN Blocks(cs) = 1 .. Len(cs)
         /\ \A i \in 1 .. Len(cs) :
              Blocks(cs)[i] \in Blks /\ Blocks(cs)[i][1] = cs[i] /\ own[Blocks(cs)[i]] = FREE
         /\ \A i, j \in 1 .. Len(cs) : Blocks(cs)[i] = Blocks(cs)[j] => i = j
<1>1. DOMAIN Blocks(cs) = 1 .. Len(cs)
  BY DEF Blocks
<1>2. Len(cs) \in Nat
  OBVIOUS
<1>3. ASSUME NEW i \in 1 .. Len(cs)
      PROVE  /\ cs[i] \in Classes /\ First(cs, cs[i], i) \in Nat \ {0} /\ i \in 0 .. Len(cs)
             /\ pool.free[cs[i]] \in Seq(Blks) /\ pool.fresh[cs[i]] \in Nat
             /\ Len(pool.free[cs[i]]) \in Nat
  <2>1. cs[i] \in Classes /\ i \in 0 .. Len(cs) /\ 0 \in 0 .. Len(cs) /\ 0 < i
    OBVIOUS
  <2>2. First(cs, cs[i], i) \in Nat /\ First(cs, cs[i], 0) \in Nat
    BY <1>2, <2>1, FirstIs
  <2>3. First(cs, cs[i], 0) < First(cs, cs[i], i)
    BY <1>2, <2>1, FirstIs
  <2>4. pool.free[cs[i]] \in Seq(Blks) /\ pool.fresh[cs[i]] \in Nat
    BY <2>1 DEF PoolOK
  <2> QED
    BY <2>1, <2>2, <2>3, <2>4
<1>4. ASSUME NEW i \in 1 .. Len(cs)
      PROVE  Blocks(cs)[i] \in Blks /\ Blocks(cs)[i][1] = cs[i] /\ own[Blocks(cs)[i]] = FREE
  <2> DEFINE c == cs[i]
             n == First(cs, c, i)
  <2>1. c \in Classes /\ n \in Nat \ {0} /\ Len(pool.free[c]) \in Nat /\ pool.fresh[c] \in Nat
        /\ pool.free[c] \in Seq(Blks)
    BY <1>3
  <2>2. Blocks(cs)[i] = IF n <= Len(pool.free[c]) THEN pool.free[c][n]
                        ELSE <<c, pool.fresh[c] + n - Len(pool.free[c])>>
    BY BlockIs
  <2> HIDE DEF c, n
  <2>3. CASE n <= Len(pool.free[c])
    <3>1. n \in 1 .. Len(pool.free[c])
      BY <2>1, <2>3
    <3>2. pool.free[c][n] \in Blks /\ pool.free[c][n][1] = c /\ own[pool.free[c][n]] = FREE
      BY <2>1, <3>1 DEF PoolOK
    <3> QED
      BY <2>2, <2>3, <3>2 DEF c
  <2>4. CASE ~(n <= Len(pool.free[c]))
    <3>1. PICK b : b = <<c, pool.fresh[c] + n - Len(pool.free[c])>>
      OBVIOUS
    <3>2. b \in Blks /\ b[1] = c /\ b[2] \in Nat /\ ~(b[2] <= pool.fresh[c])
      BY <2>1, <2>4, <3>1 DEF Blks
    <3>3. own[b] = FREE
      BY <2>1, <3>2 DEF PoolOK
    <3> QED
      BY <2>2, <2>4, <3>1, <3>2, <3>3 DEF c
  <2> QED
    BY <2>3, <2>4
<1>5. ASSUME NEW i \in 1 .. Len(cs), NEW j \in 1 .. Len(cs), i < j PROVE Blocks(cs)[i] # Blocks(cs)[j]
  <2>1. SUFFICES ASSUME cs[i] = cs[j] PROVE Blocks(cs)[i] # Blocks(cs)[j]
    BY <1>4
  <2>2. PICK c, n, n2, L : c = cs[i] /\ n = First(cs, c, i) /\ n2 = First(cs, c, j) /\ L = Len(pool.free[c])
    OBVIOUS
  <2>3. n < n2
    BY <1>2, <1>3, <1>5, <2>1, <2>2, FirstIs
  <2>4. c \in Classes /\ n \in Nat \ {0} /\ n2 \in Nat \ {0} /\ L \in Nat /\ pool.fresh[c] \in Nat
    BY <1>3, <2>1, <2>2
  <2>5. Blocks(cs)[i] = IF n <= L THEN pool.free[c][n] ELSE <<c, pool.fresh[c] + n - L>>
    BY <2>2, BlockIs
  <2>6. Blocks(cs)[j] = IF n2 <= L THEN pool.free[c][n2] ELSE <<c, pool.fresh[c] + n2 - L>>
    BY <2>1, <2>2, BlockIs
  <2>7. CASE n2 <= L
    <3>1. n \in 1 .. Len(pool.free[c]) /\ n2 \in 1 .. Len(pool.free[c]) /\ n <= L
      BY <2>2, <2>3, <2>4, <2>7
    <3>2. pool.free[c][n] = pool.free[c][n2] => n = n2
      BY <2>4, <3>1 DEF PoolOK
    <3>3. n # n2
      BY <2>3, <2>4
    <3> QED
      BY <2>5, <2>6, <2>7, <3>1, <3>2, <3>3
  <2>8. CASE ~(n2 <= L) /\ n <= L
    <3>1. n \in 1 .. Len(pool.free[c])
      BY <2>2, <2>4, <2>8
    <3>2. pool.free[c][n] \in DOMAIN mem /\ pool.free[c][n] \in Blks /\ pool.free[c][n][1] = c
      BY <2>4, <3>1 DEF PoolOK
    <3>3. pool.free[c][n][2] <= pool.fresh[c]
      BY SMTT(30), <3>2 DEF PoolOK
    <3>4. Blocks(cs)[j][2] > pool.fresh[c]
      BY <2>4, <2>6, <2>8
    <3>5. pool.free[c][n][2] \in Nat
      BY <3>2 DEF Blks
    <3> QED
      BY <2>4, <2>5, <2>8, <3>3, <3>4, <3>5
  <2>9. CASE ~(n2 <= L) /\ ~(n <= L)
    BY <2>3, <2>4, <2>5, <2>6, <2>9
  <2> QED
    BY <2>7, <2>8, <2>9
<1>6. \A i, j \in 1 .. Len(cs) : i # j => i < j \/ j < i
  OBVIOUS
<1> QED
  BY <1>1, <1>4, <1>5, <1>6

(* What is left in the pool. *)
LEMMA TakenIs ==
  ASSUME NEW cs \in Seq(Classes), NEW own, PoolOK(pool, mem, own), NEW m1, NEW own1,
         DOMAIN m1 = DOMAIN mem \cup {Blocks(cs)[i] : i \in 1 .. Len(cs)},
         \A b \in Blks : own1[b] = own[b] \/ \E i \in 1 .. Len(cs) : b = Blocks(cs)[i]
  PROVE  /\ PoolOK(Taken(cs), m1, own1)
         /\ \A i \in 1 .. Len(cs), c \in Classes : \A j \in 1 .. Len(Taken(cs).free[c]) :
              Taken(cs).free[c][j] # Blocks(cs)[i]
<1> DEFINE asked(c) == First(cs, c, Len(cs))
           freed(c) == IF asked(c) <= Len(pool.free[c]) THEN asked(c) ELSE Len(pool.free[c])
           p == Taken(cs)
<1>1. Len(cs) \in Nat /\ DOMAIN cs = 1 .. Len(cs)
  OBVIOUS
<1>2. ASSUME NEW c \in Classes
      PROVE  /\ asked(c) \in Nat /\ Len(pool.free[c]) \in Nat /\ freed(c) \in 0 .. Len(pool.free[c])
             /\ pool.free[c] \in Seq(Blks) /\ pool.fresh[c] \in Nat
             /\ p.free[c] = SubSeq(pool.free[c], freed(c) + 1, Len(pool.free[c]))
             /\ p.fresh[c] = pool.fresh[c] + asked(c) - freed(c)
  <2>1. Len(cs) \in 0 .. Len(cs)
    BY <1>1
  <2>2. asked(c) \in Nat
    BY <1>1, <2>1, FirstIs
  <2>3. pool.free[c] \in Seq(Blks) /\ pool.fresh[c] \in Nat
    BY DEF PoolOK
  <2>4. Len(pool.free[c]) \in Nat
    BY <2>3
  <2>5. Cardinality({j \in DOMAIN cs : cs[j] = c}) = asked(c)
    BY <1>1 DEF First
  <2>6. Min({asked(c), Len(pool.free[c])}) = freed(c)
    <3> HIDE DEF asked
    <3> QED
      BY <2>2, <2>4, MinIs
  <2>7. p.free[c] = SubSeq(pool.free[c], freed(c) + 1, Len(pool.free[c]))
    <3> HIDE DEF asked, freed
    <3> QED
      BY <2>5, <2>6 DEF Taken, TakenFrom
  <2>8. p.fresh[c] = pool.fresh[c] + asked(c) - freed(c)
    <3> HIDE DEF asked, freed
    <3> QED
      BY <2>5, <2>6 DEF Taken, TakenFrom
  <2> QED
    BY <2>2, <2>3, <2>4, <2>7, <2>8
<1>3. ASSUME NEW c \in Classes
      PROVE  /\ p.free[c] \in Seq(Blks) /\ p.fresh[c] \in Nat
             /\ pool.fresh[c] <= p.fresh[c]
             /\ Len(p.free[c]) = Len(pool.free[c]) - freed(c)
             /\ \A j \in 1 .. Len(p.free[c]) :
                  p.free[c][j] = pool.free[c][freed(c) + j] /\ freed(c) + j \in 1 .. Len(pool.free[c])
  <2>1. /\ asked(c) \in Nat /\ Len(pool.free[c]) \in Nat /\ freed(c) \in 0 .. Len(pool.free[c])
        /\ freed(c) <= asked(c)
    BY <1>2
  <2>2. PICK f, s : f = freed(c) /\ s = pool.free[c]
    OBVIOUS
  <2>3. s \in Seq(Blks) /\ p.free[c] = SubSeq(s, f + 1, Len(s)) /\ f \in 0 .. Len(s)
    BY <1>2, <2>1, <2>2
  <2>4. p.free[c] \in Seq(Blks) /\ Len(p.free[c]) = Len(s) - f
        /\ \A j \in 1 .. Len(p.free[c]) : p.free[c][j] = s[f + j] /\ f + j \in 1 .. Len(s)
    BY ONLY <2>3
  <2>5. p.fresh[c] = pool.fresh[c] + asked(c) - freed(c) /\ pool.fresh[c] \in Nat
    BY <1>2
  <2>6. p.fresh[c] \in Nat /\ pool.fresh[c] <= p.fresh[c]
    <3> HIDE DEF asked, freed, p
    <3> QED
      BY <2>1, <2>5
  <2> HIDE DEF freed, asked, p
  <2> QED
    BY <2>2, <2>4, <2>6
<1>4. ASSUME NEW i \in 1 .. Len(cs), NEW c \in Classes, NEW j \in 1 .. Len(p.free[c])
      PROVE  p.free[c][j] # Blocks(cs)[i]
  <2>1. p.free[c][j] = pool.free[c][freed(c) + j] /\ freed(c) + j \in 1 .. Len(pool.free[c])
    BY <1>3
  <2>2. pool.free[c][freed(c) + j][1] = c /\ pool.free[c][freed(c) + j] \in DOMAIN mem
        /\ pool.free[c][freed(c) + j] \in Blks
    <3>1. PICK l : l = freed(c) + j
      OBVIOUS
    <3>2. l \in 1 .. Len(pool.free[c]) /\ pool.free[c] \in Seq(Blks)
      BY <1>2, <2>1, <3>1
    <3>3. pool.free[c][l][1] = c /\ pool.free[c][l] \in DOMAIN mem /\ pool.free[c][l] \in Blks
      BY <3>2 DEF PoolOK
    <3> QED
      BY <3>1, <3>3
  <2>3. SUFFICES ASSUME c = cs[i] PROVE p.free[c][j] # Blocks(cs)[i]
    BY <2>1, <2>2, BlocksAre
  <2>4. PICK n : n = First(cs, c, i)
    OBVIOUS
  <2>5. i \in 0 .. Len(cs) /\ 0 \in 0 .. Len(cs) /\ 0 < i
    BY <1>1
  <2>6. n \in Nat /\ n <= asked(c) /\ 0 < n
    <3>1. First(cs, c, i) \in Nat /\ First(cs, c, i) <= First(cs, c, Len(cs)) /\ First(cs, c, 0) \in Nat
      BY <1>1, <2>5, FirstIs
    <3>2. First(cs, c, 0) < First(cs, c, i)
      BY <1>1, <2>3, <2>5, FirstIs
    <3> QED
      BY <2>4, <3>1, <3>2
  <2>7. Blocks(cs)[i] = IF n <= Len(pool.free[c]) THEN pool.free[c][n]
                        ELSE <<c, pool.fresh[c] + n - Len(pool.free[c])>>
    BY <2>3, <2>4, BlockIs
  <2>8. CASE n <= Len(pool.free[c])
    <3>1. n <= freed(c) /\ n \in 1 .. Len(pool.free[c]) /\ freed(c) \in Nat /\ Len(pool.free[c]) \in Nat
      BY <1>2, <2>6, <2>8
    <3>2. n # freed(c) + j
      <4> HIDE DEF freed
      <4> QED
        BY <2>6, <3>1
    <3> HIDE DEF freed
    <3> QED
      BY Zenon, <2>1, <2>7, <2>8, <3>1, <3>2 DEF PoolOK
  <2>9. CASE ~(n <= Len(pool.free[c]))
    <3>1. pool.free[c][freed(c) + j][2] <= pool.fresh[c] /\ pool.free[c][freed(c) + j][2] \in Nat
      BY <2>2 DEF PoolOK, Blks
    <3>2. Blocks(cs)[i][2] > pool.fresh[c]
      <4>1. pool.fresh[c] \in Nat /\ Len(pool.free[c]) \in Nat
        BY <1>2
      <4>2. Blocks(cs)[i][2] = pool.fresh[c] + n - Len(pool.free[c])
        BY <2>7, <2>9
      <4> QED
        BY ONLY <2>6, <2>9, <4>1, <4>2
    <3>3. pool.fresh[c] \in Nat
      BY <1>2
    <3>4. p.free[c][j][2] <= pool.fresh[c] /\ p.free[c][j][2] \in Nat
      BY <2>1, <3>1
    <3> QED
      BY ONLY <3>2, <3>3, <3>4
  <2> QED
    BY <2>8, <2>9
<1>5. ASSUME NEW c \in Classes, NEW i \in 1 .. Len(p.free[c])
      PROVE  p.free[c][i][1] = c /\ own1[p.free[c][i]] = FREE /\ p.free[c][i] \in DOMAIN m1
  <2>1. p.free[c][i] = pool.free[c][freed(c) + i] /\ freed(c) + i \in 1 .. Len(pool.free[c])
    BY <1>3
  <2>2. p.free[c][i] \in Blks /\ p.free[c][i][1] = c /\ own[p.free[c][i]] = FREE /\ p.free[c][i] \in DOMAIN mem
    BY <2>1, <1>2 DEF PoolOK
  <2>3. own1[p.free[c][i]] = own[p.free[c][i]]
    BY <1>4, <2>2
  <2> QED
    BY <2>2, <2>3
<1>6. ASSUME NEW c \in Classes, NEW i \in 1 .. Len(p.free[c]), NEW j \in 1 .. Len(p.free[c]),
             p.free[c][i] = p.free[c][j]
      PROVE  i = j
  <2>1. p.free[c][i] = pool.free[c][freed(c) + i] /\ freed(c) + i \in 1 .. Len(pool.free[c])
    BY <1>3
  <2>2. p.free[c][j] = pool.free[c][freed(c) + j] /\ freed(c) + j \in 1 .. Len(pool.free[c])
    BY <1>3
  <2>3. freed(c) + i = freed(c) + j
    <3>1. PICK l, l2 : l = freed(c) + i /\ l2 = freed(c) + j
      OBVIOUS
    <3>2. l \in 1 .. Len(pool.free[c]) /\ l2 \in 1 .. Len(pool.free[c]) /\ pool.free[c][l] = pool.free[c][l2]
      BY <1>6, <2>1, <2>2, <3>1
    <3>3. l = l2
      BY <3>2 DEF PoolOK
    <3> QED
      BY <3>1, <3>3
  <2>4. freed(c) \in Nat /\ i \in Nat /\ j \in Nat
    BY <1>2, <1>3
  <2> HIDE DEF freed
  <2> QED
    BY <2>3, <2>4
<1>7. ASSUME NEW b \in DOMAIN m1, b \in Blks PROVE b[2] <= p.fresh[b[1]]
  <2>1. b[1] \in Classes /\ b[2] \in Nat
    BY <1>7 DEF Blks
  <2>2. CASE b \in DOMAIN mem
    <3>1. b[2] <= pool.fresh[b[1]]
      BY <1>7, <2>2 DEF PoolOK
    <3>2. pool.fresh[b[1]] <= p.fresh[b[1]] /\ pool.fresh[b[1]] \in Nat /\ p.fresh[b[1]] \in Nat
      BY <1>2, <1>3, <2>1
    <3> HIDE DEF p
    <3> QED
      BY <2>1, <3>1, <3>2
  <2>3. CASE b \notin DOMAIN mem
    <3>1. PICK i \in 1 .. Len(cs) : b = Blocks(cs)[i]
      BY <2>3
    <3>2. b[1] = cs[i]
      BY <3>1, BlocksAre
    <3>3. PICK c, n, L : c = cs[i] /\ n = First(cs, c, i) /\ L = Len(pool.free[c])
      OBVIOUS
    <3>4. c \in Classes /\ b[1] = c
      BY <2>1, <3>2, <3>3
    <3>5. i \in 0 .. Len(cs) /\ 0 \in 0 .. Len(cs) /\ 0 < i
      BY <1>1
    <3>6. n \in Nat /\ n <= asked(c) /\ 0 < n
      <4>1. First(cs, c, i) \in Nat /\ First(cs, c, i) <= First(cs, c, Len(cs)) /\ First(cs, c, 0) \in Nat
        BY <1>1, <3>5, FirstIs
      <4>2. First(cs, c, 0) < First(cs, c, i)
        BY <1>1, <3>3, <3>5, FirstIs
      <4> QED
        BY <3>3, <4>1, <4>2
    <3>7. b = IF n <= L THEN pool.free[c][n] ELSE <<c, pool.fresh[c] + n - L>>
      BY <3>1, <3>3, BlockIs
    <3>8. ~(n <= L)
      <4> SUFFICES ASSUME n <= L PROVE FALSE
        OBVIOUS
      <4>1. n \in 1 .. Len(pool.free[c])
        BY <1>2, <3>3, <3>4, <3>6
      <4> QED
        BY <2>3, <3>4, <3>7, <4>1 DEF PoolOK
    <3>9. b[2] = pool.fresh[c] + n - L
      BY <3>7, <3>8
    <3>10. p.fresh[c] = pool.fresh[c] + asked(c) - freed(c) /\ freed(c) <= L /\ L \in Nat
           /\ pool.fresh[c] \in Nat /\ asked(c) \in Nat /\ freed(c) \in Nat
      <4>1. /\ asked(c) \in Nat /\ Len(pool.free[c]) \in Nat /\ freed(c) \in 0 .. Len(pool.free[c])
            /\ pool.fresh[c] \in Nat
            /\ p.fresh[c] = pool.fresh[c] + asked(c) - freed(c)
        BY <1>2, <3>4
      <4> HIDE DEF p, asked, freed
      <4> QED
        BY <3>3, <4>1
    <3> HIDE DEF p, asked, freed
    <3> QED
      BY <3>4, <3>6, <3>9, <3>10
  <2> QED
    BY <2>2, <2>3
<1>8. ASSUME NEW b \in Blks, own1[b] # FREE PROVE b \in DOMAIN m1
  BY <1>8 DEF PoolOK
<1>9. p = [free |-> p.free, fresh |-> p.fresh] /\ p.free \in [Classes -> Seq(Blks)] /\ p.fresh \in [Classes -> Nat]
  <2>1. PICK F, G : Taken(cs) = [free |-> [c \in Classes |-> F[c]], fresh |-> [c \in Classes |-> G[c]]]
    <3> DEFINE F == [c \in Classes |-> p.free[c]]
               G == [c \in Classes |-> p.fresh[c]]
    <3>1. Taken(cs) = [free |-> F, fresh |-> G]
      BY DEF Taken, TakenFrom
    <3> QED
      BY <3>1
  <2>2. p = [free |-> p.free, fresh |-> p.fresh] /\ p.free = [c \in Classes |-> p.free[c]]
        /\ p.fresh = [c \in Classes |-> p.fresh[c]]
    BY <2>1
  <2> HIDE DEF p
  <2> QED
    BY <1>3, <2>2
<1> HIDE DEF p
<1>10. PoolOK(p, m1, own1)
  BY <1>5, <1>6, <1>7, <1>8, <1>9 DEF PoolOK
<1> QED
  BY <1>4, <1>10 DEF p

-----------------------------------------------------------------------------
(* The invariant of a call, and its writes. *)

(* A call of the writer. *)

(* What the calls count and where they append. *)
EndsOK(m, T) ==
  /\ \A i \in Slots :
       /\ m[Bulk(i)].size = Len(T.es[i])
       /\ T.es[i] # <<>> => m[Bulk(i)].tail = T.ent[T.es[i][Len(T.es[i])]]
  /\ \A k \in ListKeys : T.ent[k] # NIL =>
       LET c == m[T.ent[k]].val.addr IN
       /\ m[c].size = Len(T.ns[k])
       /\ T.ns[k] # <<>> => m[c].tail = T.ns[k][Len(T.ns[k])]

(* No block that may become an entry leads to another one. *)
Loose(m, own) ==
  \A b \in DOMAIN m : b \in Blks /\ b[1] = "entry" /\ own[b][1] # "entry" => m[b].next \in Ends

(* What is to be freed is not in the pool, and is freed once. *)
Frees(ws, p, own) ==
  /\ \A j \in 1 .. Len(ws) : ws[j][2] = "free" =>
       /\ ws[j][1] \in Blks /\ own[ws[j][1]] = FREE
       /\ \A i \in 1 .. Len(p.free[ws[j][1][1]]) : p.free[ws[j][1][1]][i] # ws[j][1]
  /\ \A i, j \in 1 .. Len(ws) : ws[i][2] = "free" /\ ws[j][2] = "free" /\ ws[i][1] = ws[j][1] => i = j

(* What a call makes of the store; compare the actions of KvStore. *)
Changed(op, k, kv, kv2) ==
  \/ /\ op = "put_str" /\ k \in StrKeys
     /\ \E t \in Texts : kv2 = [kv EXCEPT ![k] = [kind |-> "text", text |-> t]]
  \/ /\ op \in {"list_new", "list_push"} /\ k \in ListKeys
     /\ \E t \in Texts :
          kv2 = [kv EXCEPT ![k] = [kind |-> "list",
                                   texts |-> IF @.kind = "list" THEN Append(@.texts, t) ELSE <<t>>]]
  \/ /\ op = "list_pop" /\ k \in ListKeys /\ kv[k].kind = "list" /\ kv[k].texts # <<>>
     /\ kv2 = [kv EXCEPT ![k] = [kind |-> "list", texts |-> Tail(@.texts)]]

(* What a call makes of the tables. *)
Grown(C, N, op, k) ==
  /\ k \in Keys /\ Changed(op, k, C.kv, N.kv)
  /\ \A m \in Keys \ {k} : N.ent[m] = C.ent[m] /\ N.ns[m] = C.ns[m]
  /\ C.ent[k] # NIL => N.ent[k] = C.ent[k]
  /\ N.ent[k] # NIL
  /\ op \in {"put_str", "list_new"} => C.ent[k] = NIL
  /\ \A i \in Slots : N.es[i] = C.es[i] \/ /\ i = slot(k) /\ C.ent[k] = NIL
                                           /\ op \in {"put_str", "list_new"}
                                           /\ N.es[i] = Append(C.es[i], k)
  /\ \A b \in Blks : /\ C.own[b][1] = "entry" => N.own[b] = C.own[b]
                     /\ C.own[b] # FREE => N.own[b] = C.own[b] \/ (op = "list_pop" /\ C.own[b][2] = k)
  /\ op = "list_push" => /\ Len(C.ns[k]) <= Len(N.ns[k])
                         /\ \A i \in 1 .. Len(C.ns[k]) : N.ns[k][i] = C.ns[k][i]

(* What is read is in the tables C, what will be read after the call, in   *)
(* the memory fin, in the tables N.                                        *)
Base(m, p, ws, C, N, fin) ==
  /\ Shaped(m) /\ LiveIn(m, C)
  /\ Shaped(fin) /\ LiveIn(fin, N) /\ EndsOK(fin, N) /\ Pending(m, ws, fin)
  /\ Loose(m, C.own) /\ Loose(fin, C.own)
  /\ PoolOK(p, m, N.own) /\ Frees(ws, p, N.own)
  /\ \A b \in Blks : C.own[b] # FREE => b \in DOMAIN m

(* The call has made the write after which its effect is seen. *)
Linked(m, ws, op, k, N) ==
  /\ \A j \in 1 .. Len(ws) : Quiet(ws[j], N)
  /\ op = "list_pop" => \A j \in 1 .. Len(ws) : ws[j][2] # "header"
  /\ \A i \in Slots :
       \/ m[Bulk(i)].size = Len(N.es[i])
       \/ /\ op \in {"put_str", "list_new"}
          /\ N.es[i] # <<>> /\ N.es[i][Len(N.es[i])] = k
          /\ m[Bulk(i)].size = Len(N.es[i]) - 1

(* That write is still to be made: it is the n-th. *)
Ahead(m, ws, op, k, C, N, n) ==
  /\ n \in 1 .. Len(ws)
  /\ Grown(C, N, op, k)
  /\ \A j \in 1 .. n - 1 :
       ws[j][2] # "free" /\ (ws[j][2] = "tail" \/ (ws[j][1] \in Blks /\ C.own[ws[j][1]] = FREE))
  /\ ws[n][2] \in {"next", "header"}
  /\ \A j \in n + 1 .. Len(ws) :
       /\ Quiet(ws[j], N)
       /\ ws[j][2] = "next" /\ N.own[ws[j][1]] # FREE => C.own[ws[j][1]][1] # "entry"
  /\ op = "list_pop" => /\ ws[n][1] = m[C.ent[k]].val.addr /\ ws[n][2] = "header"
                        /\ \A j \in 1 .. Len(ws) : j # n => ws[j][2] # "header"
  /\ \A i \in Slots : m[Bulk(i)].size = Len(C.es[i])

Sound(C, N, fin, n) ==
  /\ Base(mem, pool, todo, C, N, fin)
  /\ view = C.kv
  /\ ops \in 0 .. MAX_OPS /\ Short(C.es, C.ns, ops) /\ Short(N.es, N.ns, ops)
  /\ todo # <<>> => call.key \in Keys
  /\ \/ n = 0 /\ C = N /\ Linked(mem, todo, call.op, call.key, N)
     \/ Ahead(mem, todo, call.op, call.key, C, N, n)

(* What the owners have in their blocks, links apart, stays. *)
Steady(m, m2, own) ==
  \A b \in Blks : own[b] # FREE =>
    b \in DOMAIN m2 /\ \A f \in Fields(b[1]) \ Links : m2[b][f] = m[b][f]

(* A write leaves the blocks that may become entries loose. *)
LEMMA LooseWrite ==
  ASSUME NEW m, NEW fin, NEW own, NEW b, NEW f, NEW m2, Loose(m, own), Loose(fin, own),
         OneWrite(m, b, f, fin, m2), DOMAIN fin = DOMAIN m
  PROVE  Loose(m2, own)
<1> SUFFICES ASSUME NEW a \in DOMAIN m2, a \in Blks, a[1] = "entry", own[a][1] # "entry"
             PROVE  m2[a].next \in Ends
  BY DEF Loose
<1>1. a \in DOMAIN m /\ a \in DOMAIN fin /\ "next" \in Fields(a[1])
  BY DEF OneWrite, Fields
<1>2. m2[a].next = m[a].next \/ m2[a].next = fin[a].next
  BY <1>1 DEF OneWrite
<1> QED
  BY <1>1, <1>2 DEF Loose

(* A write before the one that links changes nothing that is read. *)
LEMMA EarlyWrite ==
  ASSUME NEW m, NEW fin, NEW T, NEW w, NEW m2, Shaped(m), LiveIn(m, T),
         OneWrite(m, w[1], w[2], fin, m2), \A b \in Blks : T.own[b] # FREE => b \in DOMAIN m,
         w[2] = "tail" \/ (w[1] \in Blks /\ T.own[w[1]] = FREE)
  PROVE  LiveIn(m2, T)
<1>1. ASSUME NEW i \in Slots PROVE m2[Bulk(i)].header = m[Bulk(i)].header
  <2>1. Bulk(i) \in DOMAIN m /\ Bulk(i)[1] = "bulk" /\ Bulk(i) \notin Blks
    BY Apart DEF Shaped, Bulks
  <2>2. "header" \in Fields("bulk")
    BY DEF Fields
  <2> QED
    BY <2>1, <2>2 DEF OneWrite
<1>2. ASSUME NEW b \in Blks, T.own[b] # FREE, NEW f \in Fields(b[1]) \ {"tail", "size"}
      PROVE  m2[b][f] = m[b][f]
  BY <1>2 DEF OneWrite
<1>3. SameLive(m, m2, T.own, T.ent, T.es)
  BY <1>1, <1>2 DEF SameLive, OneWrite
<1> QED
  BY <1>3, LiveFrame DEF LiveIn

(* p2 is p with the block b given back. *)
Gets(p, b, p2) == p2 = [p EXCEPT !.free[b[1]] = Append(@, b)]

(* A block that nobody has and no list holds may join its free list. *)
LEMMA PoolGets ==
  ASSUME NEW p, NEW m, NEW own, PoolOK(p, m, own), NEW b \in Blks, own[b] = FREE, b \in DOMAIN m,
         \A i \in 1 .. Len(p.free[b[1]]) : p.free[b[1]][i] # b,
         NEW p2, Gets(p, b, p2)
  PROVE  /\ PoolOK(p2, m, own)
         /\ \A c \in Classes : \A i \in 1 .. Len(p2.free[c]) :
              p2.free[c][i] = b \/ (i \in 1 .. Len(p.free[c]) /\ p2.free[c][i] = p.free[c][i])
<1>1. b[1] \in Classes /\ b[1] # "bulk"
  BY Apart
<1>2. PICK s : s = p.free[b[1]] /\ s \in Seq(Blks)
  BY <1>1 DEF PoolOK
<1>3. /\ p2.fresh = p.fresh /\ p2 = [free |-> p2.free, fresh |-> p2.fresh]
      /\ p2.free = [p.free EXCEPT ![b[1]] = Append(s, b)]
  BY <1>2 DEF PoolOK, Gets
<1>4. /\ Append(s, b) \in Seq(Blks) /\ Len(Append(s, b)) = Len(s) + 1 /\ Append(s, b)[Len(s) + 1] = b
      /\ Len(s) \in Nat /\ \A i \in 1 .. Len(s) : Append(s, b)[i] = s[i]
  BY <1>2
<1>5. /\ p2.free \in [Classes -> Seq(Blks)] /\ p2.free[b[1]] = Append(s, b)
      /\ \A c \in Classes \ {b[1]} : p2.free[c] = p.free[c]
  BY <1>1, <1>3, <1>4 DEF PoolOK
<1>6. ASSUME NEW c \in Classes, NEW i \in 1 .. Len(p2.free[c])
      PROVE  \/ p2.free[c][i] = b /\ c = b[1] /\ i = Len(s) + 1
             \/ i \in 1 .. Len(p.free[c]) /\ p2.free[c][i] = p.free[c][i]
  <2>1. CASE c = b[1]
    <3>1. i \in 1 .. Len(s) + 1 /\ p2.free[c][i] = Append(s, b)[i]
      BY <1>4, <1>5, <2>1
    <3>2. CASE i = Len(s) + 1
      BY <1>4, <2>1, <3>1, <3>2
    <3>3. CASE i # Len(s) + 1
      <4>1. i \in 1 .. Len(s)
        BY <1>4, <3>1, <3>3
      <4> QED
        BY <1>2, <1>4, <2>1, <3>1, <4>1
    <3> QED
      BY <3>2, <3>3
  <2>2. CASE c # b[1]
    BY <1>5, <2>2
  <2> QED
    BY <2>1, <2>2
<1>7. ASSUME NEW c \in Classes, NEW i \in 1 .. Len(p2.free[c])
      PROVE  p2.free[c][i][1] = c /\ own[p2.free[c][i]] = FREE /\ p2.free[c][i] \in DOMAIN m
  BY SMTT(30), <1>6 DEF PoolOK
<1>8. ASSUME NEW c \in Classes, NEW i \in 1 .. Len(p2.free[c]), NEW j \in 1 .. Len(p2.free[c]),
             p2.free[c][i] = p2.free[c][j]
      PROVE  i = j
  <2>1. CASE p2.free[c][i] = b
    <3>1. ASSUME NEW l \in 1 .. Len(p2.free[c]), p2.free[c][l] = b PROVE l = Len(s) + 1
      <4>1. c = b[1]
        BY <1>7, <3>1
      <4> QED
        BY SMTT(30), <1>6, <3>1, <4>1
    <3> QED
      BY <1>8, <2>1, <3>1
  <2>2. CASE p2.free[c][i] # b
    <3>1. /\ i \in 1 .. Len(p.free[c]) /\ p2.free[c][i] = p.free[c][i]
          /\ j \in 1 .. Len(p.free[c]) /\ p2.free[c][j] = p.free[c][j]
      BY <1>6, <1>8, <2>2
    <3> QED
      BY <1>8, <3>1 DEF PoolOK
  <2> QED
    BY <2>1, <2>2
<1>9. PoolOK(p2, m, own)
  BY <1>3, <1>5, <1>7, <1>8 DEF PoolOK
<1> QED
  BY <1>6, <1>9

(* After a free, the other frees of the call are still to be made. *)
LEMMA FreesTail ==
  ASSUME NEW S, NEW ws \in Seq(S), ws # <<>>, NEW p, NEW own, Frees(ws, p, own), NEW p2,
         \A c \in Classes : \A i \in 1 .. Len(p2.free[c]) :
           \/ p2.free[c][i] = ws[1][1] /\ ws[1][2] = "free"
           \/ i \in 1 .. Len(p.free[c]) /\ p2.free[c][i] = p.free[c][i]
  PROVE  Frees(Tail(ws), p2, own)
<1>1. /\ Tail(ws) \in Seq(S) /\ Len(Tail(ws)) = Len(ws) - 1 /\ Len(ws) \in Nat \ {0}
      /\ \A j \in 1 .. Len(ws) - 1 : Tail(ws)[j] = ws[j + 1]
  BY Tails
<1>2. ASSUME NEW j \in 1 .. Len(Tail(ws)), Tail(ws)[j][2] = "free"
      PROVE  /\ Tail(ws)[j][1] \in Blks /\ own[Tail(ws)[j][1]] = FREE
             /\ \A i \in 1 .. Len(p2.free[Tail(ws)[j][1][1]]) : p2.free[Tail(ws)[j][1][1]][i] # Tail(ws)[j][1]
  <2>1. PICK w, l : w = Tail(ws)[j] /\ l = j + 1 /\ l \in 1 .. Len(ws) /\ w = ws[l] /\ w[2] = "free" /\ l # 1
    BY <1>1, <1>2
  <2>2. w[1] \in Blks /\ own[w[1]] = FREE /\ \A i \in 1 .. Len(p.free[w[1][1]]) : p.free[w[1][1]][i] # w[1]
    BY <2>1 DEF Frees
  <2>3. w[1][1] \in Classes
    BY <2>2 DEF Blks
  <2>4. 1 \in 1 .. Len(ws)
    BY <1>1
  <2>5. ws[1][2] = "free" => ws[1][1] # w[1]
    BY <2>1, <2>4 DEF Frees
  <2>6. \A i \in 1 .. Len(p2.free[w[1][1]]) : p2.free[w[1][1]][i] # w[1]
    BY <2>2, <2>3, <2>5
  <2> QED
    BY <2>1, <2>2, <2>6
<1>3. ASSUME NEW i \in 1 .. Len(Tail(ws)), NEW j \in 1 .. Len(Tail(ws)), Tail(ws)[i][2] = "free",
             Tail(ws)[j][2] = "free", Tail(ws)[i][1] = Tail(ws)[j][1]
      PROVE  i = j
  <2>1. /\ i + 1 \in 1 .. Len(ws) /\ j + 1 \in 1 .. Len(ws)
        /\ Tail(ws)[i] = ws[i + 1] /\ Tail(ws)[j] = ws[j + 1]
    BY <1>1
  <2>2. i + 1 = j + 1
    BY <1>3, <2>1 DEF Frees
  <2> QED
    BY <2>2
<1> QED
  BY <1>2, <1>3 DEF Frees

(* A block is freed. *)
LEMMA FreeStep ==
  ASSUME NEW m, NEW p, NEW ws, NEW op, NEW k, NEW N, NEW fin, Base(m, p, ws, N, N, fin),
         Linked(m, ws, op, k, N), ws # <<>>, ws[1][2] = "free",
         NEW b, b = ws[1][1], NEW p2, Gets(p, b, p2)
  PROVE  Base(m, p2, Tail(ws), N, N, fin) /\ Linked(m, Tail(ws), op, k, N)
<1>1. PICK S : ws \in Seq(S)
  BY DEF Base, Pending
<1>2. /\ Tail(ws) \in Seq(S) /\ Len(Tail(ws)) = Len(ws) - 1 /\ Len(ws) \in Nat \ {0}
      /\ \A j \in 1 .. Len(ws) - 1 : Tail(ws)[j] = ws[j + 1]
  BY <1>1, Tails
<1>3. Pending(m, Tail(ws), fin)
  BY WrittenFree DEF Base
<1>4. b = ws[1][1]
  OBVIOUS
<1>5. 1 \in 1 .. Len(ws)
  BY <1>2
<1>6. b \in Blks /\ N.own[b] = FREE /\ \A i \in 1 .. Len(p.free[b[1]]) : p.free[b[1]][i] # b
  BY <1>4, <1>5 DEF Base, Frees
<1>7. b \in DOMAIN m
  BY <1>4, <1>5 DEF Base, Pending, IsWrite
<1>8. Gets(p, b, p2) /\ PoolOK(p, m, N.own)
  BY <1>4 DEF Base
<1>9. /\ PoolOK(p2, m, N.own)
      /\ \A c \in Classes : \A i \in 1 .. Len(p2.free[c]) :
           p2.free[c][i] = b \/ (i \in 1 .. Len(p.free[c]) /\ p2.free[c][i] = p.free[c][i])
  BY ONLY <1>6, <1>7, <1>8, PoolGets
<1>10. Frees(Tail(ws), p2, N.own)
  <2>1. Frees(ws, p, N.own)
    BY DEF Base
  <2>2. \A c \in Classes : \A i \in 1 .. Len(p2.free[c]) :
           \/ p2.free[c][i] = ws[1][1] /\ ws[1][2] = "free"
           \/ i \in 1 .. Len(p.free[c]) /\ p2.free[c][i] = p.free[c][i]
    BY <1>4, <1>9
  <2> QED
    BY ONLY <1>1, ws # <<>>, <2>1, <2>2, FreesTail
<1>11. Linked(m, Tail(ws), op, k, N)
  <2>1. \A j \in 1 .. Len(Tail(ws)) : Tail(ws)[j] = ws[j + 1] /\ j + 1 \in 1 .. Len(ws)
    BY <1>2
  <2> QED
    BY <2>1 DEF Linked
<1> QED
  BY <1>3, <1>9, <1>10, <1>11 DEF Base

(* What every write leaves as it was. *)
LEMMA WriteBase ==
  ASSUME NEW m, NEW p, NEW ws, NEW C, NEW N, NEW fin, Base(m, p, ws, C, N, fin), ws # <<>>,
         NEW w, w = ws[1], w[2] # "free", NEW m2, Puts(m, w, m2)
  PROVE  /\ OneWrite(m, w[1], w[2], fin, m2) /\ Shaped(m2) /\ Pending(m2, Tail(ws), fin)
         /\ Loose(m2, C.own) /\ PoolOK(p, m2, N.own) /\ Frees(Tail(ws), p, N.own)
         /\ \A a \in Blks : C.own[a] # FREE => a \in DOMAIN m2
<1>1. PICK S : ws \in Seq(S)
  BY DEF Base, Pending
<1>2. OneWrite(m, w[1], w[2], fin, m2) /\ Shaped(m2) /\ Pending(m2, Tail(ws), fin)
  <2>1. Shaped(m) /\ Shaped(fin) /\ Pending(m, ws, fin)
    BY DEF Base
  <2> QED
    BY ONLY <2>1, ws # <<>>, w = ws[1], w[2] # "free", Puts(m, w, m2), Written
<1>3. Loose(m2, C.own)
  <2>1. Loose(m, C.own) /\ Loose(fin, C.own) /\ DOMAIN fin = DOMAIN m
    BY DEF Base, Pending
  <2> QED
    BY <1>2, <2>1, LooseWrite
<1>4. DOMAIN m2 = DOMAIN m
  BY <1>2 DEF OneWrite
<1>5. PoolOK(p, m2, N.own)
  BY <1>4 DEF Base, PoolOK
<1>6. Frees(Tail(ws), p, N.own)
  <2>1. Frees(ws, p, N.own)
    BY DEF Base
  <2>2. \A c \in Classes : \A i \in 1 .. Len(p.free[c]) :
           \/ p.free[c][i] = ws[1][1] /\ ws[1][2] = "free"
           \/ i \in 1 .. Len(p.free[c]) /\ p.free[c][i] = p.free[c][i]
    OBVIOUS
  <2> QED
    BY ONLY <1>1, ws # <<>>, <2>1, <2>2, FreesTail
<1> QED
  BY <1>2, <1>3, <1>4, <1>5, <1>6 DEF Base

(* A write after the one that links. *)
LEMMA LateStep ==
  ASSUME NEW m, NEW p, NEW ws, NEW op, NEW k, NEW N, NEW fin, Base(m, p, ws, N, N, fin),
         Linked(m, ws, op, k, N), ws # <<>>,
         NEW w, w = ws[1], w[2] # "free", NEW m2, Puts(m, w, m2)
  PROVE  /\ Base(m2, p, Tail(ws), N, N, fin) /\ Linked(m2, Tail(ws), op, k, N)
         /\ Steady(m, m2, N.own)
         /\ op = "list_pop" => w[2] # "header"
<1>1. /\ OneWrite(m, w[1], w[2], fin, m2) /\ Shaped(m2) /\ Pending(m2, Tail(ws), fin)
      /\ Loose(m2, N.own) /\ PoolOK(p, m2, N.own) /\ Frees(Tail(ws), p, N.own)
      /\ \A a \in Blks : N.own[a] # FREE => a \in DOMAIN m2
  BY ONLY Base(m, p, ws, N, N, fin), ws # <<>>, w = ws[1], w[2] # "free", Puts(m, w, m2),
          WriteBase
<1>2. PICK S : ws \in Seq(S)
  BY DEF Base, Pending
<1>3. /\ Tail(ws) \in Seq(S) /\ Len(Tail(ws)) = Len(ws) - 1 /\ Len(ws) \in Nat \ {0}
      /\ \A j \in 1 .. Len(ws) - 1 : Tail(ws)[j] = ws[j + 1]
  BY <1>2, Tails
<1>4. w = ws[1]
  OBVIOUS
<1>5. 1 \in 1 .. Len(ws)
  BY <1>3
<1>6. Quiet(w, N) /\ (op = "list_pop" => w[2] # "header")
  BY <1>4, <1>5 DEF Linked
<1>7. LiveIn(m2, N)
  <2>1. Shaped(m) /\ LiveIn(m, N) /\ LiveIn(fin, N) /\ \A a \in Blks : N.own[a] # FREE => a \in DOMAIN m
    BY DEF Base
  <2> QED
    BY ONLY <1>1, <1>6, <2>1, QuietWrite
<1>8. Steady(m, m2, N.own)
  <2> SUFFICES ASSUME NEW a \in Blks, N.own[a] # FREE, NEW g \in Fields(a[1]) \ Links
               PROVE  m2[a][g] = m[a][g]
    BY <1>1 DEF Steady
  <2>1. a \in DOMAIN m /\ a[1] \in Classes
    BY Apart DEF Base
  <2>2. ~(a = w[1] /\ g = w[2])
    BY <1>4, <1>6, <2>1 DEF Quiet, Links, Fields, Classes
  <2> QED
    BY <1>1, <2>1, <2>2 DEF OneWrite
<1>9. ASSUME NEW i \in Slots
      PROVE  \/ m2[Bulk(i)].size = Len(N.es[i])
             \/ /\ op \in {"put_str", "list_new"}
                /\ N.es[i] # <<>> /\ N.es[i][Len(N.es[i])] = k
                /\ m2[Bulk(i)].size = Len(N.es[i]) - 1
  <2>1. Bulk(i) \in DOMAIN m /\ "size" \in Fields(Bulk(i)[1])
    BY DEF Base, Shaped, Bulks, Bulk, Fields
  <2>2. m2[Bulk(i)].size = m[Bulk(i)].size \/ m2[Bulk(i)].size = fin[Bulk(i)].size
    BY <1>1, <2>1 DEF OneWrite
  <2>3. fin[Bulk(i)].size = Len(N.es[i])
    BY DEF Base, EndsOK
  <2> QED
    BY <2>2, <2>3 DEF Linked
<1>10. \A j \in 1 .. Len(Tail(ws)) : Tail(ws)[j] = ws[j + 1] /\ j + 1 \in 1 .. Len(ws)
  BY <1>3
<1>11. Linked(m2, Tail(ws), op, k, N)
  BY <1>9, <1>10 DEF Linked
<1> QED
  BY <1>1, <1>6, <1>7, <1>8, <1>11 DEF Base

(* A write before the one that links. *)
LEMMA EarlyStep ==
  ASSUME NEW m, NEW p, NEW ws, NEW op, NEW k, NEW C, NEW N, NEW fin, Base(m, p, ws, C, N, fin),
         NEW n, Ahead(m, ws, op, k, C, N, n), n # 1, ws # <<>>,
         NEW w, w = ws[1], w[2] # "free", NEW m2, Puts(m, w, m2)
  PROVE  /\ Base(m2, p, Tail(ws), C, N, fin) /\ Ahead(m2, Tail(ws), op, k, C, N, n - 1)
         /\ Steady(m, m2, C.own)
         /\ op = "list_pop" => w[2] # "header"
<1>1. /\ OneWrite(m, w[1], w[2], fin, m2) /\ Shaped(m2) /\ Pending(m2, Tail(ws), fin)
      /\ Loose(m2, C.own) /\ PoolOK(p, m2, N.own) /\ Frees(Tail(ws), p, N.own)
      /\ \A a \in Blks : C.own[a] # FREE => a \in DOMAIN m2
  BY ONLY Base(m, p, ws, C, N, fin), ws # <<>>, w = ws[1], w[2] # "free", Puts(m, w, m2),
          WriteBase
<1>2. PICK S : ws \in Seq(S)
  BY DEF Base, Pending
<1>3. /\ Tail(ws) \in Seq(S) /\ Len(Tail(ws)) = Len(ws) - 1 /\ Len(ws) \in Nat \ {0}
      /\ \A j \in 1 .. Len(ws) - 1 : Tail(ws)[j] = ws[j + 1]
  BY <1>2, Tails
<1>4. w = ws[1]
  OBVIOUS
<1>5. n \in 2 .. Len(ws) /\ 1 \in 1 .. n - 1 /\ 1 \in 1 .. Len(ws)
  BY <1>3 DEF Ahead
<1>6. /\ w[2] = "tail" \/ (w[1] \in Blks /\ C.own[w[1]] = FREE)
      /\ op = "list_pop" => w[2] # "header"
  BY <1>4, <1>5 DEF Ahead
<1>7. LiveIn(m2, C)
  <2>1. Shaped(m) /\ LiveIn(m, C) /\ \A a \in Blks : C.own[a] # FREE => a \in DOMAIN m
    BY DEF Base
  <2> QED
    BY ONLY <1>1, <1>6, <2>1, EarlyWrite
<1>8. Steady(m, m2, C.own)
  <2> SUFFICES ASSUME NEW a \in Blks, C.own[a] # FREE, NEW g \in Fields(a[1]) \ Links
               PROVE  m2[a][g] = m[a][g]
    BY <1>1 DEF Steady
  <2>1. a \in DOMAIN m
    BY DEF Base
  <2>2. ~(a = w[1] /\ g = w[2])
    BY <1>4, <1>6 DEF Links
  <2> QED
    BY <1>1, <2>1, <2>2 DEF OneWrite
<1>9. ASSUME NEW i \in Slots PROVE m2[Bulk(i)].size = Len(C.es[i])
  <2>1. Bulk(i) \in DOMAIN m /\ "size" \in Fields(Bulk(i)[1]) /\ Bulk(i) \notin Blks
    BY Apart DEF Base, Shaped, Bulks, Bulk, Fields
  <2>2. ~(Bulk(i) = w[1] /\ w[2] = "size")
    BY <1>4, <1>6, <2>1
  <2> QED
    BY <1>1, <2>1, <2>2 DEF OneWrite, Ahead
<1>10. \A j \in 1 .. Len(Tail(ws)) : Tail(ws)[j] = ws[j + 1] /\ j + 1 \in 1 .. Len(ws)
  BY <1>3
<1>11. Ahead(m2, Tail(ws), op, k, C, N, n - 1)
  <2>1. n - 1 \in 1 .. Len(Tail(ws)) /\ Tail(ws)[n - 1] = ws[n]
    BY <1>3, <1>5
  <2>2. \A j \in 1 .. (n - 1) - 1 : Tail(ws)[j] = ws[j + 1] /\ j + 1 \in 1 .. n - 1
    BY <1>3, <1>5
  <2>3. \A j \in (n - 1) + 1 .. Len(Tail(ws)) : Tail(ws)[j] = ws[j + 1] /\ j + 1 \in n + 1 .. Len(ws)
    BY <1>3, <1>5
  <2>4. ASSUME op = "list_pop"
        PROVE  /\ Tail(ws)[n - 1][1] = m2[C.ent[k]].val.addr /\ Tail(ws)[n - 1][2] = "header"
               /\ \A j \in 1 .. Len(Tail(ws)) : j # n - 1 => Tail(ws)[j][2] # "header"
    <3>1. k \in Keys /\ C.ent[k] # NIL
      BY <2>4 DEF Ahead, Grown, Changed, Base, LiveIn, Live, KeyLive
    <3>2. EntryLive(m, C.own, C.ent[k], k)
      BY <3>1 DEF Base, LiveIn, Live, KeyLive
    <3>3. C.ent[k] \in Blks /\ C.own[C.ent[k]] # FREE /\ "val" \in Fields(C.ent[k][1]) \ Links
      BY <3>2 DEF EntryLive, Has, FREE, Fields, Links
    <3>4. m2[C.ent[k]].val = m[C.ent[k]].val
      BY <1>8, <3>3 DEF Steady
    <3>5. \A j \in 1 .. Len(Tail(ws)) : j # n - 1 => Tail(ws)[j][2] # "header"
      <4> SUFFICES ASSUME NEW j \in 1 .. Len(Tail(ws)), j # n - 1 PROVE Tail(ws)[j][2] # "header"
        OBVIOUS
      <4>1. j + 1 # n /\ j + 1 \in 1 .. Len(ws) /\ Tail(ws)[j] = ws[j + 1]
        BY <1>5, <1>10
      <4> QED
        BY <2>4, <4>1 DEF Ahead
    <3> QED
      BY <2>1, <2>4, <3>4, <3>5 DEF Ahead
  <2> QED
    BY <1>9, <2>1, <2>2, <2>3, <2>4 DEF Ahead
<1> QED
  BY <1>1, <1>6, <1>7, <1>8, <1>11 DEF Base

(* The write that links. *)
LEMMA LinkStep ==
  ASSUME NEW m, NEW p, NEW ws, NEW op, NEW k, NEW C, NEW N, NEW fin, Base(m, p, ws, C, N, fin),
         Ahead(m, ws, op, k, C, N, 1), ws # <<>>,
         NEW w, w = ws[1], w[2] # "free", NEW m2, Puts(m, w, m2)
  PROVE  Base(m2, p, Tail(ws), N, N, fin) /\ Linked(m2, Tail(ws), op, k, N) /\ Steady(m, m2, C.own)
<1>1. /\ OneWrite(m, w[1], w[2], fin, m2) /\ Shaped(m2) /\ Pending(m2, Tail(ws), fin)
      /\ Loose(m2, C.own) /\ PoolOK(p, m2, N.own) /\ Frees(Tail(ws), p, N.own)
      /\ \A a \in Blks : C.own[a] # FREE => a \in DOMAIN m2
  BY ONLY Base(m, p, ws, C, N, fin), ws # <<>>, w = ws[1], w[2] # "free", Puts(m, w, m2),
          WriteBase
<1>2. PICK S : ws \in Seq(S)
  BY DEF Base, Pending
<1>3. /\ Tail(ws) \in Seq(S) /\ Len(Tail(ws)) = Len(ws) - 1 /\ Len(ws) \in Nat \ {0}
      /\ \A j \in 1 .. Len(ws) - 1 : Tail(ws)[j] = ws[j + 1]
  BY <1>2, Tails
<1>4. w[2] \in {"next", "header"}
  BY DEF Ahead
<1>5. ASSUME NEW j \in 1 .. Len(Tail(ws))
      PROVE  /\ Quiet(Tail(ws)[j], N)
             /\ Tail(ws)[j][2] = "next" /\ N.own[Tail(ws)[j][1]] # FREE => C.own[Tail(ws)[j][1]][1] # "entry"
             /\ op = "list_pop" => Tail(ws)[j][2] # "header"
  <2>1. Tail(ws)[j] = ws[j + 1] /\ j + 1 \in 1 + 1 .. Len(ws) /\ j + 1 \in 1 .. Len(ws) /\ j + 1 # 1
    BY <1>3
  <2> QED
    BY <2>1 DEF Ahead
<1>6. \A a \in Blks : N.own[a] # FREE => a \in DOMAIN m2
  BY <1>1 DEF PoolOK
<1>7. ASSUME NEW a \in Blks, IsLast(N.ent, N.es, a) PROVE m2[a].next = fin[a].next \/ m2[a].next \in Ends
  <2>1. a[1] = "entry" /\ N.own[a] # FREE /\ a \in DOMAIN m2 /\ "next" \in Fields(a[1])
    BY <1>6, <1>7, LastEnds DEF Base, Fields
  <2>2. SUFFICES ASSUME m2[a].next # fin[a].next PROVE m2[a].next \in Ends
    OBVIOUS
  <2>3. PICK j \in 1 .. Len(Tail(ws)) : Tail(ws)[j][1] = a /\ Tail(ws)[j][2] = "next"
    BY <1>1, <2>1, <2>2 DEF Pending
  <2>4. C.own[a][1] # "entry"
    BY <1>5, <2>1, <2>3
  <2> QED
    BY <1>1, <2>1, <2>4 DEF Loose
<1>8. LiveIn(m2, N)
  <2>1. LiveIn(fin, N)
    BY DEF Base
  <2>2. \A j \in 1 .. Len(Tail(ws)) : Quiet(Tail(ws)[j], N)
    BY <1>5
  <2> QED
    BY ONLY <1>1, <1>6, <1>7, <2>1, <2>2, LinkedWrite
<1>9. Steady(m, m2, C.own)
  <2> SUFFICES ASSUME NEW a \in Blks, C.own[a] # FREE, NEW g \in Fields(a[1]) \ Links
               PROVE  m2[a][g] = m[a][g]
    BY <1>1 DEF Steady
  <2>1. a \in DOMAIN m
    BY DEF Base
  <2>2. g # w[2]
    BY <1>4 DEF Links
  <2> QED
    BY <1>1, <2>1, <2>2 DEF OneWrite
<1>10. ASSUME NEW i \in Slots
      PROVE  \/ m2[Bulk(i)].size = Len(N.es[i])
             \/ /\ op \in {"put_str", "list_new"}
                /\ N.es[i] # <<>> /\ N.es[i][Len(N.es[i])] = k
                /\ m2[Bulk(i)].size = Len(N.es[i]) - 1
  <2>1. Bulk(i) \in DOMAIN m /\ "size" \in Fields(Bulk(i)[1])
    BY DEF Base, Shaped, Bulks, Bulk, Fields
  <2>2. m2[Bulk(i)].size = Len(C.es[i])
    BY <1>1, <1>4, <2>1 DEF OneWrite, Ahead
  <2>3. N.es[i] = C.es[i] \/ /\ i = slot(k) /\ op \in {"put_str", "list_new"} /\ N.es[i] = Append(C.es[i], k)
    BY Zenon DEF Ahead, Grown
  <2>4. C.es[i] \in Seq(Keys)
    BY DEF Base, LiveIn, Live, BucketLive
  <2>5. N.es[i] = Append(C.es[i], k) =>
          N.es[i] # <<>> /\ N.es[i][Len(N.es[i])] = k /\ Len(C.es[i]) = Len(N.es[i]) - 1
    BY <2>4
  <2> QED
    BY <2>2, <2>3, <2>5
<1>11. Linked(m2, Tail(ws), op, k, N)
  BY <1>5, <1>10 DEF Linked
<1>12. ASSUME NEW own, own \in {m2, fin}, Loose(own, C.own) PROVE Loose(own, N.own)
  BY <1>12 DEF Loose, Ahead, Grown
<1>13. Loose(m2, N.own) /\ Loose(fin, N.own)
  BY <1>1, <1>12 DEF Base
<1> QED
  BY <1>1, <1>6, <1>8, <1>9, <1>11, <1>13 DEF Base

(* What clients read in sound files is the store. *)
ReadsTables ==
  \A T, n : Shaped(mem) /\ LiveIn(mem, T) /\ Short(T.es, T.ns, n) /\ n \in 0 .. MAX_OPS => View = T.kv

(* What View computes from the files is the store in the tables. *)
LEMMA ReadsTablesNow == ReadsTables
<1> SUFFICES ASSUME NEW T, NEW n, Shaped(mem), LiveIn(mem, T), Short(T.es, T.ns, n), n \in 0 .. MAX_OPS
             PROVE  View = T.kv
  BY DEF ReadsTables
<1>1. n \in Nat /\ Far \in Nat /\ n <= Far
  BY ShmAssumption DEF Far
<1>2. ASSUME NEW i \in Slots PROVE T.es[i] \in Seq(Keys) /\ Len(T.es[i]) <= Far
  <2>1. T.es[i] \in Seq(Keys) /\ Len(T.es[i]) <= n
    BY DEF Short
  <2>2. Len(T.es[i]) \in Nat
    BY <2>1
  <2> QED
    BY <1>1, <2>1, <2>2
<1>3. ASSUME NEW k \in Keys PROVE T.ns[k] \in Seq(Blks) /\ Len(T.ns[k]) <= Far
  <2>1. T.ns[k] \in Seq(Blks) /\ Len(T.ns[k]) <= n
    BY DEF Short
  <2>2. Len(T.ns[k]) \in Nat
    BY <2>1
  <2> QED
    BY <1>1, <2>1, <2>2
<1>4. Short(T.es, T.ns, Far)
  BY <1>2, <1>3 DEF Short
<1> QED
  BY <1>4, ViewIs DEF LiveIn

(* And it is so after a step. *)
LEMMA ReadsTablesThen == ReadsTables'
BY ReadsTablesNow, PTL

(* What a write of a call may do. *)
WriteDoes(C, N, fin, n) ==
  \E C2, n2 :
    /\ Sound(C2, N, fin, n2)' /\ Steady(mem, mem', C.own)
    /\ \/ C2 = C /\ view' = view /\ out' = out
       \/ /\ C2 = N /\ n2 = 0 /\ n = 1 /\ todo # <<>> /\ Grown(C, N, call.op, call.key)
          /\ out' = IF call.op = "list_pop" THEN [out EXCEPT ![call.key] = C.kv[call.key].texts[1]] ELSE out

(* A write of a call keeps the call sound: the tables are those before it, *)
(* or this is the write that makes them those after it.                    *)
LEMMA WriteStep ==
  ASSUME NEW C, NEW N, NEW fin, NEW n, Sound(C, N, fin, n), Write, lost = <<>>, view' = View'
  PROVE  WriteDoes(C, N, fin, n)
<1> PICK w : w = todo[1]
  OBVIOUS
<1>1. PICK S : todo \in Seq(S)
  BY DEF Sound, Base, Pending
<1>2. /\ todo # <<>> /\ Head(todo) = w /\ todo' = Tail(todo) /\ call' = call /\ ops' = ops
      /\ call.key \in Keys
  BY <1>1 DEF Write, Sound
<1>3. call.key \notin DOMAIN lost
  BY SMTT(30)
<1>4. /\ w[2] = "free" => Gets(pool, w[1], pool') /\ mem' = mem /\ out' = out
      /\ w[2] # "free" => Puts(mem, w, mem') /\ pool' = pool
      /\ ~(call.op = "list_pop" /\ w[2] = "header") => out' = out
      /\ call.op = "list_pop" /\ w[2] = "header" =>
           out' = [out EXCEPT ![call.key] = TextAt(mem[w[1]].header)]
  BY <1>2, <1>3 DEF Write, Gets, Puts
<1>5. /\ Base(mem, pool, todo, C, N, fin) /\ ops \in 0 .. MAX_OPS
      /\ view = C.kv /\ Short(C.es, C.ns, ops) /\ Short(N.es, N.ns, ops)
  BY DEF Sound
<1>6. ASSUME NEW T, Base(mem', pool', todo', T, N, fin), Short(T.es, T.ns, ops)
      PROVE  view' = T.kv
  <2>1. Shaped(mem') /\ LiveIn(mem', T)
    BY <1>6 DEF Base
  <2>2. ReadsTables'
    BY ReadsTablesThen
  <2>3. View' = T.kv
    BY <1>2, <1>5, <1>6, <2>1, <2>2 DEF ReadsTables
  <2> QED
    BY <2>3
<1>7. CASE n = 0 /\ C = N /\ Linked(mem, todo, call.op, call.key, N)
  <2>1. CASE w[2] = "free"
    <3>1. Base(mem, pool', Tail(todo), N, N, fin) /\ Linked(mem, Tail(todo), call.op, call.key, N)
      <4>1. Base(mem, pool, todo, N, N, fin) /\ Linked(mem, todo, call.op, call.key, N)
        BY <1>5, <1>7
      <4>2. PICK b : b = w[1]
        OBVIOUS
      <4> QED
        BY ONLY <1>2, <1>4, <2>1, <4>1, <4>2, w = todo[1], FreeStep
    <3>2. mem' = mem /\ out' = out
      BY <1>4, <2>1
    <3>3. Sound(C, N, fin, n)'
      BY <1>2, <1>5, <1>6, <1>7, <3>1, <3>2 DEF Sound
    <3>4. Steady(mem, mem', C.own)
      BY <1>5, <3>2 DEF Steady, Base
    <3>5. view' = view
      BY <1>2, <1>5, <1>6, <1>7, <3>1, <3>2
    <3> QED
      BY <3>2, <3>3, <3>4, <3>5 DEF WriteDoes
  <2>2. CASE w[2] # "free"
    <3>1. /\ Base(mem', pool, Tail(todo), N, N, fin) /\ Linked(mem', Tail(todo), call.op, call.key, N)
          /\ Steady(mem, mem', N.own)
          /\ call.op = "list_pop" => w[2] # "header"
      <4>1. Base(mem, pool, todo, N, N, fin) /\ Linked(mem, todo, call.op, call.key, N)
        BY <1>5, <1>7
      <4> QED
        BY ONLY <1>2, <1>4, <2>2, <4>1, w = todo[1], LateStep
    <3>2. pool' = pool /\ out' = out
      BY <1>4, <2>2, <3>1
    <3>3. Sound(C, N, fin, n)'
      BY <1>2, <1>5, <1>6, <1>7, <3>1, <3>2 DEF Sound
    <3>5. view' = view
      BY <1>2, <1>5, <1>6, <1>7, <3>1, <3>2
    <3> QED
      BY <1>7, <3>1, <3>2, <3>3, <3>5 DEF WriteDoes
  <2> QED
    BY <2>1, <2>2
<1>8. CASE Ahead(mem, todo, call.op, call.key, C, N, n) /\ n # 1
  <2>1. w[2] # "free" /\ n - 1 # 0
    <3>1. n \in Nat /\ 1 \in 1 .. n - 1
      BY <1>8 DEF Ahead
    <3> QED
      BY <1>8, <3>1 DEF Ahead
  <2>2. /\ Base(mem', pool, Tail(todo), C, N, fin) /\ Ahead(mem', Tail(todo), call.op, call.key, C, N, n - 1)
        /\ Steady(mem, mem', C.own)
        /\ call.op = "list_pop" => w[2] # "header"
    <3>1. PICK op, k : op = call.op /\ k = call.key
      OBVIOUS
    <3>2. Base(mem, pool, todo, C, N, fin) /\ Ahead(mem, todo, op, k, C, N, n) /\ n # 1 /\ todo # <<>>
          /\ w = todo[1] /\ w[2] # "free" /\ Puts(mem, w, mem')
      BY <1>2, <1>4, <1>5, <1>8, <2>1, <3>1
    <3>3. /\ Base(mem', pool, Tail(todo), C, N, fin) /\ Ahead(mem', Tail(todo), op, k, C, N, n - 1)
          /\ Steady(mem, mem', C.own)
          /\ op = "list_pop" => w[2] # "header"
      BY ONLY <3>2, EarlyStep
    <3> QED
      BY <3>1, <3>3
  <2>3. pool' = pool /\ out' = out
    BY <1>4, <2>1, <2>2
  <2>4. view' = view
    BY <1>2, <1>5, <1>6, <2>2, <2>3
  <2>5. Sound(C, N, fin, n - 1)'
    BY <1>2, <1>5, <1>6, <2>2, <2>3 DEF Sound
  <2> QED
    BY <2>2, <2>3, <2>4, <2>5 DEF WriteDoes
<1>9. CASE Ahead(mem, todo, call.op, call.key, C, N, n) /\ n = 1
  <2>1. w[2] # "free" /\ Grown(C, N, call.op, call.key)
    BY <1>9 DEF Ahead
  <2>2. /\ Base(mem', pool, Tail(todo), N, N, fin) /\ Linked(mem', Tail(todo), call.op, call.key, N)
        /\ Steady(mem, mem', C.own)
    BY ONLY <1>2, <1>4, <1>5, <1>9, <2>1, w = todo[1], LinkStep
  <2>3. pool' = pool
    BY <1>4, <2>1
  <2>4. Sound(N, N, fin, 0)'
    BY <1>2, <1>5, <1>6, <2>2, <2>3 DEF Sound
  <2>5. out' = IF call.op = "list_pop" THEN [out EXCEPT ![call.key] = C.kv[call.key].texts[1]] ELSE out
    <3>1. CASE call.op # "list_pop"
      BY <1>4, <3>1
    <3>2. CASE call.op = "list_pop"
      <4>1. w[1] = mem[C.ent[call.key]].val.addr /\ w[2] = "header"
        BY <1>9, <3>2 DEF Ahead
      <4>2. /\ call.key \in ListKeys /\ C.kv[call.key].kind = "list" /\ C.kv[call.key].texts # <<>>
        BY <2>1, <3>2 DEF Grown, Changed
      <4>3. LiveIn(mem, C) /\ Shaped(mem)
        BY <1>5 DEF Base
      <4>4. ListLive(mem, C.own, w[1], C.ns[call.key], call.key, C.kv[call.key].texts)
        <5>1. KeyLive(mem, C.own, C.ent[call.key], C.ns[call.key], call.key, C.kv[call.key])
          BY <1>2, <4>3 DEF LiveIn, Live
        <5>2. ValueLive(mem, C.own, C.ent[call.key], C.ns[call.key], call.key, C.kv[call.key])
          BY <4>2, <5>1 DEF KeyLive
        <5> QED
          BY <4>1, <4>2, <5>2 DEF ValueLive
      <4>5. PICK h, s, t : h = mem[w[1]].header /\ s = C.ns[call.key] /\ t = C.kv[call.key].texts
        OBVIOUS
      <4>6. t \in Seq(Texts) /\ s \in Seq(Blks) /\ Len(t) = Len(s) /\ t # <<>> /\ h = Nth(s, 1)
        BY <4>2, <4>4, <4>5 DEF ListLive
      <4>7. 1 \in 1 .. Len(s)
        BY <4>6
      <4>8. h = s[1] /\ NodeLive(mem, C.own, h, Nth(s, 2), call.key, t[1])
        BY <4>4, <4>5, <4>6, <4>7 DEF ListLive, Nth
      <4>9. h \in Blks /\ h \in DOMAIN mem /\ "val" \in Fields(h[1])
            /\ StrLive(mem, C.own, mem[h].val.addr, call.key, <<"str", call.key, h>>, t[1])
        BY <4>8 DEF NodeLive, Has, Fields
      <4>10. TextAt(h) = t[1]
        BY <4>3, <4>9, TextIs
      <4> QED
        BY <1>4, <3>2, <4>1, <4>5, <4>10
    <3> QED
      BY <3>1, <3>2
  <2> QED
    BY <1>2, <1>9, <2>1, <2>2, <2>4, <2>5 DEF WriteDoes
<1> QED
  BY <1>7, <1>8, <1>9 DEF Sound

(* The writer never writes to NULL. *)
LEMMA NotNull ==
  ASSUME NEW C, NEW N, NEW fin, NEW n, Sound(C, N, fin, n), todo # <<>>
  PROVE  Head(todo)[1] # NIL
<1> SUFFICES ASSUME Head(todo)[1] = NIL PROVE FALSE
  OBVIOUS
<1>1. PICK S : todo \in Seq(S)
  BY DEF Sound, Base, Pending
<1>2. todo # <<>> /\ Head(todo)[1] = NIL
  OBVIOUS
<1>3. 1 \in 1 .. Len(todo) /\ Head(todo) = todo[1]
  BY <1>1, <1>2
<1>4. NIL \in DOMAIN mem
  BY <1>2, <1>3 DEF Sound, Base, Pending, IsWrite
<1> QED
  BY <1>4, Apart DEF Sound, Base, Shaped

-----------------------------------------------------------------------------
(* Sequences of writes. *)

(* The sequence s has the elements R. *)
Lists(s, R) == s \in Seq(R) /\ \A v \in R : \E j \in 1 .. Len(s) : s[j] = v

(* w is the n-th element of s, before it are those of P, behind it Q.      *)
Parts(s, P, w, Q, n) ==
  /\ Lists(s, P \cup {w} \cup Q) /\ n \in 1 .. Len(s) /\ s[n] = w
  /\ \A j \in 1 .. n - 1 : s[j] \in P
  /\ \A j \in n + 1 .. Len(s) : s[j] \in Q

(* No block is freed twice. *)
Once(s) == \A i, j \in 1 .. Len(s) : s[i][2] = "free" /\ s[j][2] = "free" /\ s[i][1] = s[j][1] => i = j

(* The elements of a concatenation. *)
LEMMA CatIs ==
  ASSUME NEW R1, NEW R2, NEW s \in Seq(R1), NEW t \in Seq(R2)
  PROVE  /\ s \o t \in Seq(R1 \cup R2) /\ Len(s \o t) = Len(s) + Len(t) /\ Len(s) \in Nat /\ Len(t) \in Nat
         /\ \A j \in 1 .. Len(s) : (s \o t)[j] = s[j]
         /\ \A j \in 1 .. Len(t) : (s \o t)[Len(s) + j] = t[j]
         /\ \A j \in 1 .. Len(s \o t) : j \in 1 .. Len(s) \/ (j - Len(s) \in 1 .. Len(t) /\ (s \o t)[j] = t[j - Len(s)])
<1>1. s \in Seq(R1 \cup R2) /\ t \in Seq(R1 \cup R2) /\ Len(s) \in Nat /\ Len(t) \in Nat
  OBVIOUS
<1>2. s \o t \in Seq(R1 \cup R2) /\ Len(s \o t) = Len(s) + Len(t)
  BY <1>1
<1>3. \A j \in 1 .. Len(s) : (s \o t)[j] = s[j]
  BY <1>1
<1>4. \A j \in 1 .. Len(t) : (s \o t)[Len(s) + j] = t[j]
  BY <1>1
<1>5. ASSUME NEW j \in 1 .. Len(s \o t), j \notin 1 .. Len(s)
      PROVE  j - Len(s) \in 1 .. Len(t) /\ (s \o t)[j] = t[j - Len(s)]
  <2>1. PICK i : i = j - Len(s)
    OBVIOUS
  <2>2. i \in 1 .. Len(t) /\ Len(s) + i = j
    BY <1>1, <1>2, <1>5, <2>1
  <2> QED
    BY <1>4, <2>1, <2>2
<1> QED
  BY <1>1, <1>2, <1>3, <1>4, <1>5

(* A concatenation lists the elements of both. *)
LEMMA ListsCat ==
  ASSUME NEW s, NEW t, NEW R1, NEW R2, Lists(s, R1), Lists(t, R2)
  PROVE  Lists(s \o t, R1 \cup R2)
<1>1. s \in Seq(R1) /\ t \in Seq(R2)
  BY DEF Lists
<1>2. /\ s \o t \in Seq(R1 \cup R2) /\ Len(s \o t) = Len(s) + Len(t) /\ Len(s) \in Nat /\ Len(t) \in Nat
      /\ \A j \in 1 .. Len(s) : (s \o t)[j] = s[j]
      /\ \A j \in 1 .. Len(t) : (s \o t)[Len(s) + j] = t[j]
  BY <1>1, CatIs
<1>3. ASSUME NEW v \in R1 PROVE \E j \in 1 .. Len(s \o t) : (s \o t)[j] = v
  <2>1. PICK j \in 1 .. Len(s) : s[j] = v
    BY DEF Lists
  <2>2. j \in 1 .. Len(s \o t)
    BY <1>2
  <2> QED
    BY <1>2, <2>1, <2>2
<1>4. ASSUME NEW v \in R2 PROVE \E j \in 1 .. Len(s \o t) : (s \o t)[j] = v
  <2>1. PICK j \in 1 .. Len(t) : t[j] = v
    BY DEF Lists
  <2>2. Len(s) + j \in 1 .. Len(s \o t)
    BY <1>2
  <2> QED
    BY <1>2, <2>1, <2>2
<1> QED
  BY <1>2, <1>3, <1>4 DEF Lists

(* The parts of a sequence behind another one. *)
LEMMA PartsBehind ==
  ASSUME NEW s, NEW t, NEW R, NEW P, NEW w, NEW Q, NEW n, Lists(s, R), Parts(t, P, w, Q, n)
  PROVE  Parts(s \o t, R \cup P, w, Q, Len(s) + n)
<1>1. s \in Seq(R) /\ t \in Seq(P \cup {w} \cup Q)
  BY DEF Lists, Parts
<1>2. /\ Len(s \o t) = Len(s) + Len(t) /\ Len(s) \in Nat /\ Len(t) \in Nat
      /\ \A j \in 1 .. Len(s) : (s \o t)[j] = s[j]
      /\ \A j \in 1 .. Len(t) : (s \o t)[Len(s) + j] = t[j]
      /\ \A j \in 1 .. Len(s \o t) : j \in 1 .. Len(s) \/ (j - Len(s) \in 1 .. Len(t) /\ (s \o t)[j] = t[j - Len(s)])
  BY <1>1, CatIs
<1>3. Lists(s \o t, (R \cup P) \cup {w} \cup Q)
  <2>1. Lists(s \o t, R \cup (P \cup {w} \cup Q))
    BY ListsCat DEF Parts
  <2>2. R \cup (P \cup {w} \cup Q) = (R \cup P) \cup {w} \cup Q
    OBVIOUS
  <2> QED
    BY <2>1, <2>2
<1>4. n \in 1 .. Len(t) /\ t[n] = w
  BY DEF Parts
<1>5. ASSUME NEW j \in 1 .. (Len(s) + n) - 1 PROVE (s \o t)[j] \in R \cup P
  <2>1. CASE j \in 1 .. Len(s)
    BY <1>1, <1>2, <2>1
  <2>2. CASE j \notin 1 .. Len(s)
    <3>1. j \in 1 .. Len(s \o t) /\ j - Len(s) \in 1 .. n - 1
      BY <1>2, <1>4, <2>2
    <3>2. (s \o t)[j] = t[j - Len(s)]
      BY <1>2, <2>2, <3>1
    <3> QED
      BY <3>1, <3>2 DEF Parts
  <2> QED
    BY <2>1, <2>2
<1>6. ASSUME NEW j \in (Len(s) + n) + 1 .. Len(s \o t) PROVE (s \o t)[j] \in Q
  <2>1. j \in 1 .. Len(s \o t) /\ j - Len(s) \in n + 1 .. Len(t) /\ j \notin 1 .. Len(s)
    BY <1>2, <1>4
  <2>2. (s \o t)[j] = t[j - Len(s)]
    BY <1>2, <2>1
  <2> QED
    BY <2>1, <2>2 DEF Parts
<1> QED
  BY <1>2, <1>3, <1>4, <1>5, <1>6 DEF Parts

(* The parts of a sequence before another one. *)
LEMMA PartsBefore ==
  ASSUME NEW s, NEW t, NEW R, NEW P, NEW w, NEW Q, NEW n, Parts(s, P, w, Q, n), Lists(t, R)
  PROVE  Parts(s \o t, P, w, Q \cup R, n)
<1>1. s \in Seq(P \cup {w} \cup Q) /\ t \in Seq(R)
  BY DEF Lists, Parts
<1>2. /\ Len(s \o t) = Len(s) + Len(t) /\ Len(s) \in Nat /\ Len(t) \in Nat
      /\ \A j \in 1 .. Len(s) : (s \o t)[j] = s[j]
      /\ \A j \in 1 .. Len(t) : (s \o t)[Len(s) + j] = t[j]
      /\ \A j \in 1 .. Len(s \o t) : j \in 1 .. Len(s) \/ (j - Len(s) \in 1 .. Len(t) /\ (s \o t)[j] = t[j - Len(s)])
  BY <1>1, CatIs
<1>3. Lists(s \o t, P \cup {w} \cup (Q \cup R))
  <2>1. Lists(s \o t, (P \cup {w} \cup Q) \cup R)
    BY ListsCat DEF Parts
  <2>2. (P \cup {w} \cup Q) \cup R = P \cup {w} \cup (Q \cup R)
    OBVIOUS
  <2> QED
    BY <2>1, <2>2
<1>4. n \in 1 .. Len(s) /\ s[n] = w
  BY DEF Parts
<1>5. ASSUME NEW j \in 1 .. n - 1 PROVE (s \o t)[j] \in P
  <2>1. j \in 1 .. Len(s)
    BY <1>2, <1>4
  <2> QED
    BY <1>2, <2>1 DEF Parts
<1>6. ASSUME NEW j \in n + 1 .. Len(s \o t) PROVE (s \o t)[j] \in Q \cup R
  <2>1. CASE j \in 1 .. Len(s)
    <3>1. j \in n + 1 .. Len(s)
      BY <2>1
    <3> QED
      BY <1>2, <2>1, <3>1 DEF Parts
  <2>2. CASE j \notin 1 .. Len(s)
    <3>1. j \in 1 .. Len(s \o t)
      BY <1>2, <1>4
    <3>2. j - Len(s) \in 1 .. Len(t) /\ (s \o t)[j] = t[j - Len(s)]
      BY <1>2, <2>2, <3>1
    <3> QED
      BY <1>1, <3>2
  <2> QED
    BY <2>1, <2>2
<1> QED
  BY <1>2, <1>3, <1>4, <1>5, <1>6 DEF Parts

(* No block is freed twice by both when one frees nothing. *)
LEMMA OnceCat ==
  ASSUME NEW s, NEW t, NEW R1, NEW R2, Lists(s, R1), Lists(t, R2), \A v \in R1 : v[2] # "free", Once(t)
  PROVE  Once(s \o t)
<1>1. s \in Seq(R1) /\ t \in Seq(R2)
  BY DEF Lists
<1>2. /\ Len(s \o t) = Len(s) + Len(t) /\ Len(s) \in Nat /\ Len(t) \in Nat
      /\ \A j \in 1 .. Len(s) : (s \o t)[j] = s[j]
      /\ \A j \in 1 .. Len(s \o t) : j \in 1 .. Len(s) \/ (j - Len(s) \in 1 .. Len(t) /\ (s \o t)[j] = t[j - Len(s)])
  BY <1>1, CatIs
<1>3. ASSUME NEW j \in 1 .. Len(s \o t), (s \o t)[j][2] = "free"
      PROVE  j - Len(s) \in 1 .. Len(t) /\ (s \o t)[j] = t[j - Len(s)]
  BY <1>1, <1>2, <1>3
<1>4. ASSUME NEW i \in 1 .. Len(s \o t), NEW j \in 1 .. Len(s \o t), (s \o t)[i][2] = "free",
             (s \o t)[j][2] = "free", (s \o t)[i][1] = (s \o t)[j][1]
      PROVE  i = j
  <2>1. i - Len(s) = j - Len(s)
    BY <1>3, <1>4 DEF Once
  <2> QED
    BY <1>2, <2>1
<1> QED
  BY <1>4 DEF Once

(* A tuple of one is of length one. *)
LEMMA LenOfOne ==
  ASSUME NEW x
  PROVE  Len(<<x>>) = 1
OBVIOUS

(* Short sequences. *)
LEMMA OneOf ==
  ASSUME NEW a
  PROVE  Lists(<<a>>, {a})
BY DEF Lists

(* A sequence of two. *)
LEMMA TwoOf ==
  ASSUME NEW a, NEW b
  PROVE  Lists(<<a, b>>, {a, b})
<1>1. <<a, b>> \in Seq({a, b}) /\ Len(<<a, b>>) = 2 /\ <<a, b>>[1] = a /\ <<a, b>>[2] = b
  OBVIOUS
<1>2. 1 \in 1 .. 2 /\ 2 \in 1 .. 2
  OBVIOUS
<1> QED
  BY <1>1, <1>2 DEF Lists

(* A sequence of three. *)
LEMMA ThreeOf ==
  ASSUME NEW a, NEW b, NEW c
  PROVE  Lists(<<a, b, c>>, {a, b, c})
<1>1. PICK s : s = <<a, b, c>>
  OBVIOUS
<1>2. s \in Seq({a, b, c}) /\ Len(s) = 3 /\ s[1] = a /\ s[2] = b /\ s[3] = c
  BY <1>1
<1>3. 1 \in 1 .. 3 /\ 2 \in 1 .. 3 /\ 3 \in 1 .. 3
  OBVIOUS
<1> QED
  BY <1>1, <1>2, <1>3 DEF Lists

(* A sequence of five. *)
LEMMA FiveOf ==
  ASSUME NEW a, NEW b, NEW c, NEW d, NEW e
  PROVE  Lists(<<a, b, c, d, e>>, {a, b, c, d, e})
<1>1. PICK s : s = <<a, b, c, d, e>>
  OBVIOUS
<1>2. s \in Seq({a, b, c, d, e}) /\ Len(s) = 5 /\ s[1] = a /\ s[2] = b /\ s[3] = c /\ s[4] = d /\ s[5] = e
  BY <1>1
<1>3. 1 \in 1 .. 5 /\ 2 \in 1 .. 5 /\ 3 \in 1 .. 5 /\ 4 \in 1 .. 5 /\ 5 \in 1 .. 5
  OBVIOUS
<1> QED
  BY <1>1, <1>2, <1>3 DEF Lists

(* The empty sequence. *)
LEMMA NoneOf == Lists(<<>>, {})
BY DEF Lists

(* A sequence of one write, and of two. *)
LEMMA PartsOne ==
  ASSUME NEW w
  PROVE  Parts(<<w>>, {}, w, {}, 1)
<1>1. Lists(<<w>>, {} \cup {w} \cup {})
  BY OneOf
<1> QED
  BY <1>1 DEF Parts

(* The parts of a sequence of two. *)
LEMMA PartsTwo ==
  ASSUME NEW v, NEW w
  PROVE  Parts(<<v, w>>, {v}, w, {}, 2) /\ Parts(<<v, w>>, {}, v, {w}, 1)
<1>1. Lists(<<v, w>>, {v} \cup {w} \cup {}) /\ Lists(<<v, w>>, {} \cup {v} \cup {w})
  <2>1. {v} \cup {w} \cup {} = {v, w} /\ {} \cup {v} \cup {w} = {v, w}
    OBVIOUS
  <2> QED
    BY <2>1, TwoOf
<1>2. Len(<<v, w>>) = 2 /\ <<v, w>>[1] = v /\ <<v, w>>[2] = w
  OBVIOUS
<1> QED
  BY <1>1, <1>2 DEF Parts

-----------------------------------------------------------------------------
(* Between two calls, and after a call has taken its blocks. *)

Rest(m, T) ==
  /\ Shaped(m) /\ LiveIn(m, T) /\ EndsOK(m, T) /\ Loose(m, T.own)
  /\ \A b \in Blks : T.own[b] # FREE => b \in DOMAIN m

(* The chain of a key that is a list. *)
LEMMA ChainIs ==
  ASSUME NEW m, NEW T, LiveIn(m, T), NEW k \in ListKeys, T.ent[k] # NIL
  PROVE  /\ EntryLive(m, T.own, T.ent[k], k) /\ m[T.ent[k]].val.type = CHAIN
         /\ T.kv[k] = [kind |-> "list", texts |-> T.kv[k].texts]
         /\ ListLive(m, T.own, m[T.ent[k]].val.addr, T.ns[k], k, T.kv[k].texts)
<1>1. k \in Keys
  BY DEF Keys
<1>2. KeyLive(m, T.own, T.ent[k], T.ns[k], k, T.kv[k])
  BY Zenon, <1>1 DEF LiveIn, Live
<1> QED
  BY <1>2 DEF KeyLive, ValueLive

(* Memories with the same contents count the same. *)
LEMMA EndsFrame ==
  ASSUME NEW m, NEW m2, NEW T, LiveIn(m, T), EndsOK(m, T),
         \A i \in Slots : m2[Bulk(i)].size = m[Bulk(i)].size /\ m2[Bulk(i)].tail = m[Bulk(i)].tail,
         \A b \in Blks : T.own[b] # FREE => \A f \in Fields(b[1]) : m2[b][f] = m[b][f]
  PROVE  EndsOK(m2, T)
<1> SUFFICES ASSUME NEW k \in ListKeys, T.ent[k] # NIL
             PROVE  LET c == m2[T.ent[k]].val.addr IN
                    /\ m2[c].size = Len(T.ns[k])
                    /\ T.ns[k] # <<>> => m2[c].tail = T.ns[k][Len(T.ns[k])]
  BY DEF EndsOK
<1>1. /\ EntryLive(m, T.own, T.ent[k], k)
      /\ ListLive(m, T.own, m[T.ent[k]].val.addr, T.ns[k], k, T.kv[k].texts)
  BY ChainIs
<1>2. T.ent[k] \in Blks /\ T.own[T.ent[k]] # FREE /\ "val" \in Fields(T.ent[k][1])
  BY <1>1 DEF EntryLive, Has, Fields, FREE
<1>3. m2[T.ent[k]].val = m[T.ent[k]].val
  BY <1>2
<1>4. PICK c : c = m[T.ent[k]].val.addr
  OBVIOUS
<1>5. c \in Blks /\ T.own[c] # FREE /\ "size" \in Fields(c[1]) /\ "tail" \in Fields(c[1])
  <2>1. Has(m, T.own, c, {"chain"}, <<"chain", k, NIL>>)
    BY <1>1, <1>4 DEF ListLive
  <2> QED
    BY <2>1 DEF Has, Fields, FREE
<1>6. m2[c].size = m[c].size /\ m2[c].tail = m[c].tail
  BY <1>5
<1> QED
  BY Zenon, <1>3, <1>4, <1>6 DEF EndsOK

(* Between two calls a sound state is one at rest. *)
LEMMA RestNow ==
  ASSUME NEW C, NEW N, NEW fin, NEW n, Sound(C, N, fin, n), todo = <<>>
  PROVE  /\ Rest(mem, C) /\ PoolOK(pool, mem, C.own)
         /\ view = C.kv /\ ops \in 0 .. MAX_OPS /\ Short(C.es, C.ns, ops)
<1>1. ~Ahead(mem, todo, call.op, call.key, C, N, n)
  BY DEF Ahead
<1>2. C = N /\ Base(mem, pool, todo, C, C, fin)
  BY <1>1 DEF Sound
<1>3. \A b \in DOMAIN mem : \A f \in Fields(b[1]) : mem[b][f] = fin[b][f]
  BY <1>2 DEF Base, Pending
<1>4. \A i \in Slots : Bulk(i) \in DOMAIN mem /\ "size" \in Fields(Bulk(i)[1]) /\ "tail" \in Fields(Bulk(i)[1])
  BY <1>2 DEF Base, Shaped, Bulks, Bulk, Fields
<1>5. \A b \in Blks : C.own[b] # FREE => b \in DOMAIN mem
  BY <1>2 DEF Base
<1>6. LiveIn(fin, C) /\ EndsOK(fin, C)
  BY <1>2 DEF Base
<1>7. /\ \A i \in Slots : mem[Bulk(i)].size = fin[Bulk(i)].size /\ mem[Bulk(i)].tail = fin[Bulk(i)].tail
      /\ \A b \in Blks : C.own[b] # FREE => \A f \in Fields(b[1]) : mem[b][f] = fin[b][f]
  BY <1>3, <1>4, <1>5
<1>8. EndsOK(mem, C)
  BY ONLY <1>6, <1>7, EndsFrame
<1> QED
  BY <1>2, <1>8 DEF Rest, Base, Sound

(* A block is blank when it has been carved. *)
LEMMA BlankIs ==
  ASSUME NEW c \in Classes
  PROVE  /\ DOMAIN Blank(c) = Fields(c)
         /\ "next" \in Fields(c) => Blank(c).next = NIL
         /\ "header" \in Fields(c) => Blank(c).header = NIL
BY DEF Blank, Fields, Classes

(* The blocks that a call has taken. *)
LEMMA BeginMem ==
  ASSUME NEW m, NEW T, Rest(m, T), NEW A, A \subseteq Blks, NEW m1,
         m1 = [b \in DOMAIN m \cup (A \ DOMAIN m) |-> IF b \in A \ DOMAIN m THEN Blank(b[1]) ELSE m[b]]
  PROVE  Rest(m1, T) /\ DOMAIN m1 = DOMAIN m \cup A /\ \A b \in DOMAIN m : m1[b] = m[b]
<1>1. DOMAIN m1 = DOMAIN m \cup A /\ \A b \in DOMAIN m : m1[b] = m[b]
  OBVIOUS
<1>2. ASSUME NEW b \in A, b \notin DOMAIN m PROVE m1[b] = Blank(b[1]) /\ b[1] \in Classes
  BY <1>2 DEF Blks
<1>3. Shaped(m)
  BY DEF Rest
<1>4. Shaped(m1)
  <2>1. Bulks \subseteq DOMAIN m1 /\ DOMAIN m1 \subseteq Bulks \cup Blks
    BY <1>1, <1>3 DEF Shaped
  <2>2. ASSUME NEW b \in DOMAIN m1
        PROVE  /\ DOMAIN m1[b] = Fields(b[1])
               /\ "next" \in DOMAIN m1[b] => m1[b]["next"] \in Addr
               /\ "header" \in DOMAIN m1[b] => m1[b]["header"] \in Addr
    <3>1. CASE b \in DOMAIN m
      BY <1>1, <1>3, <3>1 DEF Shaped
    <3>2. CASE b \notin DOMAIN m
      BY <1>1, <1>2, <2>2, <3>2, BlankIs, Apart
    <3> QED
      BY <3>1, <3>2
  <2> QED
    BY <2>1, <2>2 DEF Shaped
<1>5. /\ \A b \in Blks : T.own[b] # FREE => b \in DOMAIN m
      /\ \A i \in Slots : Bulk(i) \in DOMAIN m
  BY <1>3 DEF Rest, Shaped, Bulks
<1>6. /\ \A i \in Slots : m1[Bulk(i)] = m[Bulk(i)]
      /\ \A b \in Blks : T.own[b] # FREE => m1[b] = m[b]
  BY <1>1, <1>5
<1>7. LiveIn(m1, T)
  <2>1. SameLive(m, m1, T.own, T.ent, T.es)
    BY <1>1, <1>5, <1>6 DEF SameLive
  <2> QED
    BY <2>1, LiveFrame DEF LiveIn, Rest
<1>8. EndsOK(m1, T)
  <2>1. LiveIn(m, T) /\ EndsOK(m, T)
    BY DEF Rest
  <2>2. /\ \A i \in Slots : m1[Bulk(i)].size = m[Bulk(i)].size /\ m1[Bulk(i)].tail = m[Bulk(i)].tail
        /\ \A b \in Blks : T.own[b] # FREE => \A f \in Fields(b[1]) : m1[b][f] = m[b][f]
    BY <1>6
  <2> QED
    BY ONLY <2>1, <2>2, EndsFrame
<1>9. Loose(m1, T.own)
  <2> SUFFICES ASSUME NEW b \in DOMAIN m1, b \in Blks, b[1] = "entry", T.own[b][1] # "entry"
               PROVE  m1[b].next \in Ends
    BY DEF Loose
  <2>1. CASE b \in DOMAIN m
    BY <1>1, <2>1 DEF Rest, Loose
  <2>2. CASE b \notin DOMAIN m
    <3>1. m1[b] = Blank(b[1]) /\ b[1] \in Classes /\ "next" \in Fields(b[1])
      BY <1>1, <1>2, <2>2 DEF Fields
    <3>2. m1[b].next = NIL
      BY <3>1, BlankIs
    <3> QED
      BY <3>2 DEF Ends
  <2> QED
    BY <2>1, <2>2
<1> QED
  BY <1>1, <1>4, <1>5, <1>7, <1>8, <1>9 DEF Rest

-----------------------------------------------------------------------------
(* What a set of writes makes of a memory. *)

(* The writes R are to different fields of blocks of m. *)
Writable(m, R) ==
  /\ \A w \in R : w[1] \in DOMAIN m /\ w[2] \in Fields(w[1][1]) \cup {"free"}
  /\ \A w \in R : w[2] \in {"next", "header"} => w[3] \in Addr
  /\ \A v, w \in R : v[1] = w[1] /\ v[2] = w[2] /\ v[2] # "free" => v[3] = w[3]

(* fin is m with the writes R. *)
Made(m, R, fin) ==
  /\ Shaped(fin) /\ DOMAIN fin = DOMAIN m
  /\ \A w \in R : w[2] # "free" => fin[w[1]][w[2]] = w[3]
  /\ \A b \in DOMAIN m : \A f \in Fields(b[1]) : fin[b][f] = m[b][f] \/ \E w \in R : w[1] = b /\ w[2] = f

(* Two sets of writes that do not meet may be made together. *)
LEMMA WritableCat ==
  ASSUME NEW m, NEW R1, NEW R2, Writable(m, R1), Writable(m, R2),
         \A v \in R1, w \in R2 : v[1] = w[1] /\ v[2] = w[2] => v[2] = "free"
  PROVE  Writable(m, R1 \cup R2)
<1>1. ASSUME NEW v \in R1 \cup R2, NEW w \in R1 \cup R2, v[1] = w[1], v[2] = w[2], v[2] # "free"
      PROVE  v[3] = w[3]
  BY <1>1 DEF Writable
<1> QED
  BY <1>1 DEF Writable

(* No block has a field of that name. *)
LEMMA NoFree ==
  ASSUME NEW m, Shaped(m), NEW b \in DOMAIN m
  PROVE  "free" \notin Fields(b[1])
<1>1. b[1] \in Classes \cup {"bulk"}
  BY Apart DEF Shaped
<1> QED
  BY <1>1 DEF Fields, Classes

(* Writes that do not contradict each other make a memory. *)
LEMMA MadeExists ==
  ASSUME NEW m, NEW R, Shaped(m), Writable(m, R)
  PROVE  \E fin : Made(m, R, fin)
<1> DEFINE To(b, f) == {w \in R : w[1] = b /\ w[2] = f}
           what(b, f) == IF To(b, f) = {} THEN m[b][f] ELSE (CHOOSE w \in To(b, f) : TRUE)[3]
           fin == [b \in DOMAIN m |-> [f \in Fields(b[1]) |-> what(b, f)]]
<1>1. ASSUME NEW b, NEW f, To(b, f) # {} PROVE \E w \in R : w[1] = b /\ w[2] = f /\ what(b, f) = w[3]
  <2>1. (CHOOSE w \in To(b, f) : TRUE) \in To(b, f)
    BY <1>1
  <2> QED
    BY <1>1, <2>1
<1>2. ASSUME NEW b, NEW f, To(b, f) = {} PROVE what(b, f) = m[b][f]
  BY <1>2
<1>3. ASSUME NEW w \in R, w[2] # "free" PROVE what(w[1], w[2]) = w[3]
  <2>1. To(w[1], w[2]) # {}
    OBVIOUS
  <2>2. PICK v \in R : v[1] = w[1] /\ v[2] = w[2] /\ what(w[1], w[2]) = v[3]
    BY <1>1, <2>1
  <2> QED
    BY <1>3, <2>2 DEF Writable
<1>4. \A b, f : To(b, f) # {} => \E w \in R : w[1] = b /\ w[2] = f
  OBVIOUS
<1> HIDE DEF To, what
<1>5. DOMAIN fin = DOMAIN m /\ \A b \in DOMAIN m : DOMAIN fin[b] = Fields(b[1])
  OBVIOUS
<1>6. \A b \in DOMAIN m : \A f \in Fields(b[1]) : fin[b][f] = what(b, f)
  OBVIOUS
<1> HIDE DEF fin
<1>7. ASSUME NEW b \in DOMAIN m, NEW f \in {"next", "header"}, f \in Fields(b[1])
      PROVE  fin[b][f] \in Addr
  <2>1. CASE To(b, f) = {}
    <3>1. fin[b][f] = m[b][f]
      BY <1>2, <1>6, <1>7, <2>1
    <3> QED
      BY <1>7, <3>1 DEF Shaped
  <2>2. CASE To(b, f) # {}
    <3>1. PICK w \in R : w[1] = b /\ w[2] = f /\ what(b, f) = w[3]
      BY <1>1, <2>2
    <3>2. w[3] \in Addr
      BY <3>1 DEF Writable
    <3> QED
      BY <1>6, <1>7, <3>1, <3>2
  <2> QED
    BY <2>1, <2>2
<1>8. Shaped(fin)
  BY <1>5, <1>7 DEF Shaped
<1>9. ASSUME NEW w \in R, w[2] # "free" PROVE fin[w[1]][w[2]] = w[3]
  <2>1. w[1] \in DOMAIN m /\ w[2] \in Fields(w[1][1])
    BY <1>9 DEF Writable
  <2> QED
    BY <1>3, <1>6, <1>9, <2>1
<1>10. ASSUME NEW b \in DOMAIN m, NEW f \in Fields(b[1])
       PROVE  fin[b][f] = m[b][f] \/ \E w \in R : w[1] = b /\ w[2] = f
  BY <1>2, <1>4, <1>6
<1> QED
  BY <1>5, <1>8, <1>9, <1>10 DEF Made

(* Their sequence is what is pending on the way to that memory. *)
LEMMA MadePending ==
  ASSUME NEW m, NEW R, NEW fin, NEW ws, Writable(m, R), Made(m, R, fin), Lists(ws, R)
  PROVE  Pending(m, ws, fin)
<1>1. ws \in Seq(R) /\ DOMAIN fin = DOMAIN m
  BY DEF Lists, Made
<1>2. ASSUME NEW j \in 1 .. Len(ws) PROVE IsWrite(ws[j], fin)
  <2>1. ws[j] \in R
    BY <1>1
  <2> QED
    BY <1>1, <2>1 DEF Writable, Made, IsWrite
<1>3. ASSUME NEW b \in DOMAIN m, NEW f \in Fields(b[1])
      PROVE  m[b][f] = fin[b][f] \/ \E j \in 1 .. Len(ws) : ws[j][1] = b /\ ws[j][2] = f
  <2>1. CASE fin[b][f] = m[b][f]
    BY <2>1
  <2>2. CASE \E w \in R : w[1] = b /\ w[2] = f
    <3>1. PICK w \in R : w[1] = b /\ w[2] = f
      BY <2>2
    <3>2. PICK j \in 1 .. Len(ws) : ws[j] = w
      BY DEF Lists
    <3> QED
      BY <3>1, <3>2
  <2> QED
    BY <2>1, <2>2 DEF Made
<1> QED
  BY <1>1, <1>2, <1>3 DEF Pending

(* The writes R change blocks of nobody, links of k, and links in the map. *)
Harmless(R, own, k) ==
  \A w \in R :
    \/ w[2] = "free"
    \/ w[1] \in Blks /\ own[w[1]] = FREE
    \/ w[2] \in Links /\ w[1] \in Bulks
    \/ w[2] \in Links /\ w[1] \in Blks /\ own[w[1]][2] = k
    \/ w[2] = "next" /\ w[1] \in Blks /\ w[1][1] = "entry"

(* The blocks of other keys. *)
LEMMA OthersSame ==
  ASSUME NEW m, Shaped(m), NEW R, NEW fin, Made(m, R, fin), NEW own, NEW k, Harmless(R, own, k),
         NEW b \in DOMAIN m, b \in Blks, own[b] # FREE, NEW f \in Fields(b[1]), fin[b][f] # m[b][f]
  PROVE  f \in Links /\ (own[b][2] = k \/ (f = "next" /\ b[1] = "entry"))
<1>1. PICK w \in R : w[1] = b /\ w[2] = f
  BY DEF Made
<1>2. f # "free" /\ b \notin Bulks
  BY NoFree, Apart
<1> QED
  BY <1>1, <1>2 DEF Harmless, Links

(* The blocks of other keys than k stay theirs. *)
Keeps(own, own2, k) == \A b \in Blks : own[b] # FREE /\ own[b][2] # k => own2[b] = own[b]

(* The values of other keys. *)
LEMMA OthersLive ==
  ASSUME NEW m, NEW C, Rest(m, C), NEW R, NEW fin, Made(m, R, fin), NEW k, Harmless(R, C.own, k),
         NEW own2, Keeps(C.own, own2, k), NEW j \in Keys, j # k
  PROVE  KeyLive(fin, own2, C.ent[j], C.ns[j], j, C.kv[j])
<1>. Shaped(m) /\ LiveIn(m, C) /\ \A b \in Blks : C.own[b] # FREE => b \in DOMAIN m
  BY DEF Rest
<1>1. SameBlocks(m, C.own, fin, own2, j)
  <2> SUFFICES ASSUME NEW b \in Blks, C.own[b] # FREE, C.own[b][2] = j
               PROVE  /\ own2[b] = C.own[b] /\ b \in DOMAIN fin
                      /\ \A f \in Fields(b[1]) \ Links : fin[b][f] = m[b][f]
    BY DEF SameBlocks
  <2> QED
    BY OthersSame DEF Made, Keeps
<1>2. SameLinks(m, C.own, fin, j)
  <2> SUFFICES ASSUME NEW b \in Blks, C.own[b] # FREE, C.own[b][2] = j
               PROVE  /\ b[1] = "node" => fin[b].next = m[b].next
                      /\ b[1] = "chain" => fin[b].header = m[b].header
    BY DEF SameLinks
  <2>1. b[1] = "node" => "next" \in Fields(b[1])
    BY DEF Fields
  <2>2. b[1] = "chain" => "header" \in Fields(b[1])
    BY DEF Fields
  <2> QED
    BY <2>1, <2>2, OthersSame
<1>3. KeyLive(m, C.own, C.ent[j], C.ns[j], j, C.kv[j])
  BY Zenon DEF LiveIn, Live
<1> QED
  BY <1>1, <1>2, <1>3, KeyFrame

(* What the chain in the entry e of a list counts, and where it appends. *)
Counts(m, e, s) ==
  LET c == m[e].val.addr IN m[c].size = Len(s) /\ (s # <<>> => m[c].tail = s[Len(s)])

(* What the chains of other keys count, and where they append. *)
LEMMA OthersEnd ==
  ASSUME NEW m, NEW C, Rest(m, C), NEW R, NEW fin, Made(m, R, fin), NEW k, Harmless(R, C.own, k),
         NEW j \in ListKeys, j # k, C.ent[j] # NIL
  PROVE  Counts(fin, C.ent[j], C.ns[j])
<1>1. LiveIn(m, C) /\ Shaped(m) /\ EndsOK(m, C) /\ \A b \in Blks : C.own[b] # FREE => b \in DOMAIN m
  BY DEF Rest
<1>2. /\ EntryLive(m, C.own, C.ent[j], j)
      /\ ListLive(m, C.own, m[C.ent[j]].val.addr, C.ns[j], j, C.kv[j].texts)
  BY <1>1, ChainIs
<1>3. PICK e : e = C.ent[j]
  OBVIOUS
<1>4. e \in Blks /\ C.own[e] # FREE /\ e \in DOMAIN m /\ "val" \in Fields(e[1]) /\ "val" \notin Links
  BY <1>2, <1>3 DEF EntryLive, Has, FREE, Fields, Links
<1>5. fin[e].val = m[e].val
  BY <1>1, <1>4, OthersSame
<1>6. PICK c : c = m[e].val.addr
  OBVIOUS
<1>7. Has(m, C.own, c, {"chain"}, <<"chain", j, NIL>>)
  BY <1>2, <1>3, <1>6 DEF ListLive
<1>8. /\ c \in Blks /\ C.own[c] # FREE /\ C.own[c][2] = j /\ c \in DOMAIN m /\ c[1] = "chain"
      /\ "size" \in Fields(c[1]) /\ "tail" \in Fields(c[1])
  BY <1>7 DEF Has, FREE, Fields
<1>9. fin[c].size = m[c].size /\ fin[c].tail = m[c].tail
  BY <1>1, <1>8, OthersSame
<1> QED
  BY Zenon, <1>1, <1>3, <1>5, <1>6, <1>9 DEF EndsOK, Counts

-----------------------------------------------------------------------------
(* The writes of a new string. *)

LongW(d) == IF d[1] = "entry" THEN {W(d, "next", WILD)} ELSE {}

StrW(v, s, d, t) ==
  {W(v, "val", Val(STR, s)), W(s, "val", Val("len", d))} \cup (LongW(d) \cup {W(d, "h1", t), W(d, "h2", t)})

(* touchdb_str_new2 makes the writes StrW. *)
LEMMA StrLists ==
  ASSUME NEW v, NEW s, NEW d, NEW t
  PROVE  Lists(touchdb_str_new2(v, s, d, t), StrW(v, s, d, t))
<1>1. PICK w1, w2, w3, w4, w5 : /\ w1 = W(v, "val", Val(STR, s)) /\ w2 = W(s, "val", Val("len", d))
                                /\ w3 = W(d, "next", WILD) /\ w4 = W(d, "h1", t) /\ w5 = W(d, "h2", t)
  OBVIOUS
<1>2. Lists(<<w1, w2>>, {w1, w2}) /\ Lists(<<w4, w5>>, {w4, w5})
  BY TwoOf
<1>3. PICK l : l = IF d[1] = "entry" THEN <<w3>> ELSE <<>>
  OBVIOUS
<1>4. Lists(l, LongW(d))
  BY <1>1, <1>3, OneOf, NoneOf DEF LongW
<1>5. Lists(l \o <<w4, w5>>, LongW(d) \cup {w4, w5})
  BY <1>2, <1>4, ListsCat
<1>6. Lists(<<w1, w2>> \o (l \o <<w4, w5>>), {w1, w2} \cup (LongW(d) \cup {w4, w5}))
  BY <1>2, <1>5, ListsCat
<1> QED
  BY <1>1, <1>3, <1>6 DEF touchdb_str_new2, TextWrites, StrW

(* Three blocks for a string and the value that points to it. *)
StrBlocks(m, v, s, d) ==
  /\ v \in DOMAIN m /\ s \in DOMAIN m /\ d \in DOMAIN m /\ v # s
  /\ v \in Blks /\ s \in Blks /\ d \in Blks
  /\ v[1] = "pair" /\ s[1] = "pair" /\ d[1] \in {"text", ListTextClass}

(* They are writes to the three blocks of the string. *)
LEMMA StrWrites ==
  ASSUME NEW m, NEW v, NEW s, NEW d, NEW t, StrBlocks(m, v, s, d)
  PROVE  /\ Writable(m, StrW(v, s, d, t))
         /\ \A w \in StrW(v, s, d, t) :
              /\ w[1] \in {v, s, d} /\ w[2] \in {"val", "h1", "h2", "next"}
              /\ w[2] = "next" => w[3] \in Ends
<1>1. ListTextClass \in {"text", "entry"}
  BY ShmAssumption
<1>2. v # d /\ s # d /\ d[1] \in {"text", "entry"}
  BY <1>1 DEF StrBlocks
<1>3. ASSUME NEW w \in StrW(v, s, d, t)
      PROVE  \/ w = <<v, "val", Val(STR, s)>>
             \/ w = <<s, "val", Val("len", d)>>
             \/ w = <<d, "h1", t>>
             \/ w = <<d, "h2", t>>
             \/ w = <<d, "next", WILD>> /\ d[1] = "entry"
  BY DEF StrW, LongW, W
<1>4. ASSUME NEW w \in StrW(v, s, d, t)
      PROVE  /\ w[1] \in {v, s, d} /\ w[2] \in {"val", "h1", "h2", "next"}
             /\ w[1] = v => w[2] = "val" /\ w[3] = Val(STR, s)
             /\ w[1] = s => w[2] = "val" /\ w[3] = Val("len", d)
             /\ w[1] = d => w[2] \in {"h1", "h2", "next"}
             /\ w[2] = "next" => w[1] = d /\ d[1] = "entry"
             /\ w[2] = "next" => w[3] = WILD
             /\ w[2] \in {"h1", "h2"} => w[3] = t
  BY <1>2, <1>3 DEF StrBlocks
<1>5. Fields("pair") = {"val"} /\ {"h1", "h2"} \subseteq Fields("text") /\ {"h1", "h2", "next"} \subseteq Fields("entry")
  BY DEF Fields
<1>6. ASSUME NEW w \in StrW(v, s, d, t) PROVE w[1] \in DOMAIN m /\ w[2] \in Fields(w[1][1])
  <2>1. CASE w[1] = v \/ w[1] = s
    BY <1>4, <1>5, <2>1 DEF StrBlocks
  <2>2. CASE w[1] = d
    BY <1>2, <1>4, <1>5, <2>2 DEF StrBlocks
  <2> QED
    BY <1>4, <2>1, <2>2
<1>7. ASSUME NEW w \in StrW(v, s, d, t), NEW x \in StrW(v, s, d, t), w[1] = x[1], w[2] = x[2]
      PROVE  w[3] = x[3]
  <2>1. CASE w[1] = v \/ w[1] = s
    BY <1>4, <1>7, <2>1
  <2>2. CASE w[1] = d
    BY <1>4, <1>7, <2>2
  <2> QED
    BY <1>4, <2>1, <2>2
<1>8. ASSUME NEW w \in StrW(v, s, d, t), w[2] = "next" PROVE w[3] \in Ends
  BY <1>1, <1>2, <1>4, <1>8 DEF Ends, StrBlocks
<1>9. \A w \in StrW(v, s, d, t) : w[2] \in {"next", "header"} => w[3] \in Addr
  BY <1>4, Apart
<1>10. Writable(m, StrW(v, s, d, t))
  BY <1>6, <1>7, <1>9 DEF Writable
<1> QED
  BY <1>4, <1>8, <1>10

StrOwned(own, s, d, k, tag) == own[s] = tag /\ own[d] = <<"text", k, s>>

(* They make a string with its whole text. *)
LEMMA StrMade ==
  ASSUME NEW m, NEW R, NEW fin, Made(m, R, fin), NEW v, NEW s, NEW d, NEW t, StrBlocks(m, v, s, d),
         StrW(v, s, d, t) \subseteq R, NEW own, NEW k, NEW tag, StrOwned(own, s, d, k, tag)
  PROVE  StrLive(fin, own, s, k, tag, t)
<1>1. PICK w1, w2, w3 : w1 = <<s, "val", Val("len", d)>> /\ w2 = <<d, "h1", t>> /\ w3 = <<d, "h2", t>>
  OBVIOUS
<1>2. w1 \in R /\ w2 \in R /\ w3 \in R
  BY <1>1 DEF StrW, W
<1>3. fin[s].val = Val("len", d) /\ fin[d].h1 = t /\ fin[d].h2 = t
  BY <1>1, <1>2 DEF Made
<1>4. fin[s].val.addr = d
  BY <1>3 DEF Val
<1>5. d[1] \in TextClasses /\ DOMAIN fin = DOMAIN m
  BY ShmAssumption DEF StrBlocks, TextClasses, Made
<1> QED
  BY <1>3, <1>4, <1>5 DEF StrLive, Has, StrBlocks, StrOwned

-----------------------------------------------------------------------------
(* The beginning of a call. *)

(* The files between two calls. *)
Ready(C) ==
  /\ Rest(mem, C) /\ PoolOK(pool, mem, C.own)
  /\ view = C.kv /\ ops \in 0 .. MAX_OPS /\ Short(C.es, C.ns, ops)

Asked(cs) == {Blocks(cs)[i] : i \in 1 .. Len(cs)}

(* touchdb_malloc for the classes cs: the tables rest, and the blocks      *)
(* asked for are carved, nobody's and on no free list.                     *)
LEMMA BeginIs ==
  ASSUME NEW C, Ready(C), NEW op, NEW k, NEW cs \in Seq(Classes), NEW ws, Begin(op, k, cs, ws)
  PROVE  /\ Rest(mem', C) /\ DOMAIN mem' = DOMAIN mem \cup Asked(cs) /\ \A b \in DOMAIN mem : mem'[b] = mem[b]
         /\ PoolOK(pool', mem', C.own)
         /\ \A b \in Asked(cs) : /\ b \in Blks /\ C.own[b] = FREE /\ b \in DOMAIN mem'
                                 /\ \A c \in Classes : \A i \in 1 .. Len(pool'.free[c]) : pool'.free[c][i] # b
<1>1. DOMAIN cs = 1 .. Len(cs)
  OBVIOUS
<1>2. PICK A : A = Asked(cs)
  OBVIOUS
<1>3. {Blocks(cs)[i] : i \in DOMAIN cs} = A
  BY <1>1, <1>2 DEF Asked
<1>4. mem' = [b \in DOMAIN mem \cup (A \ DOMAIN mem) |-> IF b \in A \ DOMAIN mem THEN Blank(b[1]) ELSE mem[b]]
  BY <1>3 DEF Begin
<1>5. PoolOK(pool, mem, C.own) /\ Rest(mem, C)
  BY DEF Ready
<1>6. \A i \in 1 .. Len(cs) : Blocks(cs)[i] \in Blks /\ C.own[Blocks(cs)[i]] = FREE
  BY <1>5, BlocksAre
<1>7. A \subseteq Blks /\ \A b \in A : C.own[b] = FREE
  BY <1>2, <1>6 DEF Asked
<1>8. Rest(mem', C) /\ DOMAIN mem' = DOMAIN mem \cup A /\ \A b \in DOMAIN mem : mem'[b] = mem[b]
  BY ONLY <1>4, <1>5, <1>7, BeginMem
<1>9. /\ PoolOK(Taken(cs), mem', C.own)
      /\ \A i \in 1 .. Len(cs), c \in Classes : \A j \in 1 .. Len(Taken(cs).free[c]) :
              Taken(cs).free[c][j] # Blocks(cs)[i]
  <2>1. DOMAIN mem' = DOMAIN mem \cup {Blocks(cs)[i] : i \in 1 .. Len(cs)}
    BY <1>2, <1>8 DEF Asked
  <2>2. \A b \in Blks : C.own[b] = C.own[b] \/ \E i \in 1 .. Len(cs) : b = Blocks(cs)[i]
    OBVIOUS
  <2> QED
    BY ONLY cs \in Seq(Classes), <1>5, <2>1, <2>2, TakenIs
<1>10. pool' = Taken(cs)
  BY DEF Begin
<1> QED
  BY <1>2, <1>7, <1>8, <1>9, <1>10 DEF Asked

(* A call that has begun is sound. *)
LEMMA Starts ==
  ASSUME NEW C, Ready(C), ops < MAX_OPS, NEW op, NEW k, NEW cs \in Seq(Classes), NEW ws, Begin(op, k, cs, ws),
         view' = View', NEW N, NEW fin, NEW P, NEW w, NEW Q, NEW n, Parts(ws, P, w, Q, n), Once(ws),
         Writable(mem', P \cup {w} \cup Q), Made(mem', P \cup {w} \cup Q, fin),
         LiveIn(fin, N), EndsOK(fin, N), Loose(fin, C.own), Grown(C, N, op, k), Short(N.es, N.ns, ops + 1),
         \A b \in Blks : N.own[b] = C.own[b] \/ N.own[b] = FREE \/ b \in Asked(cs),
         \A v \in P : v[2] # "free" /\ (v[2] = "tail" \/ (v[1] \in Blks /\ C.own[v[1]] = FREE)),
         w[2] \in {"next", "header"},
         \A v \in Q : /\ Quiet(v, N)
                      /\ v[2] = "next" /\ N.own[v[1]] # FREE => C.own[v[1]][1] # "entry"
                      /\ v[2] = "free" => /\ v[1] \in Blks /\ N.own[v[1]] = FREE
                                          /\ C.own[v[1]] # FREE \/ v[1] \in Asked(cs),
         op = "list_pop" => /\ P = {} /\ w[1] = mem'[C.ent[k]].val.addr /\ w[2] = "header"
                            /\ \A v \in Q : v[2] # "header"
  PROVE  Sound(C, N, fin, n)'
<1>1. PICK R : R = P \cup {w} \cup Q
  OBVIOUS
<1>2. /\ Rest(mem', C) /\ PoolOK(pool', mem', C.own)
      /\ \A b \in Asked(cs) : /\ b \in Blks /\ C.own[b] = FREE /\ b \in DOMAIN mem'
                              /\ \A c \in Classes : \A i \in 1 .. Len(pool'.free[c]) : pool'.free[c][i] # b
  BY BeginIs
<1>3. ws \in Seq(R) /\ n \in 1 .. Len(ws) /\ ws[n] = w /\ Lists(ws, R)
  BY <1>1 DEF Parts, Lists
<1>4. ASSUME NEW j \in 1 .. Len(ws)
      PROVE  ws[j] \in R /\ (j < n => ws[j] \in P) /\ (j = n => ws[j] = w) /\ (j > n => ws[j] \in Q)
  BY <1>3 DEF Parts
<1>5. Shaped(fin) /\ Pending(mem', ws, fin)
  <2>1. Writable(mem', R) /\ Made(mem', R, fin)
    BY <1>1
  <2> QED
    BY <1>3, <2>1, MadePending DEF Made
<1>6. PoolOK(pool', mem', N.own)
  <2>1. \A b \in Blks : C.own[b] = FREE /\ b \notin Asked(cs) => N.own[b] = FREE
    OBVIOUS
  <2>2. \A c \in Classes : \A i \in 1 .. Len(pool'.free[c]) :
          /\ pool'.free[c][i] \in Blks /\ C.own[pool'.free[c][i]] = FREE /\ pool'.free[c][i] \notin Asked(cs)
    BY <1>2 DEF PoolOK
  <2>3. \A b \in Blks : N.own[b] # FREE => b \in DOMAIN mem'
    BY <1>2 DEF Rest
  <2>4. PICK p, m : p = pool' /\ m = mem'
    OBVIOUS
  <2>5. PoolOK(p, m, C.own)
    BY <1>2, <2>4
  <2>6. \A c \in Classes : \A i \in 1 .. Len(p.free[c]) : N.own[p.free[c][i]] = FREE
    BY <2>1, <2>2, <2>4
  <2>7. \A b \in Blks : N.own[b] # FREE => b \in DOMAIN m
    BY <2>3, <2>4
  <2>8. PoolOK(p, m, N.own)
    BY ONLY <2>5, <2>6, <2>7 DEF PoolOK
  <2> QED
    BY <2>4, <2>8
<1>7. Frees(ws, pool', N.own)
  <2>1. ASSUME NEW j \in 1 .. Len(ws), ws[j][2] = "free"
        PROVE  /\ ws[j][1] \in Blks /\ N.own[ws[j][1]] = FREE
               /\ \A i \in 1 .. Len(pool'.free[ws[j][1][1]]) : pool'.free[ws[j][1][1]][i] # ws[j][1]
    <3>1. PICK v : v = ws[j]
      OBVIOUS
    <3>2. v \in Q
      BY <1>3, <1>4, <2>1, <3>1
    <3>3. /\ v[1] \in Blks /\ N.own[v[1]] = FREE /\ v[1][1] \in Classes
          /\ C.own[v[1]] # FREE \/ v[1] \in Asked(cs)
      BY <2>1, <3>1, <3>2, Apart
    <3>4. \A i \in 1 .. Len(pool'.free[v[1][1]]) : pool'.free[v[1][1]][i] # v[1]
      BY <1>2, <3>3 DEF PoolOK
    <3> QED
      BY <3>1, <3>3, <3>4
  <2> QED
    BY <2>1 DEF Frees, Once
<1>8. todo' = ws /\ call' = [op |-> op, key |-> k] /\ ops' = ops + 1
  BY DEF Begin
<1>9. Base(mem', pool', todo', C, N, fin)
  BY <1>2, <1>5, <1>6, <1>7, <1>8 DEF Base, Rest
<1>10. Ahead(mem', ws, op, k, C, N, n)
  <2>1. n \in 1 .. Len(ws) /\ ws[n] = w
    BY <1>3
  <2>2. \A j \in 1 .. n - 1 :
       ws[j][2] # "free" /\ (ws[j][2] = "tail" \/ (ws[j][1] \in Blks /\ C.own[ws[j][1]] = FREE))
    BY DEF Parts
  <2>3. \A j \in n + 1 .. Len(ws) :
           /\ Quiet(ws[j], N)
           /\ ws[j][2] = "next" /\ N.own[ws[j][1]] # FREE => C.own[ws[j][1]][1] # "entry"
    BY DEF Parts
  <2>4. ASSUME op = "list_pop"
        PROVE  /\ ws[n][1] = mem'[C.ent[k]].val.addr /\ ws[n][2] = "header"
               /\ \A j \in 1 .. Len(ws) : j # n => ws[j][2] # "header"
    <3>1. ASSUME NEW j \in 1 .. Len(ws), j # n PROVE ws[j][2] # "header"
      <4>1. ws[j] \in Q
        BY <1>3, <1>4, <2>4, <3>1
      <4> QED
        BY <2>4, <4>1
    <3> QED
      BY <2>1, <2>4, <3>1
  <2>5. \A i \in Slots : mem'[Bulk(i)].size = Len(C.es[i])
    BY <1>2 DEF Rest, EndsOK
  <2> QED
    BY <2>1, <2>2, <2>3, <2>4, <2>5 DEF Ahead
<1>11. /\ view = C.kv /\ ops \in 0 .. MAX_OPS /\ Short(C.es, C.ns, ops) /\ ops' \in 0 .. MAX_OPS
  BY <1>8, ShmAssumption DEF Ready
<1>12. Short(C.es, C.ns, ops') /\ Short(N.es, N.ns, ops')
  <2>1. ASSUME NEW s, NEW S, s \in Seq(S), Len(s) <= ops PROVE Len(s) <= ops'
    <3>1. Len(s) \in Nat
      BY <2>1
    <3> QED
      BY <1>8, <1>11, <2>1, <3>1
  <2> QED
    BY <1>8, <1>11, <2>1 DEF Short
<1>13. view' = C.kv
  <2>1. ReadsTables'
    BY ReadsTablesThen
  <2>2. Shaped(mem') /\ LiveIn(mem', C)
    BY <1>2 DEF Rest
  <2>3. View' = C.kv
    BY <1>11, <1>12, <2>1, <2>2 DEF ReadsTables
  <2> QED
    BY <2>3
<1>14. k \in Keys
  BY DEF Grown
<1> QED
  BY <1>8, <1>9, <1>10, <1>11, <1>12, <1>13, <1>14 DEF Sound

-----------------------------------------------------------------------------
(* The writes of touchdb_map_put2. *)

EntryW(k, e, kb, v) ==
  {W(e, "hash", HashOf[k]), W(e, "val", v), W(e, "key", kb), W(kb, "h1", k), W(kb, "h2", k)}

LinkP(k, e) == IF mem[bulk(k)].size = 0 THEN {W(bulk(k), "tail", e)} ELSE {}

Link1(k, e) == IF mem[bulk(k)].size = 0 THEN W(bulk(k), "header", e) ELSE W(mem[bulk(k)].tail, "next", e)

LinkQ(k, e) ==
  (IF mem[bulk(k)].size = 0 THEN {} ELSE {W(bulk(k), "tail", e)})
    \cup {W(e, "next", NIL), W(bulk(k), "size", mem[bulk(k)].size + 1)}

(* The fields of a new entry. *)
LEMMA EntryLists ==
  ASSUME NEW k, NEW e, NEW kb, NEW v
  PROVE  Lists(entry_fields(k, e, kb, v), EntryW(k, e, kb, v))
BY FiveOf DEF entry_fields, EntryW

(* touchdb_map_put2 writes the entry, then the link by which it is         *)
(* reached, then the rest.                                                 *)
LEMMA MapParts ==
  ASSUME NEW k, NEW e, NEW kb, NEW v
  PROVE  \E n : Parts(touchdb_map_put2(k, e, kb, v), EntryW(k, e, kb, v) \cup LinkP(k, e), Link1(k, e), LinkQ(k, e), n)
<1>1. PICK w1, w2, w3, w4, w5 :
        /\ w1 = W(bulk(k), "tail", e) /\ w2 = W(bulk(k), "header", e) /\ w3 = W(mem[bulk(k)].tail, "next", e)
        /\ w4 = W(e, "next", NIL) /\ w5 = W(bulk(k), "size", mem[bulk(k)].size + 1)
  OBVIOUS
<1>2. Lists(<<w4>>, {w4}) /\ Lists(<<w5>>, {w5}) /\ Lists(entry_fields(k, e, kb, v), EntryW(k, e, kb, v))
  BY OneOf, EntryLists
<1>3. CASE mem[bulk(k)].size = 0
  <2>1. Parts(<<w1, w2>>, {w1}, w2, {}, 2)
    BY PartsTwo
  <2>2. Parts(<<w1, w2>> \o <<w4>>, {w1}, w2, {} \cup {w4}, 2)
    BY <1>2, <2>1, PartsBefore
  <2>3. Parts(<<w1, w2>> \o <<w4>> \o <<w5>>, {w1}, w2, {} \cup {w4} \cup {w5}, 2)
    BY <1>2, <2>2, PartsBefore
  <2>4. link_entry(k, e) = <<w1, w2>> \o <<w4>> \o <<w5>>
    BY <1>1, <1>3 DEF link_entry, Count
  <2>5. Parts(entry_fields(k, e, kb, v) \o link_entry(k, e), EntryW(k, e, kb, v) \cup {w1}, w2,
              {} \cup {w4} \cup {w5}, Len(entry_fields(k, e, kb, v)) + 2)
    BY <1>2, <2>3, <2>4, PartsBehind
  <2>6. LinkP(k, e) = {w1} /\ Link1(k, e) = w2 /\ LinkQ(k, e) = {} \cup {w4} \cup {w5}
    BY <1>1, <1>3 DEF LinkP, Link1, LinkQ
  <2> QED
    BY <2>5, <2>6 DEF touchdb_map_put2
<1>4. CASE mem[bulk(k)].size # 0
  <2>1. Parts(<<w3, w1>>, {}, w3, {w1}, 1)
    BY PartsTwo
  <2>2. Parts(<<w3, w1>> \o <<w4>>, {}, w3, {w1} \cup {w4}, 1)
    BY <1>2, <2>1, PartsBefore
  <2>3. Parts(<<w3, w1>> \o <<w4>> \o <<w5>>, {}, w3, {w1} \cup {w4} \cup {w5}, 1)
    BY <1>2, <2>2, PartsBefore
  <2>4. link_entry(k, e) = <<w3, w1>> \o <<w4>> \o <<w5>>
    BY <1>1, <1>4 DEF link_entry, Count
  <2>5. Parts(entry_fields(k, e, kb, v) \o link_entry(k, e), EntryW(k, e, kb, v) \cup {}, w3,
              {w1} \cup {w4} \cup {w5}, Len(entry_fields(k, e, kb, v)) + 1)
    BY <1>2, <2>3, <2>4, PartsBehind
  <2>6. LinkP(k, e) = {} /\ Link1(k, e) = w3 /\ LinkQ(k, e) = {w1} \cup {w4} \cup {w5}
    BY <1>1, <1>4 DEF LinkP, Link1, LinkQ
  <2> QED
    BY <2>5, <2>6 DEF touchdb_map_put2
<1> QED
  BY <1>3, <1>4

(* The writes of a call that enters k, S before and T behind those of the  *)
(* map.                                                                    *)
LEMMA EnterParts ==
  ASSUME NEW k, NEW e, NEW kb, NEW v, NEW S, NEW R, Lists(S, R), NEW T, NEW F, Lists(T, F)
  PROVE  /\ \E n : Parts((S \o touchdb_map_put2(k, e, kb, v)) \o T,
                         R \cup (EntryW(k, e, kb, v) \cup LinkP(k, e)), Link1(k, e), LinkQ(k, e) \cup F, n)
         /\ Lists(S \o touchdb_map_put2(k, e, kb, v),
                  (R \cup (EntryW(k, e, kb, v) \cup LinkP(k, e))) \cup {Link1(k, e)} \cup LinkQ(k, e))
<1>1. PICK n : Parts(touchdb_map_put2(k, e, kb, v), EntryW(k, e, kb, v) \cup LinkP(k, e), Link1(k, e), LinkQ(k, e), n)
  BY MapParts
<1>2. Parts(S \o touchdb_map_put2(k, e, kb, v), R \cup (EntryW(k, e, kb, v) \cup LinkP(k, e)), Link1(k, e),
            LinkQ(k, e), Len(S) + n)
  BY <1>1, PartsBehind
<1>3. Lists(S \o touchdb_map_put2(k, e, kb, v),
            (R \cup (EntryW(k, e, kb, v) \cup LinkP(k, e))) \cup {Link1(k, e)} \cup LinkQ(k, e))
  BY Zenon, <1>2 DEF Parts
<1> QED
  BY <1>2, <1>3, PartsBefore

(* Where a new entry is linked. *)
LinkW(C, k, e) ==
  {<<bulk(k), "tail", e>>, <<bulk(k), "size", Len(C.es[slot(k)]) + 1>>, <<e, "next", NIL>>}
    \cup (IF C.es[slot(k)] = <<>> THEN {<<bulk(k), "header", e>>}
          ELSE {<<C.ent[C.es[slot(k)][Len(C.es[slot(k)])]], "next", e>>})

(* The tail of a bucket that is not empty is its last entry. *)
LEMMA LastIs ==
  ASSUME NEW m, NEW C, Rest(m, C), NEW i \in Slots, C.es[i] # <<>>, NEW l, l = C.es[i][Len(C.es[i])]
  PROVE  /\ C.ent[l] \in Blks /\ C.ent[l][1] = "entry" /\ C.ent[l] \in DOMAIN m
         /\ C.own[C.ent[l]][1] = "entry" /\ C.own[C.ent[l]] # FREE /\ C.ent[l] # NIL /\ l \in Keys
         /\ m[Bulk(i)].tail = C.ent[l]
         /\ IsLast(C.ent, C.es, C.ent[l]) /\ Len(C.es[i]) \in Nat \ {0}
<1>1. BucketLive(m, i, C.ent, C.es[i])
  BY DEF Rest, LiveIn, Live
<1>2. C.es[i] \in Seq(Keys) /\ Len(C.es[i]) \in 1 .. Len(C.es[i]) /\ Len(C.es[i]) \in Nat \ {0}
  BY <1>1 DEF BucketLive
<1>3. l \in Keys /\ C.ent[l] # NIL
  BY <1>1, <1>2 DEF BucketLive
<1>4. EntryLive(m, C.own, C.ent[l], l)
  BY Zenon, <1>3 DEF Rest, LiveIn, Live, KeyLive
<1>5. /\ C.ent[l] \in Blks /\ C.ent[l][1] = "entry" /\ C.ent[l] \in DOMAIN m
      /\ C.own[C.ent[l]][1] = "entry" /\ C.own[C.ent[l]] # FREE
  <2>1. PICK x : x = C.ent[l]
    BY Zenon
  <2>2. Has(m, C.own, x, {"entry"}, <<"entry", l, NIL>>)
    BY Zenon, <1>4, <2>1 DEF EntryLive
  <2>3. x \in Blks /\ x[1] = "entry" /\ x \in DOMAIN m /\ C.own[x][1] = "entry" /\ C.own[x] # FREE
    BY <2>2 DEF Has, FREE
  <2> QED
    BY <2>1, <2>3
<1>6. m[Bulk(i)].tail = C.ent[l]
  BY DEF Rest, EndsOK
<1> QED
  BY <1>2, <1>3, <1>5, <1>6 DEF IsLast

(* The writes that link the entry. *)
LEMMA LinkIs ==
  ASSUME NEW C, Rest(mem, C), NEW k \in Keys, NEW e
  PROVE  /\ LinkP(k, e) \cup {Link1(k, e)} \cup LinkQ(k, e) = LinkW(C, k, e)
         /\ \A w \in LinkP(k, e) : w[2] = "tail"
         /\ Link1(k, e)[2] \in {"next", "header"}
         /\ \A w \in LinkQ(k, e) : w[2] \in {"tail", "size"} \/ w = <<e, "next", NIL>>
<1>1. PICK b, i, s : b = bulk(k) /\ i = slot(k) /\ s = C.es[slot(k)]
  OBVIOUS
<1>2. i \in Slots /\ b = Bulk(i)
  BY <1>1, SlotIs
<1>3. mem[b].size = Len(s)
  BY <1>1, <1>2 DEF Rest, EndsOK
<1>4. s \in Seq(Keys)
  BY <1>1, <1>2 DEF Rest, LiveIn, Live, BucketLive
<1>5. Len(s) = 0 <=> s = <<>>
  BY <1>4
<1>6. CASE s = <<>>
  <2>1. LinkP(k, e) = {<<b, "tail", e>>} /\ Link1(k, e) = <<b, "header", e>>
        /\ LinkQ(k, e) = {<<e, "next", NIL>>, <<b, "size", Len(s) + 1>>}
    BY <1>1, <1>3, <1>5, <1>6 DEF LinkP, Link1, LinkQ, W
  <2>2. LinkW(C, k, e) = {<<b, "tail", e>>, <<b, "size", Len(s) + 1>>, <<e, "next", NIL>>} \cup {<<b, "header", e>>}
    BY <1>1, <1>6 DEF LinkW
  <2>3. LinkP(k, e) \cup {Link1(k, e)} \cup LinkQ(k, e) = LinkW(C, k, e)
    BY ONLY <2>1, <2>2, Zenon
  <2> QED
    BY <2>1, <2>3
<1>7. CASE s # <<>>
  <2>1. PICK x : x = C.ent[s[Len(s)]]
    OBVIOUS
  <2>2. mem[b].tail = x
    BY <1>1, <1>2, <1>7, <2>1 DEF Rest, EndsOK
  <2>3. LinkP(k, e) = {} /\ Link1(k, e) = <<x, "next", e>>
        /\ LinkQ(k, e) = {<<b, "tail", e>>} \cup {<<e, "next", NIL>>, <<b, "size", Len(s) + 1>>}
    BY <1>1, <1>3, <1>5, <1>7, <2>2 DEF LinkP, Link1, LinkQ, W
  <2>4. LinkW(C, k, e) = {<<b, "tail", e>>, <<b, "size", Len(s) + 1>>, <<e, "next", NIL>>} \cup {<<x, "next", e>>}
    BY <1>1, <1>7, <2>1 DEF LinkW
  <2>5. LinkP(k, e) \cup {Link1(k, e)} \cup LinkQ(k, e) = LinkW(C, k, e)
    BY ONLY <2>3, <2>4, Zenon
  <2> QED
    BY <2>3, <2>5
<1> QED
  BY <1>6, <1>7

-----------------------------------------------------------------------------
(* An entry for a new key. *)

(* Blocks for a new entry and its copy of the key. *)
EntryBlocks(m, own, e, kb) ==
  /\ e \in DOMAIN m /\ e \in Blks /\ e[1] = "entry" /\ own[e] = FREE
  /\ kb \in DOMAIN m /\ kb \in Blks /\ kb[1] = "text" /\ own[kb] = FREE

(* What each of them writes. *)
LEMMA LinkCells ==
  ASSUME NEW m, NEW C, Rest(m, C), NEW k \in Keys, NEW e, NEW w \in LinkW(C, k, e)
  PROVE  \/ w[1] = Bulk(slot(k)) /\ w[2] = "tail" /\ w[3] = e
         \/ w[1] = Bulk(slot(k)) /\ w[2] = "size"
         \/ w[1] = e /\ w[2] = "next" /\ w[3] = NIL
         \/ w[1] = Bulk(slot(k)) /\ w[2] = "header" /\ w[3] = e /\ C.es[slot(k)] = <<>>
         \/ /\ C.es[slot(k)] # <<>> /\ w[2] = "next" /\ w[3] = e
            /\ w[1] = C.ent[C.es[slot(k)][Len(C.es[slot(k)])]]
BY SlotIs DEF LinkW

(* The writes of touchdb_map_put2 may be made together. *)
LEMMA EntryWrites ==
  ASSUME NEW m, NEW C, Rest(m, C), NEW k \in Keys, NEW e, NEW kb, EntryBlocks(m, C.own, e, kb), NEW v
  PROVE  /\ Writable(m, EntryW(k, e, kb, v) \cup LinkW(C, k, e))
         /\ \A w \in EntryW(k, e, kb, v) : w[1] \in {e, kb} /\ w[2] \in {"hash", "val", "key", "h1", "h2"}
         /\ \A w \in LinkW(C, k, e) : w[2] \in Links
<1>1. ASSUME NEW w \in EntryW(k, e, kb, v)
      PROVE  \/ w = <<e, "hash", HashOf[k]>> \/ w = <<e, "val", v>> \/ w = <<e, "key", kb>>
             \/ w = <<kb, "h1", k>> \/ w = <<kb, "h2", k>>
  BY DEF EntryW, W
<1>2. e # kb /\ {"hash", "val", "key", "next"} \subseteq Fields(e[1]) /\ {"h1", "h2"} \subseteq Fields(kb[1])
  BY DEF EntryBlocks, Fields
<1>3. ASSUME NEW w \in EntryW(k, e, kb, v)
      PROVE  /\ w[1] = e => (w[2] = "hash" /\ w[3] = HashOf[k]) \/ (w[2] = "val" /\ w[3] = v) \/ (w[2] = "key" /\ w[3] = kb)
             /\ w[1] = kb => w[2] \in {"h1", "h2"} /\ w[3] = k
             /\ w[1] \in {e, kb} /\ w[2] \in {"hash", "val", "key", "h1", "h2"}
  BY <1>1, <1>2
<1>4. Writable(m, EntryW(k, e, kb, v))
  <2>1. \A w \in EntryW(k, e, kb, v) : w[1] \in DOMAIN m /\ w[2] \in Fields(w[1][1])
    BY <1>2, <1>3 DEF EntryBlocks
  <2>2. ASSUME NEW w \in EntryW(k, e, kb, v), NEW x \in EntryW(k, e, kb, v), w[1] = x[1], w[2] = x[2]
        PROVE  w[3] = x[3]
    BY <1>3, <2>2
  <2> QED
    BY <1>3, <2>1, <2>2 DEF Writable
<1>5. PICK b, s : b = Bulk(slot(k)) /\ s = C.es[slot(k)]
  OBVIOUS
<1>6. b \in DOMAIN m /\ b \notin Blks /\ {"tail", "size", "header"} \subseteq Fields(b[1])
  BY <1>5, SlotIs, Apart DEF Rest, Shaped, Bulks, Bulk, Fields
<1>7. PICK x : x = C.ent[s[Len(s)]]
  OBVIOUS
<1>8. s # <<>> => x \in DOMAIN m /\ x \in Blks /\ x[1] = "entry" /\ x # e /\ x # kb
  <2>1. SUFFICES ASSUME s # <<>> PROVE x \in DOMAIN m /\ x \in Blks /\ x[1] = "entry" /\ x # e /\ x # kb
    OBVIOUS
  <2>2. PICK l : l = s[Len(s)]
    OBVIOUS
  <2>3. x \in DOMAIN m /\ x \in Blks /\ x[1] = "entry" /\ C.own[x] # FREE
    <3>1. PICK i : i = slot(k)
      OBVIOUS
    <3>2. i \in Slots /\ C.es[i] # <<>> /\ l = C.es[i][Len(C.es[i])] /\ x = C.ent[l]
      BY <1>5, <1>7, <2>1, <2>2, <3>1, SlotIs
    <3>3. C.ent[l] \in Blks /\ C.ent[l][1] = "entry" /\ C.ent[l] \in DOMAIN m /\ C.own[C.ent[l]] # FREE
      BY <3>2, LastIs
    <3> QED
      BY <3>2, <3>3
  <2> QED
    BY <2>3 DEF EntryBlocks, FREE
<1>9. e \in Addr /\ NIL \in Addr
  BY Apart DEF EntryBlocks
<1>10. ASSUME NEW w \in LinkW(C, k, e)
       PROVE  \/ w[1] = b /\ w = <<b, "tail", e>>
              \/ w[1] = b /\ w = <<b, "size", Len(s) + 1>>
              \/ w[1] = e /\ w = <<e, "next", NIL>>
              \/ w[1] = b /\ w = <<b, "header", e>>
              \/ s # <<>> /\ w[1] = x /\ w = <<x, "next", e>>
  BY <1>5, <1>7, SlotIs DEF LinkW
<1>11. e # b /\ (e # x \/ s = <<>>)
  BY <1>6, <1>8 DEF EntryBlocks
<1>12. ASSUME NEW w \in LinkW(C, k, e)
       PROVE  /\ w[1] \in DOMAIN m /\ w[2] \in Fields(w[1][1]) /\ w[2] \in Links
              /\ w[2] \in {"next", "header"} => w[3] \in Addr
              /\ w[1] # kb /\ (w[1] = e => w[2] = "next")
  BY <1>2, <1>6, <1>8, <1>9, <1>10 DEF EntryBlocks, Links
<1>13. e # b
  BY <1>6 DEF EntryBlocks
<1>14. ASSUME NEW w \in LinkW(C, k, e), NEW y \in LinkW(C, k, e), w[1] = y[1], w[2] = y[2]
       PROVE  w[3] = y[3]
  <2>1. CASE w[1] = b
    <3>1. w \in {<<b, "tail", e>>, <<b, "size", Len(s) + 1>>, <<b, "header", e>>}
          /\ y \in {<<b, "tail", e>>, <<b, "size", Len(s) + 1>>, <<b, "header", e>>}
      BY <1>6, <1>8, <1>10, <1>13, <1>14, <2>1
    <3> QED
      BY <1>14, <3>1
  <2>2. CASE w[1] = e
    BY <1>8, <1>10, <1>13, <1>14, <2>2
  <2>3. CASE w[1] # b /\ w[1] # e
    BY <1>10, <1>14, <2>3
  <2> QED
    BY <2>1, <2>2, <2>3
<1>15. Writable(m, LinkW(C, k, e))
  BY <1>12, <1>14 DEF Writable
<1>16. \A w \in EntryW(k, e, kb, v), y \in LinkW(C, k, e) : w[1] = y[1] /\ w[2] = y[2] => w[2] = "free"
  BY <1>2, <1>3, <1>12
<1> QED
  BY <1>3, <1>4, <1>12, <1>15, <1>16, WritableCat

EntryOwned(own, e, kb, k) == own[e] = <<"entry", k, NIL>> /\ own[kb] = <<"key", k, NIL>>

(* They make an entry with its copy of the key and its value. *)
LEMMA EntryMade ==
  ASSUME NEW m, NEW R, NEW fin, Made(m, R, fin), NEW k, NEW e, NEW kb, NEW v, NEW own2,
         EntryW(k, e, kb, v) \subseteq R, e \in DOMAIN m, e \in Blks, e[1] = "entry", kb \in DOMAIN m, kb \in Blks,
         kb[1] = "text", EntryOwned(own2, e, kb, k)
  PROVE  EntryLive(fin, own2, e, k) /\ fin[e].val = v
<1>1. PICK w1, w2, w3, w4, w5 : /\ w1 = <<e, "hash", HashOf[k]>> /\ w2 = <<e, "val", v>> /\ w3 = <<e, "key", kb>>
                                /\ w4 = <<kb, "h1", k>> /\ w5 = <<kb, "h2", k>>
  OBVIOUS
<1>2. w1 \in R /\ w2 \in R /\ w3 \in R /\ w4 \in R /\ w5 \in R
  BY <1>1 DEF EntryW, W
<1>3. fin[e].hash = HashOf[k] /\ fin[e].val = v /\ fin[e].key = kb /\ fin[kb].h1 = k /\ fin[kb].h2 = k
  BY <1>1, <1>2 DEF Made
<1> QED
  BY <1>3 DEF EntryLive, Has, Made, EntryOwned

(* What else a call that enters k writes, is in blocks of nobody. *)
Enters(R, C, k, e) ==
  /\ LinkW(C, k, e) \subseteq R
  /\ \A w \in R : \/ w[2] = "free"
                  \/ w[1] \in Blks /\ C.own[w[1]] = FREE /\ (w[2] = "next" => w[3] \in Ends)
                  \/ w \in LinkW(C, k, e)

(* k has the entry e, and is at the end of its bucket. *)
Added(ent, ent2, k, e) == \A j \in Keys : ent2[j] = IF j = k THEN e ELSE ent[j]

Longer(s, s2, k) == s2 = Append(s, k)

(* An entry of a bucket. *)
LEMMA EntryAt ==
  ASSUME NEW m, NEW T, Rest(m, T), NEW i \in Slots, NEW j \in 1 .. Len(T.es[i]), NEW a, a = T.es[i][j]
  PROVE  /\ a \in Keys /\ slot(a) = i /\ T.ent[a] # NIL
         /\ T.ent[a] \in Blks /\ T.ent[a][1] = "entry" /\ T.ent[a] \in DOMAIN m /\ T.own[T.ent[a]] # FREE
<1>1. BucketLive(m, i, T.ent, T.es[i])
  BY DEF Rest, LiveIn, Live
<1>2. a \in Keys /\ slot(a) = i /\ T.ent[a] # NIL
  BY <1>1 DEF BucketLive
<1>3. EntryLive(m, T.own, T.ent[a], a)
  BY <1>2 DEF Rest, LiveIn, Live, KeyLive
<1>4. PICK x : x = T.ent[a]
  BY Zenon
<1>5. Has(m, T.own, x, {"entry"}, <<"entry", a, NIL>>)
  BY Zenon, <1>3, <1>4 DEF EntryLive
<1>6. x \in Blks /\ x[1] = "entry" /\ x \in DOMAIN m /\ T.own[x] # FREE
  BY <1>5 DEF Has, FREE
<1> QED
  BY <1>2, <1>4, <1>6

(* What changes outside the blocks of nobody. *)
LEMMA EnterCells ==
  ASSUME NEW m, NEW C, Rest(m, C), NEW k \in Keys, NEW e \in Blks, C.own[e] = FREE, NEW R, Enters(R, C, k, e),
         NEW fin, Made(m, R, fin), NEW b \in DOMAIN m, NEW f \in Fields(b[1]), fin[b][f] # m[b][f]
  PROVE  \/ b \in Blks /\ C.own[b] = FREE
         \/ b = Bulk(slot(k)) /\ (f \in {"tail", "size"} \/ C.es[slot(k)] = <<>>)
         \/ C.es[slot(k)] # <<>> /\ b = C.ent[C.es[slot(k)][Len(C.es[slot(k)])]]
<1>1. PICK w \in R : w[1] = b /\ w[2] = f
  BY DEF Made
<1>2. f # "free"
  BY NoFree DEF Rest
<1>3. CASE w \in LinkW(C, k, e)
  BY <1>1, <1>3, LinkCells
<1> QED
  BY <1>1, <1>2, <1>3 DEF Enters

(* They put the entry at the end of its bucket. *)
LEMMA EnterLinks ==
  ASSUME NEW m, NEW C, Rest(m, C), NEW k \in Keys, NEW e \in Blks, e \in DOMAIN m, C.own[e] = FREE, NEW R,
         Enters(R, C, k, e), NEW fin, Made(m, R, fin), NEW s, s = C.es[slot(k)], NEW B, B = Bulk(slot(k))
  PROVE  /\ fin[B].tail = e /\ fin[B].size = Len(s) + 1 /\ fin[e].next = NIL
         /\ s = <<>> => fin[B].header = e
         /\ s # <<>> => fin[C.ent[s[Len(s)]]].next = e /\ fin[B].header = m[B].header
<1>1. B = bulk(k) /\ slot(k) \in Slots
  BY SlotIs
<1>2. PICK w1, w2, w3, w4, w5 : /\ w1 = <<B, "tail", e>> /\ w2 = <<B, "size", Len(s) + 1>> /\ w3 = <<e, "next", NIL>>
                                /\ w4 = <<B, "header", e>> /\ w5 = <<C.ent[s[Len(s)]], "next", e>>
  OBVIOUS
<1>3. w1 \in R /\ w2 \in R /\ w3 \in R /\ (s = <<>> => w4 \in R) /\ (s # <<>> => w5 \in R)
  BY <1>1, <1>2 DEF Enters, LinkW
<1>4. \A w \in R : w[2] # "free" => fin[w[1]][w[2]] = w[3]
  BY DEF Made
<1>5. fin[B].tail = e /\ fin[B].size = Len(s) + 1 /\ fin[e].next = NIL
  BY <1>2, <1>3, <1>4
<1>6. s = <<>> => fin[B].header = e
  BY <1>2, <1>3, <1>4
<1>7. s # <<>> => fin[C.ent[s[Len(s)]]].next = e
  BY <1>2, <1>3, <1>4
<1>8. ASSUME s # <<>> PROVE fin[B].header = m[B].header
  <2>1. B \in DOMAIN m /\ B \notin Blks /\ "header" \in Fields(B[1])
    BY <1>1, Apart DEF Rest, Shaped, Bulks, Bulk, Fields
  <2>2. C.ent[s[Len(s)]] \in Blks
    BY <1>1, <1>8, LastIs
  <2> QED
    BY <1>8, <2>1, <2>2, EnterCells
<1> QED
  BY <1>5, <1>6, <1>7, <1>8

(* The other buckets stay, *)
LEMMA EnterOther ==
  ASSUME NEW m, NEW C, Rest(m, C), NEW k \in Keys, C.ent[k] = NIL, NEW e \in Blks, e \in DOMAIN m, C.own[e] = FREE,
         NEW R, Enters(R, C, k, e), NEW fin, Made(m, R, fin), NEW ent2,
         Added(C.ent, ent2, k, e), NEW i \in Slots, i # slot(k)
  PROVE  /\ BucketLive(fin, i, ent2, C.es[i]) /\ fin[Bulk(i)].size = Len(C.es[i])
         /\ C.es[i] # <<>> => fin[Bulk(i)].tail = ent2[C.es[i][Len(C.es[i])]]
<1>1. PICK s, B, K : s = C.es[i] /\ B = Bulk(i) /\ K = slot(k)
  OBVIOUS
<1>2. BucketLive(m, i, C.ent, s) /\ K \in Slots
  BY <1>1, SlotIs DEF Rest, LiveIn, Live
<1>3. s \in Seq(Keys) /\ Len(s) \in Nat
  BY <1>2 DEF BucketLive
<1>4. ASSUME NEW j \in 1 .. Len(s)
      PROVE  /\ s[j] \in Keys /\ slot(s[j]) = i /\ s[j] # k /\ C.ent[s[j]] # NIL /\ ent2[s[j]] = C.ent[s[j]]
             /\ C.ent[s[j]] \in Blks /\ C.ent[s[j]][1] = "entry" /\ C.ent[s[j]] \in DOMAIN m
             /\ C.own[C.ent[s[j]]] # FREE
  <2>1. PICK a : a = s[j]
    OBVIOUS
  <2>2. /\ a \in Keys /\ slot(a) = i /\ C.ent[a] # NIL
        /\ C.ent[a] \in Blks /\ C.ent[a][1] = "entry" /\ C.ent[a] \in DOMAIN m /\ C.own[C.ent[a]] # FREE
    BY <1>1, <2>1, EntryAt
  <2>3. a # k
    BY <2>2
  <2> QED
    BY <2>1, <2>2, <2>3 DEF Added
<1>5. B \in DOMAIN m /\ B \notin Blks /\ {"header", "tail", "size"} \subseteq Fields(B[1]) /\ B # Bulk(K)
  BY <1>1, Apart DEF Rest, Shaped, Bulks, Bulk, Fields
<1>6. C.es[K] # <<>> => C.ent[C.es[K][Len(C.es[K])]] \in Blks /\ Len(C.es[K]) \in 1 .. Len(C.es[K])
  BY <1>2, LastIs
<1>7. fin[B].header = m[B].header /\ fin[B].tail = m[B].tail /\ fin[B].size = m[B].size
  BY <1>1, <1>5, <1>6, EnterCells
<1>8. ASSUME NEW j \in 1 .. Len(s) PROVE fin[C.ent[s[j]]].next = m[C.ent[s[j]]].next
  <2>1. PICK x : x = C.ent[s[j]]
    OBVIOUS
  <2>2. x \in Blks /\ x \in DOMAIN m /\ "next" \in Fields(x[1]) /\ C.own[x] # FREE /\ x # Bulk(K)
    BY <1>2, <1>4, <2>1, Apart DEF Fields, Bulks
  <2>3. C.es[K] # <<>> => x # C.ent[C.es[K][Len(C.es[K])]]
    <3>1. SUFFICES ASSUME C.es[K] # <<>>, x = C.ent[C.es[K][Len(C.es[K])]] PROVE FALSE
      OBVIOUS
    <3>2. PICK l : l = Len(C.es[K])
      OBVIOUS
    <3>3. l \in 1 .. Len(C.es[K]) /\ C.ent[C.es[i][j]] = C.ent[C.es[K][l]] /\ j \in 1 .. Len(C.es[i])
      BY <1>1, <1>6, <2>1, <3>1, <3>2
    <3>4. Live(m, C.own, C.ent, C.es, C.ns, C.kv)
      BY DEF Rest, LiveIn
    <3>5. i = K
      BY ONLY <1>2, <3>3, <3>4, i \in Slots, OnePlace
    <3> QED
      BY <1>1, <3>5
  <2> QED
    BY <1>1, <2>1, <2>2, <2>3, EnterCells
<1>9. BucketLive(fin, i, ent2, s)
  <2>1. fin[B].header = IF s = <<>> THEN NIL ELSE ent2[s[1]]
    <3>1. m[B].header = IF s = <<>> THEN NIL ELSE C.ent[s[1]]
      BY <1>1, <1>2 DEF BucketLive
    <3>2. s # <<>> => 1 \in 1 .. Len(s)
      BY <1>3
    <3> QED
      BY <1>4, <1>7, <3>1, <3>2
  <2>2. ASSUME NEW j \in 1 .. Len(s)
        PROVE  IF j < Len(s) THEN fin[ent2[s[j]]].next = ent2[s[j + 1]] ELSE fin[ent2[s[j]]].next \in Ends
    <3>1. IF j < Len(s) THEN m[C.ent[s[j]]].next = C.ent[s[j + 1]] ELSE m[C.ent[s[j]]].next \in Ends
      BY <1>2 DEF BucketLive
    <3>2. j < Len(s) => j + 1 \in 1 .. Len(s)
      BY <1>3
    <3> QED
      BY <1>4, <1>8, <3>1, <3>2
  <2>3. \A j \in 1 .. Len(s) : ent2[s[j]] # NIL /\ slot(s[j]) = i
    BY <1>4
  <2>4. s \in Seq(Keys) /\ \A j, l \in 1 .. Len(s) : s[j] = s[l] => j = l
    BY <1>2 DEF BucketLive
  <2>5. fin[Bulk(i)].header = IF s = <<>> THEN NIL ELSE ent2[s[1]]
    BY <1>1, <2>1
  <2> QED
    BY ONLY <2>2, <2>3, <2>4, <2>5 DEF BucketLive
<1>10. m[B].size = Len(s) /\ (s # <<>> => m[B].tail = C.ent[s[Len(s)]])
  BY <1>1 DEF Rest, EndsOK
<1>11. s # <<>> => Len(s) \in 1 .. Len(s)
  BY <1>3
<1> QED
  BY <1>1, <1>4, <1>7, <1>9, <1>10, <1>11

(* and that of k has the new entry at its end. *)
LEMMA EnterOwn ==
  ASSUME NEW m, NEW C, Rest(m, C), NEW k \in Keys, C.ent[k] = NIL, NEW e \in Blks, e \in DOMAIN m, C.own[e] = FREE,
         NEW R, Enters(R, C, k, e), NEW fin, Made(m, R, fin), NEW ent2,
         Added(C.ent, ent2, k, e), NEW s2, Longer(C.es[slot(k)], s2, k)
  PROVE  /\ BucketLive(fin, slot(k), ent2, s2) /\ fin[Bulk(slot(k))].size = Len(s2)
         /\ s2 # <<>> /\ s2[Len(s2)] = k /\ fin[Bulk(slot(k))].tail = e /\ ent2[k] = e
<1>1. PICK s, B, K : s = C.es[slot(k)] /\ B = Bulk(slot(k)) /\ K = slot(k)
  OBVIOUS
<1>2. BucketLive(m, K, C.ent, s) /\ K \in Slots
  BY <1>1, SlotIs DEF Rest, LiveIn, Live
<1>3. s \in Seq(Keys) /\ Len(s) \in Nat
  BY <1>2 DEF BucketLive
<1>4. /\ s2 \in Seq(Keys) /\ Len(s2) = Len(s) + 1 /\ s2[Len(s) + 1] = k /\ \A j \in 1 .. Len(s) : s2[j] = s[j]
      /\ s2 # <<>>
  BY <1>1, <1>3 DEF Longer
<1>5. /\ fin[B].tail = e /\ fin[B].size = Len(s) + 1 /\ fin[e].next = NIL
      /\ s = <<>> => fin[B].header = e
      /\ s # <<>> => fin[C.ent[s[Len(s)]]].next = e /\ fin[B].header = m[B].header
  BY ONLY <1>1, Rest(m, C), k \in Keys, e \in Blks, e \in DOMAIN m, C.own[e] = FREE, Enters(R, C, k, e),
          Made(m, R, fin), EnterLinks
<1>6. ASSUME NEW j \in 1 .. Len(s)
      PROVE  /\ s[j] \in Keys /\ slot(s[j]) = K /\ s[j] # k /\ C.ent[s[j]] # NIL /\ ent2[s[j]] = C.ent[s[j]]
             /\ C.ent[s[j]] \in Blks /\ C.ent[s[j]][1] = "entry" /\ C.ent[s[j]] \in DOMAIN m
             /\ C.own[C.ent[s[j]]] # FREE
  <2>1. PICK a : a = s[j]
    OBVIOUS
  <2>2. /\ a \in Keys /\ slot(a) = K /\ C.ent[a] # NIL
        /\ C.ent[a] \in Blks /\ C.ent[a][1] = "entry" /\ C.ent[a] \in DOMAIN m /\ C.own[C.ent[a]] # FREE
    BY <1>1, <1>2, <2>1, EntryAt
  <2> QED
    BY <2>1, <2>2 DEF Added
<1>7. ASSUME NEW j \in 1 .. Len(s), j # Len(s) PROVE fin[C.ent[s[j]]].next = m[C.ent[s[j]]].next
  <2>1. PICK x, l : x = C.ent[s[j]] /\ l = Len(s)
    OBVIOUS
  <2>2. x \in Blks /\ x \in DOMAIN m /\ "next" \in Fields(x[1]) /\ C.own[x] # FREE /\ x # B
    BY Zenon, <1>1, <1>2, <1>6, <2>1, Apart DEF Fields, Bulks
  <2>3. x # C.ent[s[l]]
    <3>1. SUFFICES ASSUME x = C.ent[s[l]] PROVE FALSE
      OBVIOUS
    <3>2. l \in 1 .. Len(C.es[K]) /\ C.ent[C.es[K][j]] = C.ent[C.es[K][l]] /\ j \in 1 .. Len(C.es[K])
      BY <1>1, <1>3, <2>1, <3>1
    <3>4. Live(m, C.own, C.ent, C.es, C.ns, C.kv)
      BY DEF Rest, LiveIn
    <3>5. j = l
      BY ONLY <1>2, <3>2, <3>4, OnePlace
    <3> QED
      BY <1>7, <2>1, <3>5
  <2> QED
    BY <1>1, <2>1, <2>2, <2>3, EnterCells
<1>8. ent2[k] = e /\ e # NIL
  BY Apart DEF Added
<1>9. fin[B].header = ent2[s2[1]]
  <2>1. CASE s = <<>>
    BY <1>4, <1>5, <1>8, <2>1
  <2>2. CASE s # <<>>
    <3>1. m[B].header = C.ent[s[1]]
      BY <1>1, <1>2, <2>2 DEF BucketLive
    <3>2. 1 \in 1 .. Len(s)
      BY <1>3, <2>2
    <3> QED
      BY <1>4, <1>5, <1>6, <2>2, <3>1, <3>2
  <2> QED
    BY <2>1, <2>2
<1>10. ASSUME NEW j \in 1 .. Len(s2)
       PROVE  /\ ent2[s2[j]] # NIL /\ slot(s2[j]) = K
              /\ IF j < Len(s2) THEN fin[ent2[s2[j]]].next = ent2[s2[j + 1]] ELSE fin[ent2[s2[j]]].next \in Ends
  <2>1. CASE j = Len(s) + 1
    <3>1. s2[j] = k /\ ~(j < Len(s2))
      BY <1>3, <1>4, <2>1
    <3> QED
      BY <1>1, <1>5, <1>8, <3>1 DEF Ends
  <2>2. CASE j = Len(s) /\ j # 0
    <3>1. j \in 1 .. Len(s) /\ s2[j] = s[j] /\ s2[j + 1] = k /\ j < Len(s2) /\ s # <<>>
      BY <1>3, <1>4, <2>2
    <3>2. fin[C.ent[s[j]]].next = e
      BY <1>5, <2>2, <3>1
    <3> QED
      BY <1>6, <1>8, <3>1, <3>2
  <2>3. CASE j < Len(s)
    <3>1. j \in 1 .. Len(s) /\ s2[j] = s[j] /\ s2[j + 1] = s[j + 1] /\ j < Len(s2) /\ j # Len(s) /\ j + 1 \in 1 .. Len(s)
      BY <1>3, <1>4, <2>3
    <3>2. m[C.ent[s[j]]].next = C.ent[s[j + 1]]
      BY <1>2, <2>3, <3>1 DEF BucketLive
    <3> QED
      BY <1>6, <1>7, <3>1, <3>2
  <2>4. j = Len(s) + 1 \/ (j = Len(s) /\ j # 0) \/ j < Len(s)
    <3>1. PICK l : l = Len(s)
      OBVIOUS
    <3>2. l \in Nat /\ j \in 1 .. l + 1
      BY <1>3, <1>4, <3>1
    <3> QED
      BY <3>1, <3>2
  <2> QED
    BY <2>1, <2>2, <2>3, <2>4
<1>11. ASSUME NEW i \in 1 .. Len(s2), NEW j \in 1 .. Len(s2), s2[i] = s2[j] PROVE i = j
  <2>1. CASE i \in 1 .. Len(s) /\ j \in 1 .. Len(s)
    BY <1>2, <1>4, <1>11, <2>1 DEF BucketLive
  <2>2. CASE ~(i \in 1 .. Len(s) /\ j \in 1 .. Len(s))
    BY <1>3, <1>4, <1>6, <1>11, <2>2
  <2> QED
    BY <2>1, <2>2
<1>12. BucketLive(fin, K, ent2, s2)
  BY <1>1, <1>4, <1>9, <1>10, <1>11 DEF BucketLive
<1> QED
  BY <1>1, <1>4, <1>5, <1>8, <1>12

(* Writes to blocks of nobody, e and kb apart, and frees. *)
Private(R, own, e, kb) ==
  \A w \in R : /\ w[1] \in Blks /\ own[w[1]] = FREE /\ w[1] # e /\ w[1] # kb /\ w[2] # "free"
               /\ w[2] = "next" => w[3] \in Ends

AreFrees(F, m) == \A w \in F : w[1] \in DOMAIN m /\ w[2] = "free"

EnterW(R, C, k, e, kb, v, F) == (R \cup (EntryW(k, e, kb, v) \cup LinkW(C, k, e))) \cup F

(* What a call that enters k writes: R in blocks of its own, the entry, the *)
(* links, and frees.                                                       *)
LEMMA EnterWrites ==
  ASSUME NEW m, NEW C, Rest(m, C), NEW k \in Keys, NEW e, NEW kb, EntryBlocks(m, C.own, e, kb), NEW v,
         NEW R0, Writable(m, R0), NEW F,
         Private(R0, C.own, e, kb), AreFrees(F, m), NEW R, R = EnterW(R0, C, k, e, kb, v, F)
  PROVE  Writable(m, R) /\ Harmless(R, C.own, k) /\ Enters(R, C, k, e)
<1>1. PICK E, L : E = EntryW(k, e, kb, v) /\ L = LinkW(C, k, e)
  OBVIOUS
<1>. R = (R0 \cup (E \cup L)) \cup F
  BY <1>1 DEF EnterW
<1> USE DEF Private, AreFrees
<1>2. /\ Writable(m, E \cup L)
      /\ \A w \in E : w[1] \in {e, kb} /\ w[2] \in {"hash", "val", "key", "h1", "h2"}
      /\ \A w \in L : w[2] \in Links
  BY <1>1, EntryWrites
<1>3. e \in Blks /\ kb \in Blks /\ C.own[e] = FREE /\ C.own[kb] = FREE
  BY DEF EntryBlocks
<1>4. ASSUME NEW w \in L
      PROVE  \/ w[1] \in Bulks
             \/ w[1] = e /\ w[2] = "next" /\ w[3] = NIL
             \/ w[2] = "next" /\ w[1] \in Blks /\ C.own[w[1]] # FREE /\ w[1][1] = "entry"
  <2>1. CASE /\ C.es[slot(k)] # <<>> /\ w[2] = "next" /\ w[3] = e
             /\ w[1] = C.ent[C.es[slot(k)][Len(C.es[slot(k)])]]
    BY <2>1, LastIs, SlotIs
  <2>2. Bulk(slot(k)) \in Bulks
    BY SlotIs DEF Bulks
  <2> QED
    BY <1>1, <2>1, <2>2, LinkCells
<1>5. \A v1 \in R0, w1 \in E \cup L : v1[1] = w1[1] /\ v1[2] = w1[2] => v1[2] = "free"
  BY <1>2, <1>4, Apart
<1>6. Writable(m, R0 \cup (E \cup L))
  BY <1>2, <1>5, WritableCat
<1>7. Writable(m, F)
  BY DEF Writable
<1>8. \A v1 \in R0 \cup (E \cup L), w1 \in F : v1[1] = w1[1] /\ v1[2] = w1[2] => v1[2] = "free"
  OBVIOUS
<1>9. Writable(m, R)
  BY <1>1, <1>6, <1>7, <1>8, WritableCat
<1>10. Harmless(R, C.own, k)
  <2> SUFFICES ASSUME NEW w \in R
      PROVE  \/ w[2] = "free"
             \/ w[1] \in Blks /\ C.own[w[1]] = FREE
             \/ w[2] \in Links /\ w[1] \in Bulks
             \/ w[2] = "next" /\ w[1] \in Blks /\ w[1][1] = "entry"
    BY DEF Harmless
  <2>1. CASE w \in L
    BY <1>2, <1>3, <1>4, <2>1
  <2>2. CASE w \in E
    BY <1>2, <1>3, <2>2
  <2> QED
    BY <1>1, <2>1, <2>2
<1>11. Enters(R, C, k, e)
  <2>1. ASSUME NEW w \in R
        PROVE  \/ w[2] = "free"
               \/ w[1] \in Blks /\ C.own[w[1]] = FREE /\ (w[2] = "next" => w[3] \in Ends)
               \/ w \in L
    BY <1>1, <1>2, <1>3
  <2> QED
    BY <1>1, <2>1 DEF Enters
<1> QED
  BY <1>9, <1>10, <1>11

(* No other entry has a link in the block of a text. *)
LEMMA EnterLoose ==
  ASSUME NEW m, NEW C, Rest(m, C), NEW k \in Keys, NEW e, NEW R, Enters(R, C, k, e), NEW fin, Made(m, R, fin)
  PROVE  Loose(fin, C.own)
<1> SUFFICES ASSUME NEW b \in DOMAIN fin, b \in Blks, b[1] = "entry", C.own[b][1] # "entry"
             PROVE  fin[b].next \in Ends
  BY DEF Loose
<1>1. b \in DOMAIN m /\ "next" \in Fields(b[1])
  BY DEF Made, Fields
<1>2. CASE fin[b].next = m[b].next
  BY <1>1, <1>2 DEF Rest, Loose
<1>3. CASE fin[b].next # m[b].next
  <2>1. PICK w \in R : w[1] = b /\ w[2] = "next"
    BY <1>1, <1>3 DEF Made
  <2>2. fin[b].next = w[3]
    BY <2>1 DEF Made
  <2>3. CASE w \in LinkW(C, k, e)
    <3>1. b \notin Bulks /\ NIL \in Ends
      BY Apart DEF Ends
    <3>2. Bulk(slot(k)) \in Bulks
      BY SlotIs DEF Bulks
    <3>3. C.es[slot(k)] # <<>> => C.own[C.ent[C.es[slot(k)][Len(C.es[slot(k)])]]][1] = "entry"
      BY SlotIs, LastIs
    <3> QED
      BY <2>1, <2>2, <2>3, <3>1, <3>2, <3>3, LinkCells
  <2> QED
    BY <2>1, <2>2, <2>3 DEF Enters
<1> QED
  BY <1>2, <1>3

(* The tables when k has the entry e, the nodes s2 and the value v2. *)
Entered(C, k, e, own2, s2, v2) ==
  [own |-> own2,
   ent |-> [j \in Keys |-> IF j = k THEN e ELSE C.ent[j]],
   es  |-> [i \in Slots |-> IF i = slot(k) THEN Append(C.es[i], k) ELSE C.es[i]],
   ns  |-> [j \in Keys |-> IF j = k THEN s2 ELSE C.ns[j]],
   kv  |-> [C.kv EXCEPT ![k] = v2]]

EntersAs(N, C, k, e, own2, s2, v2) ==
  /\ N.own = own2 /\ N.ns[k] = s2 /\ N.kv[k] = v2 /\ N.kv = [j \in Keys |-> N.kv[j]]
  /\ Added(C.ent, N.ent, k, e)
  /\ \A j \in Keys \ {k} : N.ns[j] = C.ns[j] /\ N.kv[j] = C.kv[j]
  /\ \A i \in Slots \ {slot(k)} : N.es[i] = C.es[i]
  /\ Longer(C.es[slot(k)], N.es[slot(k)], k)

(* The tables after the call are those. *)
LEMMA EnteredIs ==
  ASSUME NEW m, NEW C, Rest(m, C), NEW k \in Keys, NEW e, NEW own2, NEW s2, NEW v2
  PROVE  EntersAs(Entered(C, k, e, own2, s2, v2), C, k, e, own2, s2, v2)
<1>1. PICK N : N = Entered(C, k, e, own2, s2, v2)
  OBVIOUS
<1>2. C.kv = [j \in Keys |-> C.kv[j]]
  BY DEF Rest, LiveIn, Live
<1>3. DOMAIN C.kv = Keys
  BY <1>2
<1>4. N.kv = [C.kv EXCEPT ![k] = v2]
  BY <1>1 DEF Entered
<1>5. N.kv = [j \in Keys |-> N.kv[j]] /\ N.kv[k] = v2 /\ \A j \in Keys \ {k} : N.kv[j] = C.kv[j]
  BY <1>3, <1>4
<1>6. EntersAs(N, C, k, e, own2, s2, v2)
  BY <1>1, <1>5, SlotIs DEF Entered, EntersAs, Added, Longer
<1> QED
  BY <1>1, <1>6

(* What clients read after all writes of a call that enters a key. *)
LEMMA EnterLive ==
  ASSUME NEW m, NEW C, Rest(m, C), NEW k \in Keys, C.ent[k] = NIL, NEW e \in Blks, e \in DOMAIN m, C.own[e] = FREE,
         NEW R, Enters(R, C, k, e), Harmless(R, C.own, k), NEW fin, Made(m, R, fin),
         NEW own2, \A b \in Blks : C.own[b] # FREE => own2[b] = C.own[b],
         NEW s2, NEW v2, EntryLive(fin, own2, e, k), ValueLive(fin, own2, e, s2, k, v2),
         k \in ListKeys => Counts(fin, e, s2), NEW N, EntersAs(N, C, k, e, own2, s2, v2)
  PROVE  LiveIn(fin, N) /\ EndsOK(fin, N) /\ IsLast(N.ent, N.es, e)
<1>1. /\ N.own = own2 /\ N.ent[k] = e /\ N.ns[k] = s2 /\ N.kv[k] = v2
      /\ Added(C.ent, N.ent, k, e)
      /\ \A j \in Keys \ {k} : N.ent[j] = C.ent[j] /\ N.ns[j] = C.ns[j] /\ N.kv[j] = C.kv[j]
      /\ \A i \in Slots \ {slot(k)} : N.es[i] = C.es[i]
      /\ Longer(C.es[slot(k)], N.es[slot(k)], k)
      /\ N.kv = [j \in Keys |-> N.kv[j]]
  BY DEF EntersAs, Added
<1>2. PICK K : K = slot(k)
  OBVIOUS
<1>3. K \in Slots
  BY <1>2, SlotIs
<1>4. ASSUME NEW i \in Slots
      PROVE  /\ BucketLive(fin, i, N.ent, N.es[i]) /\ fin[Bulk(i)].size = Len(N.es[i])
             /\ N.es[i] # <<>> => fin[Bulk(i)].tail = N.ent[N.es[i][Len(N.es[i])]]
  <2>1. CASE i = K
    <3>1. Longer(C.es[slot(k)], N.es[i], k)
      BY <1>1, <1>2, <2>1
    <3>2. /\ BucketLive(fin, slot(k), N.ent, N.es[i]) /\ fin[Bulk(slot(k))].size = Len(N.es[i])
          /\ N.es[i] # <<>> /\ N.es[i][Len(N.es[i])] = k /\ fin[Bulk(slot(k))].tail = e /\ N.ent[k] = e
      BY ONLY <1>1, <3>1, Rest(m, C), k \in Keys, C.ent[k] = NIL, e \in Blks, e \in DOMAIN m, C.own[e] = FREE,
              Enters(R, C, k, e), Made(m, R, fin), EnterOwn
    <3> QED
      BY <1>2, <2>1, <3>2
  <2>2. CASE i # K
    <3>1. N.es[i] = C.es[i] /\ i # slot(k)
      BY <1>1, <1>2, <2>2
    <3>2. /\ BucketLive(fin, i, N.ent, C.es[i]) /\ fin[Bulk(i)].size = Len(C.es[i])
          /\ C.es[i] # <<>> => fin[Bulk(i)].tail = N.ent[C.es[i][Len(C.es[i])]]
      BY ONLY <1>1, <3>1, Rest(m, C), k \in Keys, C.ent[k] = NIL, e \in Blks, e \in DOMAIN m, C.own[e] = FREE,
              Enters(R, C, k, e), Made(m, R, fin), i \in Slots, EnterOther
    <3> QED
      BY <3>1, <3>2
  <2> QED
    BY <2>1, <2>2
<1>5. C.es[K] \in Seq(Keys) /\ Len(C.es[K]) \in Nat
  BY <1>3 DEF Rest, LiveIn, Live, BucketLive
<1>6. /\ N.es[K] = Append(C.es[K], k) /\ Len(N.es[K]) = Len(C.es[K]) + 1 /\ N.es[K][Len(N.es[K])] = k
      /\ N.es[K] # <<>>
  BY <1>1, <1>2, <1>3, <1>5 DEF Longer
<1>7. IsLast(N.ent, N.es, e)
  BY <1>1, <1>3, <1>6 DEF IsLast
<1>8. ASSUME NEW j \in Keys, N.ent[j] # NIL PROVE \E i \in 1 .. Len(N.es[slot(j)]) : N.es[slot(j)][i] = j
  <2>1. CASE j = k
    <3>1. Len(N.es[K]) \in 1 .. Len(N.es[K])
      BY <1>5, <1>6
    <3> QED
      BY <1>2, <1>6, <2>1, <3>1
  <2>2. CASE j # k
    <3>1. PICK i \in 1 .. Len(C.es[slot(j)]) : C.es[slot(j)][i] = j
      BY <1>1, <1>8, <2>2 DEF Rest, LiveIn, Live
    <3>2. CASE slot(j) = K
      <4>1. i \in 1 .. Len(N.es[K]) /\ N.es[K][i] = C.es[K][i]
        BY <1>5, <1>6, <3>2
      <4> QED
        BY <3>1, <3>2, <4>1
    <3>3. CASE slot(j) # K
      BY <1>1, <1>2, <3>1, <3>3, SlotIs
    <3> QED
      BY <3>2, <3>3
  <2> QED
    BY <2>1, <2>2
<1>9. ASSUME NEW j \in Keys PROVE KeyLive(fin, N.own, N.ent[j], N.ns[j], j, N.kv[j])
  <2>1. CASE j = k
    BY <1>1, <2>1, Apart DEF KeyLive
  <2>2. CASE j # k
    <3>2. Keeps(C.own, own2, k)
      BY DEF Keeps
    <3>3. KeyLive(fin, own2, C.ent[j], C.ns[j], j, C.kv[j])
      BY ONLY <2>2, Rest(m, C), <3>2, Made(m, R, fin), Harmless(R, C.own, k), j \in Keys, OthersLive
    <3> QED
      BY <1>1, <2>2, <3>3
  <2> QED
    BY <2>1, <2>2
<1>10. LiveIn(fin, N)
  BY <1>1, <1>4, <1>8, <1>9 DEF LiveIn, Live
<1>11. ASSUME NEW j \in ListKeys, N.ent[j] # NIL
       PROVE  Counts(fin, N.ent[j], N.ns[j])
  <2>1. CASE j = k
    BY <1>1, <2>1
  <2>2. CASE j # k
    <3>1. j \in Keys
      BY DEF Keys
    <3>2. C.ent[j] # NIL
      BY <1>1, <1>11, <2>2, <3>1
    <3>4. Counts(fin, C.ent[j], C.ns[j])
      BY ONLY <2>2, <3>2, Rest(m, C), Made(m, R, fin), Harmless(R, C.own, k), j \in ListKeys, OthersEnd
    <3>5. N.ent[j] = C.ent[j] /\ N.ns[j] = C.ns[j]
      BY <1>1, <2>2, <3>1
    <3> QED
      BY <3>4, <3>5
  <2> QED
    BY <2>1, <2>2
<1>12. EndsOK(fin, N)
  BY <1>4, <1>11 DEF EndsOK, Counts
<1> QED
  BY <1>7, <1>10, <1>12

(* The tables grow by that key. *)
LEMMA EnterGrown ==
  ASSUME NEW C, Rest(mem, C), NEW k \in Keys, C.ent[k] = NIL, NEW e, e \in Blks, NEW own2,
         \A b \in Blks : C.own[b] # FREE => own2[b] = C.own[b],
         NEW s2, NEW v2, NEW N, EntersAs(N, C, k, e, own2, s2, v2),
         NEW op, op \in {"put_str", "list_new"}, Changed(op, k, C.kv, N.kv),
         ops \in 0 .. MAX_OPS, Short(C.es, C.ns, ops), s2 \in Seq(Blks), Len(s2) <= ops + 1
  PROVE  Grown(C, N, op, k) /\ Short(N.es, N.ns, ops + 1)
<1>1. /\ N.own = own2 /\ N.ent[k] = e /\ N.ns[k] = s2
      /\ \A j \in Keys \ {k} : N.ent[j] = C.ent[j] /\ N.ns[j] = C.ns[j]
      /\ \A i \in Slots \ {slot(k)} : N.es[i] = C.es[i]
      /\ N.es[slot(k)] = Append(C.es[slot(k)], k)
  BY DEF EntersAs, Added, Longer
<1>2. N.ent[k] # NIL
  BY <1>1, Apart
<1>3. \A b \in Blks : C.own[b][1] = "entry" => C.own[b] # FREE
  BY DEF FREE
<1>4. Grown(C, N, op, k)
  BY <1>1, <1>2, <1>3 DEF Grown
<1>5. ops \in Nat
  BY ShmAssumption
<1>6. ASSUME NEW i \in Slots PROVE N.es[i] \in Seq(Keys) /\ Len(N.es[i]) <= ops + 1
  <2>1. PICK s, n : s = C.es[i] /\ n = Len(C.es[i])
    OBVIOUS
  <2>2. s \in Seq(Keys) /\ n <= ops /\ n = Len(s)
    BY <2>1 DEF Short
  <2>3. n \in Nat
    BY <2>2
  <2>4. Append(s, k) \in Seq(Keys) /\ Len(Append(s, k)) = n + 1
    BY <2>2
  <2>5. N.es[i] = s \/ N.es[i] = Append(s, k)
    BY <1>1, <2>1
  <2>6. N.es[i] \in Seq(Keys) /\ (Len(N.es[i]) = n \/ Len(N.es[i]) = n + 1)
    BY <2>2, <2>4, <2>5
  <2> QED
    BY <1>5, <2>2, <2>3, <2>6
<1>7. ASSUME NEW j \in Keys PROVE N.ns[j] \in Seq(Blks) /\ Len(N.ns[j]) <= ops + 1
  <2>1. CASE j = k
    BY <1>1, <2>1
  <2>2. CASE j # k
    <3>1. PICK s, n : s = C.ns[j] /\ n = Len(C.ns[j])
      OBVIOUS
    <3>2. s \in Seq(Blks) /\ n <= ops /\ n = Len(s)
      BY <3>1 DEF Short
    <3>3. n \in Nat
      BY <3>2
    <3>4. N.ns[j] = s
      BY <1>1, <2>2, <3>1
    <3> QED
      BY <1>5, <3>2, <3>3, <3>4
  <2> QED
    BY <2>1, <2>2
<1> QED
  BY <1>4, <1>6, <1>7 DEF Short

(* A call that enters k: S are the writes before those of the map, T those *)
(* behind them.                                                            *)
EnterPlan(C, op, k, cs, S, T, R0, F, e, kb, v, own2, s2, v2) ==
  /\ Ready(C) /\ ops < MAX_OPS /\ op \in {"put_str", "list_new"} /\ k \in Keys /\ C.ent[k] = NIL
  /\ cs \in Seq(Classes) /\ Lists(S, R0) /\ Lists(T, F) /\ Once(T)
  /\ e \in Asked(cs) /\ kb \in Asked(cs) /\ e[1] = "entry" /\ kb[1] = "text"
  /\ Begin(op, k, cs, (S \o touchdb_map_put2(k, e, kb, v)) \o T) /\ view' = View'
  /\ Writable(mem', R0)
  /\ \A w \in R0 : /\ w[1] \in Asked(cs) /\ w[1] # e /\ w[1] # kb /\ w[2] # "free"
                   /\ w[2] = "next" => w[3] \in Ends
  /\ \A b \in Blks : b \notin Asked(cs) => own2[b] = C.own[b]
  /\ EntryOwned(own2, e, kb, k)
  /\ \A w \in F : w[1] \in Asked(cs) /\ w[2] = "free" /\ own2[w[1]] = FREE
  /\ s2 \in Seq(Blks) /\ Len(s2) <= ops + 1 /\ Changed(op, k, C.kv, [C.kv EXCEPT ![k] = v2])
  /\ \A R, fin : R0 \subseteq R /\ Made(mem', R, fin) /\ fin[e].val = v =>
       /\ ValueLive(fin, own2, e, s2, k, v2)
       /\ k \in ListKeys => Counts(fin, e, s2)

(* A call that enters a key begins soundly. *)
LEMMA EnterSound ==
  ASSUME NEW C, NEW op, NEW k, NEW cs, NEW S, NEW T, NEW R0, NEW F, NEW e, NEW kb, NEW v, NEW own2, NEW s2, NEW v2,
         EnterPlan(C, op, k, cs, S, T, R0, F, e, kb, v, own2, s2, v2)
  PROVE  \E N, fin, n : Sound(C, N, fin, n)'
<1>. Ready(C) /\ ops < MAX_OPS /\ op \in {"put_str", "list_new"} /\ k \in Keys /\ C.ent[k] = NIL
  BY DEF EnterPlan
<1>. cs \in Seq(Classes) /\ Lists(S, R0) /\ Lists(T, F) /\ Once(T)
  BY DEF EnterPlan
<1>. e \in Asked(cs) /\ kb \in Asked(cs) /\ e[1] = "entry" /\ kb[1] = "text"
  BY DEF EnterPlan
<1>. Begin(op, k, cs, (S \o touchdb_map_put2(k, e, kb, v)) \o T) /\ view' = View'
  BY DEF EnterPlan
<1>a. Writable(mem', R0)
  BY DEF EnterPlan
<1>b. \A w \in R0 : /\ w[1] \in Asked(cs) /\ w[1] # e /\ w[1] # kb /\ w[2] # "free"
                    /\ w[2] = "next" => w[3] \in Ends
  BY DEF EnterPlan
<1>. /\ \A b \in Blks : b \notin Asked(cs) => own2[b] = C.own[b]
     /\ EntryOwned(own2, e, kb, k)
     /\ \A w \in F : w[1] \in Asked(cs) /\ w[2] = "free" /\ own2[w[1]] = FREE
  BY DEF EnterPlan
<1>. s2 \in Seq(Blks) /\ Len(s2) <= ops + 1 /\ Changed(op, k, C.kv, [C.kv EXCEPT ![k] = v2])
  BY DEF EnterPlan
<1>. \A R, fin : R0 \subseteq R /\ Made(mem', R, fin) /\ fin[e].val = v =>
       /\ ValueLive(fin, own2, e, s2, k, v2)
       /\ k \in ListKeys => Counts(fin, e, s2)
  BY DEF EnterPlan
<1>1. PICK E, P, w1, Q, L : /\ E = EntryW(k, e, kb, v) /\ P = LinkP(k, e) /\ w1 = Link1(k, e)
                            /\ Q = LinkQ(k, e) /\ L = LinkW(C, k, e)
  OBVIOUS
<1>2. PICK R : R = (R0 \cup (E \cup P)) \cup {w1} \cup (Q \cup F)
  OBVIOUS
<1>3. Rest(mem, C)
  BY DEF Ready
<1>4. P \cup {w1} \cup Q = L /\ (\A w \in P : w[2] = "tail") /\ w1[2] \in {"next", "header"}
      /\ (\A w \in Q : w[2] \in {"tail", "size"} \/ w = <<e, "next", NIL>>)
  BY <1>1, <1>3, LinkIs
<1>5. R = (R0 \cup (E \cup L)) \cup F
  BY <1>2, <1>4
<1>6. /\ Rest(mem', C) /\ \A b \in Asked(cs) : b \in Blks /\ C.own[b] = FREE /\ b \in DOMAIN mem'
  <2>1. PICK ws : ws = (S \o touchdb_map_put2(k, e, kb, v)) \o T
    OBVIOUS
  <2>2. Begin(op, k, cs, ws)
    BY <2>1
  <2> QED
    BY ONLY Ready(C), cs \in Seq(Classes), <2>2, BeginIs
<1>7. EntryBlocks(mem', C.own, e, kb) /\ e \in Blks /\ e \in DOMAIN mem' /\ C.own[e] = FREE
  BY <1>6 DEF EntryBlocks
<1>8. Writable(mem', R) /\ Harmless(R, C.own, k) /\ Enters(R, C, k, e)
  <2>1. Private(R0, C.own, e, kb)
    BY ONLY <1>b, <1>6 DEF Private
  <2>2. AreFrees(F, mem')
    BY <1>6 DEF AreFrees
  <2>3. R = EnterW(R0, C, k, e, kb, v, F)
    BY <1>1, <1>5 DEF EnterW
  <2> QED
    BY ONLY <1>6, <1>7, <2>1, <2>2, <2>3, k \in Keys, Writable(mem', R0), EnterWrites
<1>9. PICK fin : Made(mem', R, fin)
  BY <1>6, <1>8, MadeExists DEF Rest
<1>10. EntryLive(fin, own2, e, k) /\ fin[e].val = v
  <2>1. EntryW(k, e, kb, v) \subseteq R
    BY <1>1, <1>5
  <2>2. /\ e \in DOMAIN mem' /\ e \in Blks /\ e[1] = "entry" /\ kb \in DOMAIN mem' /\ kb \in Blks /\ kb[1] = "text"
        /\ EntryOwned(own2, e, kb, k)
    BY <1>7 DEF EntryBlocks
  <2> QED
    BY ONLY <1>9, <2>1, <2>2, EntryMade
<1>11. ValueLive(fin, own2, e, s2, k, v2) /\ (k \in ListKeys => Counts(fin, e, s2))
  BY <1>5, <1>9, <1>10
<1>12. PICK N : N = Entered(C, k, e, own2, s2, v2)
  OBVIOUS
<1>13. EntersAs(N, C, k, e, own2, s2, v2)
  BY <1>3, <1>12, EnteredIs
<1>14. N.own = own2 /\ N.kv = [C.kv EXCEPT ![k] = v2]
  BY <1>12 DEF Entered
<1>15. \A b \in Blks : C.own[b] # FREE => own2[b] = C.own[b]
  BY <1>6
<1>16. LiveIn(fin, N) /\ EndsOK(fin, N) /\ IsLast(N.ent, N.es, e)
  BY ONLY <1>6, <1>7, <1>8, <1>9, <1>10, <1>11, <1>13, <1>15, k \in Keys, C.ent[k] = NIL, EnterLive
<1>17. Loose(fin, C.own)
  BY <1>6, <1>8, <1>9, EnterLoose
<1>18. Grown(C, N, op, k) /\ Short(N.es, N.ns, ops + 1)
  <2>1. Changed(op, k, C.kv, N.kv)
    BY <1>14
  <2>2. ops \in 0 .. MAX_OPS /\ Short(C.es, C.ns, ops)
    BY DEF Ready
  <2> QED
    BY ONLY <1>3, <1>7, <1>13, <1>15, <2>1, <2>2, k \in Keys, C.ent[k] = NIL, op \in {"put_str", "list_new"},
            s2 \in Seq(Blks), Len(s2) <= ops + 1, EnterGrown
<1>19. PICK ws : ws = (S \o touchdb_map_put2(k, e, kb, v)) \o T
  OBVIOUS
<1>20. \E n : Parts(ws, R0 \cup (E \cup P), w1, Q \cup F, n)
  BY <1>1, <1>19, EnterParts
<1>21. PICK n : Parts(ws, R0 \cup (E \cup P), w1, Q \cup F, n)
  BY <1>20
<1>22. Once(ws)
  <2>1. PICK R1 : R1 = (R0 \cup (E \cup P)) \cup {w1} \cup Q
    OBVIOUS
  <2>2. Lists(S \o touchdb_map_put2(k, e, kb, v), R1)
    BY <1>1, <2>1, EnterParts
  <2>3. \A w \in E \cup L : w[2] # "free"
    <3>1. /\ \A w \in E : w[2] \in {"hash", "val", "key", "h1", "h2"}
          /\ \A w \in L : w[2] \in Links
      BY <1>1, <1>6, <1>7, EntryWrites
    <3> QED
      BY <3>1 DEF Links
  <2>4. \A w \in R1 : w[2] # "free"
    BY ONLY <1>b, <1>4, <2>1, <2>3
  <2> QED
    BY <1>19, <2>2, <2>4, OnceCat
<1>23. \A b \in Blks : N.own[b] = C.own[b] \/ N.own[b] = FREE \/ b \in Asked(cs)
  BY <1>14
<1>24. \A w \in R0 \cup (E \cup P) : w[2] # "free" /\ (w[2] = "tail" \/ (w[1] \in Blks /\ C.own[w[1]] = FREE))
  <2>1. \A w \in E : w[1] \in {e, kb} /\ w[2] \in {"hash", "val", "key", "h1", "h2"}
    BY <1>1, <1>6, <1>7, EntryWrites
  <2>2. e \in Blks /\ kb \in Blks /\ C.own[e] = FREE /\ C.own[kb] = FREE
    BY <1>6
  <2> QED
    BY ONLY <1>b, <1>4, <1>6, <2>1, <2>2
<1>25. ASSUME NEW w \in Q \cup F
       PROVE  /\ Quiet(w, N)
              /\ w[2] = "next" /\ N.own[w[1]] # FREE => C.own[w[1]][1] # "entry"
              /\ w[2] = "free" => /\ w[1] \in Blks /\ N.own[w[1]] = FREE
                                  /\ C.own[w[1]] # FREE \/ w[1] \in Asked(cs)
  <2>1. CASE w \in F
    BY <1>6, <1>14, <2>1 DEF Quiet
  <2>2. CASE w[2] \in {"tail", "size"}
    BY <2>2 DEF Quiet
  <2>3. CASE w = <<e, "next", NIL>>
    BY <1>7, <1>16, <2>3 DEF Quiet, FREE
  <2> QED
    BY <1>4, <2>1, <2>2, <2>3
<1>26. op # "list_pop"
  OBVIOUS
<1>27. Begin(op, k, cs, ws)
  BY <1>19
<1>28. /\ Writable(mem', (R0 \cup (E \cup P)) \cup {w1} \cup (Q \cup F))
       /\ Made(mem', (R0 \cup (E \cup P)) \cup {w1} \cup (Q \cup F), fin)
  BY <1>2, <1>8, <1>9
<1>29. Sound(C, N, fin, n)'
  BY ONLY Ready(C), ops < MAX_OPS, cs \in Seq(Classes), view' = View', <1>27, <1>21, <1>22, <1>28, <1>16, <1>17, <1>18,
          <1>23, <1>24, <1>4, <1>25, <1>26, Starts
<1> QED
  BY <1>29

-----------------------------------------------------------------------------
(* The calls. *)

(* The blocks that a call asks for are different. *)
LEMMA AskedIs ==
  ASSUME NEW C, Ready(C), NEW cs \in Seq(Classes), NEW a, a = Blocks(cs)
  PROVE  /\ \A i \in 1 .. Len(cs) : a[i] \in Asked(cs) /\ a[i][1] = cs[i] /\ a[i] \in Blks
         /\ \A i, j \in 1 .. Len(cs) : a[i] = a[j] => i = j
<1>1. PoolOK(pool, mem, C.own)
  BY DEF Ready
<1> QED
  BY <1>1, BlocksAre DEF Asked

(* A key is in the map when a call finds it there. *)
LEMMA FoundIs ==
  ASSUME NEW C, Ready(C), NEW k \in Keys
  PROVE  EntryOf(k) = C.ent[k] /\ (mem[bulk(k)].size = 0 => C.ent[k] = NIL)
<1>1. Rest(mem, C) /\ ops \in 0 .. MAX_OPS /\ Short(C.es, C.ns, ops)
  BY DEF Ready
<1>2. Far \in Nat /\ ops \in Nat /\ ops <= Far
  BY <1>1, ShmAssumption DEF Far
<1>3. ASSUME NEW s, NEW S, s \in Seq(S), Len(s) <= ops PROVE Len(s) <= Far
  <2>1. Len(s) \in Nat
    BY <1>3
  <2> QED
    BY <1>2, <1>3, <2>1
<1>4. Short(C.es, C.ns, Far)
  BY <1>1, <1>3 DEF Short
<1>5. Shaped(mem) /\ Live(mem, C.own, C.ent, C.es, C.ns, C.kv)
  BY <1>1 DEF Rest, LiveIn
<1>6. EntryOf(k) = C.ent[k]
  BY <1>4, <1>5, EntryIs
<1>7. ASSUME mem[bulk(k)].size = 0 PROVE C.ent[k] = NIL
  <2>1. Len(C.es[slot(k)]) = 0
    BY <1>1, <1>7, SlotIs DEF Rest, EndsOK
  <2> QED
    BY <1>5, <2>1 DEF Live
<1> QED
  BY <1>6, <1>7

(* So does touchdb_put_str. *)
LEMMA PutStarts ==
  ASSUME NEW C, Ready(C), ops < MAX_OPS, NEW k \in StrKeys, NEW t \in Texts, touchdb_put_str(k, t), view' = View'
  PROVE  \E N, fin, n : Sound(C, N, fin, n)'
<1>1. PICK cs : cs = <<"pair", "pair", "text", "entry", "text">>
  OBVIOUS
<1>2. /\ cs \in Seq(Classes) /\ Len(cs) = 5 /\ cs[1] = "pair" /\ cs[2] = "pair" /\ cs[3] = "text"
      /\ cs[4] = "entry" /\ cs[5] = "text"
  BY <1>1 DEF Classes
<1>3. PICK a : a = Blocks(cs)
  OBVIOUS
<1>4. /\ \A i \in 1 .. Len(cs) : a[i] \in Asked(cs) /\ a[i][1] = cs[i] /\ a[i] \in Blks
      /\ \A i, j \in 1 .. Len(cs) : a[i] = a[j] => i = j
  BY <1>2, <1>3, AskedIs
<1>5. PICK v, s, d, e, kb : v = a[1] /\ s = a[2] /\ d = a[3] /\ e = a[4] /\ kb = a[5]
  OBVIOUS
<1>6. /\ v \in Asked(cs) /\ s \in Asked(cs) /\ d \in Asked(cs) /\ e \in Asked(cs) /\ kb \in Asked(cs)
      /\ v \in Blks /\ s \in Blks /\ d \in Blks /\ e \in Blks /\ kb \in Blks
      /\ v[1] = "pair" /\ s[1] = "pair" /\ d[1] = "text" /\ e[1] = "entry" /\ kb[1] = "text"
  BY <1>2, <1>4, <1>5
<1>7. v # s /\ v # d /\ v # e /\ v # kb /\ s # d /\ s # e /\ s # kb /\ d # e /\ d # kb /\ e # kb
  BY <1>2, <1>4, <1>5
<1>8. k \in Keys /\ k \notin ListKeys
  BY ShmAssumption DEF Keys
<1>9. C.ent[k] = NIL
  BY <1>8, FoundIs DEF touchdb_put_str
<1>10. PICK S, T : S = touchdb_str_new2(v, s, d, t) /\ T = <<Free(v)>>
  OBVIOUS
<1>11. Begin("put_str", k, cs, (S \o touchdb_map_put2(k, e, kb, Val(STR, s))) \o T)
  BY <1>1, <1>3, <1>5, <1>10 DEF touchdb_put_str
<1>12. PICK R0, F : R0 = StrW(v, s, d, t) /\ F = {Free(v)}
  OBVIOUS
<1>13. Lists(S, R0) /\ Lists(T, F) /\ Once(T)
  <2>1. Len(<<Free(v)>>) = 1
    BY ONLY LenOfOne
  <2> QED
    BY <1>10, <1>12, <2>1, StrLists, OneOf DEF Once
<1>14. /\ Rest(mem', C) /\ \A b \in Asked(cs) : b \in Blks /\ C.own[b] = FREE /\ b \in DOMAIN mem'
  <2>1. PICK ws : ws = (S \o touchdb_map_put2(k, e, kb, Val(STR, s))) \o T
    OBVIOUS
  <2>2. Begin("put_str", k, cs, ws)
    BY <1>11, <2>1
  <2> QED
    BY ONLY Zenon, Ready(C), <1>2, <2>2, BeginIs
<1>15. StrBlocks(mem', v, s, d)
  BY <1>6, <1>7, <1>14 DEF StrBlocks
<1>16. /\ Writable(mem', R0)
       /\ \A w \in R0 : /\ w[1] \in {v, s, d} /\ w[2] \in {"val", "h1", "h2", "next"}
                        /\ w[2] = "next" => w[3] \in Ends
  BY <1>12, <1>15, StrWrites
<1>17. \A w \in R0 : /\ w[1] \in Asked(cs) /\ w[1] # e /\ w[1] # kb /\ w[2] # "free"
                     /\ w[2] = "next" => w[3] \in Ends
  BY <1>6, <1>7, <1>16
<1>18. PICK own2 : own2 = [b \in Blks |-> CASE b = s -> <<"val", k, NIL>>
                                            [] b = d -> <<"text", k, s>>
                                            [] b = e -> <<"entry", k, NIL>>
                                            [] b = kb -> <<"key", k, NIL>>
                                            [] OTHER -> C.own[b]]
  OBVIOUS
<1>19. /\ own2[s] = <<"val", k, NIL>> /\ own2[d] = <<"text", k, s>> /\ own2[e] = <<"entry", k, NIL>>
       /\ own2[kb] = <<"key", k, NIL>>
       /\ \A b \in Blks \ {s, d, e, kb} : own2[b] = C.own[b]
  BY <1>6, <1>7, <1>18
<1>20. \A b \in Blks : b \notin Asked(cs) => own2[b] = C.own[b]
  BY <1>6, <1>19
<1>21. EntryOwned(own2, e, kb, k) /\ StrOwned(own2, s, d, k, <<"val", k, NIL>>)
  BY <1>19 DEF EntryOwned, StrOwned
<1>22. \A w \in F : w[1] \in Asked(cs) /\ w[2] = "free" /\ own2[w[1]] = FREE
  BY <1>6, <1>7, <1>12, <1>14, <1>19 DEF Free
<1>23. PICK v2 : v2 = [kind |-> "text", text |-> t]
  OBVIOUS
<1>24. Changed("put_str", k, C.kv, [C.kv EXCEPT ![k] = v2])
  BY <1>23 DEF Changed
<1>25. ASSUME NEW R, NEW fin, R0 \subseteq R, Made(mem', R, fin), fin[e].val = Val(STR, s)
       PROVE  ValueLive(fin, own2, e, <<>>, k, v2)
  <2>1. StrLive(fin, own2, s, k, <<"val", k, NIL>>, t)
    <3>1. StrW(v, s, d, t) \subseteq R
      BY <1>12, <1>25
    <3> QED
      BY ONLY <1>15, <1>21, <1>25, <3>1, StrMade
  <2>2. fin[e].val.type = STR /\ fin[e].val.addr = s
    BY <1>25 DEF Val
  <2>3. v2 = [kind |-> "text", text |-> v2.text] /\ v2.text = t
    BY <1>23
  <2> QED
    BY <1>8, <2>1, <2>2, <2>3 DEF ValueLive
<1>26. <<>> \in Seq(Blks) /\ Len(<<>>) <= ops + 1
  BY ShmAssumption DEF Ready
<1>27. \A R, fin : R0 \subseteq R /\ Made(mem', R, fin) /\ fin[e].val = Val(STR, s) =>
         ValueLive(fin, own2, e, <<>>, k, v2) /\ (k \in ListKeys => Counts(fin, e, <<>>))
  BY <1>8, <1>25
<1>28. Writable(mem', R0) /\ ("put_str" \in {"put_str", "list_new"})
  BY <1>16
<1>29. EnterPlan(C, "put_str", k, cs, S, T, R0, F, e, kb, Val(STR, s), own2, <<>>, v2)
  BY <1>2, <1>6, <1>8, <1>9, <1>11, <1>13, <1>17, <1>20, <1>21, <1>22, <1>24, <1>26, <1>27, <1>28 DEF EnterPlan
<1> QED
  BY <1>29, EnterSound

-----------------------------------------------------------------------------
(* A list for a new key. *)

(* The writes of a push. *)
NodeW(n, v) == {W(n, "next", NIL), W(n, "val", v)}

HeadW(c, n) == {W(c, "tail", n), W(c, "header", n), W(c, "size", 1)}

NodeBlock(m, n) == n \in DOMAIN m /\ n \in Blks /\ n[1] = "node"

ChainBlock(m, c) == c \in DOMAIN m /\ c \in Blks /\ c[1] = "chain"

(* The writes of a push to an empty chain. *)
LEMMA FirstLists ==
  ASSUME NEW c, NEW n, NEW v
  PROVE  Lists(push_first(c, n, v), NodeW(n, v) \cup HeadW(c, n)) /\ Lists(node_new(n, v), NodeW(n, v))
<1>1. PICK s, t : s = node_new(n, v) /\ t = <<W(c, "tail", n), W(c, "header", n), W(c, "size", 1)>>
  OBVIOUS
<1>2. Lists(s, NodeW(n, v)) /\ Lists(t, HeadW(c, n))
  BY <1>1, TwoOf, ThreeOf DEF node_new, NodeW, HeadW
<1>3. Lists(s \o t, NodeW(n, v) \cup HeadW(c, n))
  BY <1>2, ListsCat
<1> QED
  BY <1>1, <1>2, <1>3 DEF push_first

(* The writes to a new node. *)
LEMMA NodeWrites ==
  ASSUME NEW m, NEW n, NodeBlock(m, n), NEW v
  PROVE  /\ Writable(m, NodeW(n, v))
         /\ \A w \in NodeW(n, v) : w[1] = n /\ w[2] \in {"next", "val"} /\ (w[2] = "next" => w[3] = NIL)
<1>1. \A w \in NodeW(n, v) : w = <<n, "next", NIL>> \/ w = <<n, "val", v>>
  BY DEF NodeW, W
<1>2. \A w \in NodeW(n, v) : /\ w[1] = n /\ w[2] \in {"next", "val"}
                             /\ w[2] = "next" => w[3] = NIL
                             /\ w[2] = "val" => w[3] = v
  BY <1>1
<1>3. {"next", "val"} \subseteq Fields(n[1])
  BY DEF NodeBlock, Fields
<1> QED
  BY <1>2, <1>3, Apart DEF NodeBlock, Writable

(* The writes to the chain of a first node. *)
LEMMA HeadWrites ==
  ASSUME NEW m, NEW c, ChainBlock(m, c), NEW n \in Blks
  PROVE  /\ Writable(m, HeadW(c, n))
         /\ \A w \in HeadW(c, n) : w[1] = c /\ w[2] \in {"tail", "header", "size"}
<1>1. \A w \in HeadW(c, n) : w = <<c, "tail", n>> \/ w = <<c, "header", n>> \/ w = <<c, "size", 1>>
  BY DEF HeadW, W
<1>2. \A w \in HeadW(c, n) : /\ w[1] = c /\ w[2] \in {"tail", "header", "size"}
                             /\ w[2] \in {"tail", "header"} => w[3] = n
                             /\ w[2] = "size" => w[3] = 1
  BY <1>1
<1>3. {"tail", "header", "size"} \subseteq Fields(c[1])
  BY DEF ChainBlock, Fields
<1> QED
  BY <1>2, <1>3, Apart DEF ChainBlock, Writable

(* What they make of the node. *)
LEMMA NodeMade ==
  ASSUME NEW m, NEW R, NEW fin, Made(m, R, fin), NEW n, NEW v, NodeW(n, v) \subseteq R
  PROVE  fin[n].next = NIL /\ fin[n].val = v
<1>1. PICK w1, w2 : w1 = <<n, "next", NIL>> /\ w2 = <<n, "val", v>>
  OBVIOUS
<1>2. w1 \in R /\ w2 \in R
  BY <1>1 DEF NodeW, W
<1> QED
  BY <1>1, <1>2 DEF Made

(* And of the chain. *)
LEMMA HeadMade ==
  ASSUME NEW m, NEW R, NEW fin, Made(m, R, fin), NEW c, NEW n, HeadW(c, n) \subseteq R
  PROVE  fin[c].tail = n /\ fin[c].header = n /\ fin[c].size = 1
<1>1. PICK w1, w2, w3 : w1 = <<c, "tail", n>> /\ w2 = <<c, "header", n>> /\ w3 = <<c, "size", 1>>
  OBVIOUS
<1>2. w1 \in R /\ w2 \in R /\ w3 \in R
  BY <1>1 DEF HeadW, W
<1> QED
  BY <1>1, <1>2 DEF Made

(* A list of one text. *)
LEMMA OneLive ==
  ASSUME NEW m, NEW own, NEW c, NEW n, NEW k, NEW t \in Texts, Has(m, own, c, {"chain"}, <<"chain", k, NIL>>),
         m[c].header = n, NodeLive(m, own, n, NIL, k, t)
  PROVE  ListLive(m, own, c, <<n>>, k, <<t>>)
<1>1. PICK s, u : s = <<n>> /\ u = <<t>>
  OBVIOUS
<1>2. n \in Blks
  BY DEF NodeLive, Has
<1>3. s \in Seq(Blks) /\ u \in Seq(Texts) /\ Len(s) = 1 /\ Len(u) = 1 /\ s[1] = n /\ u[1] = t
  BY <1>1, <1>2
<1>4. Nth(s, 1) = n /\ Nth(s, 1 + 1) = NIL
  BY <1>3 DEF Nth
<1>5. \A j \in 1 .. Len(s) : NodeLive(m, own, s[j], Nth(s, j + 1), k, u[j])
  BY <1>3, <1>4
<1>6. \A i, j \in 1 .. Len(s) : s[i] = s[j] => i = j
  BY <1>3
<1>7. ListLive(m, own, c, s, k, u)
  BY <1>3, <1>4, <1>5, <1>6 DEF ListLive
<1> QED
  BY <1>1, <1>7

(* A node that points to a new string. *)
LEMMA NewNode ==
  ASSUME NEW m, NEW R, NEW fin, Made(m, R, fin), NEW v, NEW s, NEW d, NEW t, StrBlocks(m, v, s, d),
         StrW(v, s, d, t) \subseteq R, NEW n, NodeBlock(m, n), NodeW(n, Val(STR, s)) \subseteq R,
         NEW own, NEW k, StrOwned(own, s, d, k, <<"str", k, n>>), own[n] = <<"node", k, NIL>>
  PROVE  NodeLive(fin, own, n, NIL, k, t)
<1>1. fin[n].next = NIL /\ fin[n].val = Val(STR, s)
  BY NodeMade
<1>2. StrLive(fin, own, s, k, <<"str", k, n>>, t)
  BY ONLY Made(m, R, fin), StrBlocks(m, v, s, d), StrW(v, s, d, t) \subseteq R,
          StrOwned(own, s, d, k, <<"str", k, n>>), StrMade
<1>3. fin[n].val.type = STR /\ fin[n].val.addr = s
  BY <1>1 DEF Val
<1>4. n \in DOMAIN fin
  BY DEF Made, NodeBlock
<1> QED
  BY <1>1, <1>2, <1>3, <1>4 DEF NodeLive, Has, NodeBlock

ListOwned(own, s, d, c, n, k) ==
  StrOwned(own, s, d, k, <<"str", k, n>>) /\ own[n] = <<"node", k, NIL>> /\ own[c] = <<"chain", k, NIL>>

(* The writes of a list of one text. *)
ListW(v, s, d, t, c, n) == StrW(v, s, d, t) \cup (NodeW(n, Val(STR, s)) \cup HeadW(c, n))

(* The new list has one node, and its text. *)
LEMMA NewList ==
  ASSUME NEW m, NEW R, NEW fin, Made(m, R, fin), NEW v, NEW s, NEW d, NEW t \in Texts, StrBlocks(m, v, s, d),
         NEW c, ChainBlock(m, c), NEW n, NodeBlock(m, n), ListW(v, s, d, t, c, n) \subseteq R,
         NEW own, NEW k, ListOwned(own, s, d, c, n, k)
  PROVE  ListLive(fin, own, c, <<n>>, k, <<t>>) /\ fin[c].size = 1 /\ fin[c].tail = n
<1>1. StrW(v, s, d, t) \subseteq R /\ NodeW(n, Val(STR, s)) \subseteq R /\ HeadW(c, n) \subseteq R
  BY DEF ListW
<1>2. fin[c].tail = n /\ fin[c].header = n /\ fin[c].size = 1
  BY <1>1, HeadMade
<1>3. StrOwned(own, s, d, k, <<"str", k, n>>) /\ own[n] = <<"node", k, NIL>> /\ own[c] = <<"chain", k, NIL>>
  BY DEF ListOwned
<1>4. NodeLive(fin, own, n, NIL, k, t)
  BY ONLY Made(m, R, fin), StrBlocks(m, v, s, d), <1>1, <1>3, NodeBlock(m, n), NewNode
<1>5. Has(fin, own, c, {"chain"}, <<"chain", k, NIL>>)
  BY <1>3 DEF Has, ChainBlock, Made
<1>6. ListLive(fin, own, c, <<n>>, k, <<t>>)
  BY ONLY <1>2, <1>4, <1>5, t \in Texts, OneLive
<1> QED
  BY <1>2, <1>6

(* The writes that make it may be made together. *)
LEMMA ListWrites ==
  ASSUME NEW m, NEW v, NEW s, NEW d, NEW t, StrBlocks(m, v, s, d), NEW c, ChainBlock(m, c), NEW n, NodeBlock(m, n)
  PROVE  /\ Writable(m, ListW(v, s, d, t, c, n))
         /\ \A w \in ListW(v, s, d, t, c, n) :
              /\ w[1] \in {v, s, d, c, n} /\ w[2] \in {"val", "h1", "h2", "next", "tail", "header", "size"}
              /\ w[2] = "next" => w[3] \in Ends
<1>1. PICK A, B, D : A = StrW(v, s, d, t) /\ B = NodeW(n, Val(STR, s)) /\ D = HeadW(c, n)
  OBVIOUS
<1>2. /\ Writable(m, A)
      /\ \A w \in A : /\ w[1] \in {v, s, d} /\ w[2] \in {"val", "h1", "h2", "next"}
                      /\ w[2] = "next" => w[3] \in Ends
  BY <1>1, StrWrites
<1>3. /\ Writable(m, B)
      /\ \A w \in B : w[1] = n /\ w[2] \in {"next", "val"} /\ (w[2] = "next" => w[3] = NIL)
  BY <1>1, NodeWrites
<1>4. n \in Blks /\ n[1] = "node" /\ c[1] = "chain"
  BY DEF NodeBlock, ChainBlock
<1>5. Writable(m, D) /\ \A w \in D : w[1] = c /\ w[2] \in {"tail", "header", "size"}
  BY <1>1, <1>4, HeadWrites
<1>6. v # n /\ s # n /\ d # n /\ v # c /\ s # c /\ d # c /\ n # c
  BY <1>4, ShmAssumption DEF StrBlocks
<1>7. Writable(m, B \cup D)
  <2>1. \A x \in B, w \in D : x[1] = w[1] /\ x[2] = w[2] => x[2] = "free"
    BY <1>3, <1>5, <1>6
  <2> QED
    BY <1>3, <1>5, <2>1, WritableCat
<1>8. Writable(m, A \cup (B \cup D))
  <2>1. \A x \in A, w \in B \cup D : x[1] = w[1] /\ x[2] = w[2] => x[2] = "free"
    BY <1>2, <1>3, <1>5, <1>6
  <2> QED
    BY <1>2, <1>7, <2>1, WritableCat
<1>9. NIL \in Ends
  BY DEF Ends
<1> QED
  BY <1>1, <1>2, <1>3, <1>5, <1>8, <1>9 DEF ListW

(* touchdb_list_push begins soundly for a key that is not there. *)
LEMMA NewStarts ==
  ASSUME NEW C, Ready(C), ops < MAX_OPS, NEW k \in ListKeys, NEW t \in Texts, touchdb_list_push_new(k, t),
         view' = View'
  PROVE  \E N, fin, n : Sound(C, N, fin, n)'
<1>1. PICK cs : cs = <<"pair", "pair", ListTextClass, "pair", "chain", "node", "entry", "text">>
  OBVIOUS
<1>2. /\ cs \in Seq(Classes) /\ Len(cs) = 8 /\ cs[1] = "pair" /\ cs[2] = "pair" /\ cs[3] = ListTextClass
      /\ cs[4] = "pair" /\ cs[5] = "chain" /\ cs[6] = "node" /\ cs[7] = "entry" /\ cs[8] = "text"
  BY <1>1, ShmAssumption DEF Classes
<1>3. PICK a : a = Blocks(cs)
  OBVIOUS
<1>4. /\ \A i \in 1 .. Len(cs) : a[i] \in Asked(cs) /\ a[i][1] = cs[i] /\ a[i] \in Blks
      /\ \A i, j \in 1 .. Len(cs) : a[i] = a[j] => i = j
  BY <1>2, <1>3, AskedIs
<1>5. PICK v, s, d, u, c, n, e, kb : /\ v = a[1] /\ s = a[2] /\ d = a[3] /\ u = a[4] /\ c = a[5] /\ n = a[6]
                                     /\ e = a[7] /\ kb = a[8]
  OBVIOUS
<1>6. /\ v \in Asked(cs) /\ s \in Asked(cs) /\ d \in Asked(cs) /\ u \in Asked(cs) /\ c \in Asked(cs)
      /\ n \in Asked(cs) /\ e \in Asked(cs) /\ kb \in Asked(cs)
      /\ v \in Blks /\ s \in Blks /\ d \in Blks /\ u \in Blks /\ c \in Blks /\ n \in Blks /\ e \in Blks /\ kb \in Blks
      /\ v[1] = "pair" /\ s[1] = "pair" /\ d[1] = ListTextClass /\ u[1] = "pair" /\ c[1] = "chain" /\ n[1] = "node"
      /\ e[1] = "entry" /\ kb[1] = "text"
  BY <1>2, <1>4, <1>5
<1>7. /\ v # s /\ v # d /\ v # u /\ v # c /\ v # n /\ v # e /\ v # kb /\ s # d /\ s # u /\ s # c /\ s # n /\ s # e
      /\ s # kb /\ d # u /\ d # c /\ d # n /\ d # e /\ d # kb /\ u # c /\ u # n /\ u # e /\ u # kb /\ c # n /\ c # e
      /\ c # kb /\ n # e /\ n # kb /\ e # kb
  BY <1>2, <1>4, <1>5
<1>8. k \in Keys /\ k \notin StrKeys
  BY ShmAssumption DEF Keys
<1>9. C.ent[k] = NIL
  BY <1>8, FoundIs DEF touchdb_list_push_new
<1>10. PICK x : x = W(u, "val", Val(CHAIN, c))
  OBVIOUS
<1>11. PICK S, T : /\ S = (touchdb_str_new2(v, s, d, t) \o <<x>>) \o push_first(c, n, Val(STR, s))
                   /\ T = <<Free(u), Free(v)>>
  OBVIOUS
<1>12. Begin("list_new", k, cs, (S \o touchdb_map_put2(k, e, kb, Val(CHAIN, c))) \o T)
  BY <1>1, <1>3, <1>5, <1>10, <1>11 DEF touchdb_list_push_new
<1>13. PICK L, R0, F : L = ListW(v, s, d, t, c, n) /\ R0 = L \cup {x} /\ F = {Free(u), Free(v)}
  OBVIOUS
<1>14. Lists(S, R0) /\ Lists(T, F) /\ Once(T)
  <2>1. PICK A, B : A = StrW(v, s, d, t) /\ B = NodeW(n, Val(STR, s)) \cup HeadW(c, n)
    OBVIOUS
  <2>2. Lists(touchdb_str_new2(v, s, d, t), A) /\ Lists(<<x>>, {x}) /\ Lists(push_first(c, n, Val(STR, s)), B)
    BY <2>1, StrLists, OneOf, FirstLists
  <2>3. Lists(S, (A \cup {x}) \cup B)
    BY <1>11, <2>2, ListsCat
  <2>4. (A \cup {x}) \cup B = R0
    BY <1>13, <2>1 DEF ListW
  <2>5. Lists(T, F)
    BY <1>11, <1>13, TwoOf
  <2>6. T[1][1] # T[2][1] /\ Len(T) = 2
    BY <1>7, <1>11 DEF Free
  <2>7. Once(T)
    BY <2>6 DEF Once
  <2> QED
    BY <2>3, <2>4, <2>5, <2>7
<1>15. /\ Rest(mem', C) /\ \A b \in Asked(cs) : b \in Blks /\ C.own[b] = FREE /\ b \in DOMAIN mem'
  <2>0. cs \in Seq(Classes)
    BY <1>2
  <2>1. PICK ws : ws = (S \o touchdb_map_put2(k, e, kb, Val(CHAIN, c))) \o T
    OBVIOUS
  <2>2. Begin("list_new", k, cs, ws)
    BY <1>12, <2>1
  <2> QED
    BY ONLY Ready(C), <2>0, <2>2, BeginIs
<1>16. StrBlocks(mem', v, s, d) /\ ChainBlock(mem', c) /\ NodeBlock(mem', n)
  BY <1>6, <1>7, <1>15 DEF StrBlocks, ChainBlock, NodeBlock
<1>17. /\ Writable(mem', L)
       /\ \A w \in L :
              /\ w[1] \in {v, s, d, c, n} /\ w[2] \in {"val", "h1", "h2", "next", "tail", "header", "size"}
              /\ w[2] = "next" => w[3] \in Ends
  BY ONLY <1>13, <1>16, ListWrites
<1>18. x[1] = u /\ x[2] = "val"
  BY <1>10 DEF W
<1>19. Writable(mem', R0)
  <2>1. "val" \in Fields(u[1]) /\ u \in DOMAIN mem'
    BY <1>6, <1>15 DEF Fields
  <2>2. Writable(mem', {x})
    BY <1>18, <2>1 DEF Writable
  <2>3. \A y \in L, w \in {x} : y[1] = w[1] /\ y[2] = w[2] => y[2] = "free"
    BY <1>7, <1>17, <1>18
  <2> QED
    BY <1>13, <1>17, <2>2, <2>3, WritableCat
<1>20. \A w \in R0 : /\ w[1] \in Asked(cs) /\ w[1] # e /\ w[1] # kb /\ w[2] # "free"
                     /\ w[2] = "next" => w[3] \in Ends
  BY <1>6, <1>7, <1>13, <1>17, <1>18
<1>21. PICK own2 : own2 = [b \in Blks |-> CASE b = s -> <<"str", k, n>>
                                            [] b = d -> <<"text", k, s>>
                                            [] b = c -> <<"chain", k, NIL>>
                                            [] b = n -> <<"node", k, NIL>>
                                            [] b = e -> <<"entry", k, NIL>>
                                            [] b = kb -> <<"key", k, NIL>>
                                            [] OTHER -> C.own[b]]
  OBVIOUS
<1>22. /\ own2[s] = <<"str", k, n>> /\ own2[d] = <<"text", k, s>> /\ own2[c] = <<"chain", k, NIL>>
       /\ own2[n] = <<"node", k, NIL>> /\ own2[e] = <<"entry", k, NIL>> /\ own2[kb] = <<"key", k, NIL>>
       /\ \A b \in Blks \ {s, d, c, n, e, kb} : own2[b] = C.own[b]
  BY <1>6, <1>7, <1>21
<1>23. \A b \in Blks : b \notin Asked(cs) => own2[b] = C.own[b]
  BY <1>6, <1>22
<1>24. EntryOwned(own2, e, kb, k) /\ ListOwned(own2, s, d, c, n, k)
  BY <1>22 DEF EntryOwned, StrOwned, ListOwned
<1>25. \A w \in F : w[1] \in Asked(cs) /\ w[2] = "free" /\ own2[w[1]] = FREE
  <2>1. own2[u] = FREE /\ own2[v] = FREE
    BY <1>6, <1>7, <1>15, <1>22
  <2>2. \A w \in F : w[1] \in {u, v} /\ w[2] = "free"
    BY <1>13 DEF Free
  <2> QED
    BY <1>6, <2>1, <2>2
<1>26. PICK v2 : v2 = [kind |-> "list", texts |-> <<t>>]
  OBVIOUS
<1>27. C.kv[k] = [kind |-> "absent"]
  <2>1. KeyLive(mem, C.own, C.ent[k], C.ns[k], k, C.kv[k])
    BY <1>8 DEF Ready, Rest, LiveIn, Live
  <2> QED
    BY <1>9, <2>1 DEF KeyLive
<1>28. Changed("list_new", k, C.kv, [C.kv EXCEPT ![k] = v2])
  <2>1. C.kv[k].kind # "list"
    BY <1>27
  <2>2. PICK kv : kv = C.kv
    OBVIOUS
  <2>3. [kv EXCEPT ![k] = v2]
          = [kv EXCEPT ![k] = [kind |-> "list", texts |-> IF @.kind = "list" THEN Append(@.texts, t) ELSE <<t>>]]
    BY <1>26, <2>1, <2>2
  <2> QED
    BY <2>2, <2>3 DEF Changed
<1>29. PICK s2 : s2 = <<n>>
  OBVIOUS
<1>30. s2 \in Seq(Blks) /\ Len(s2) = 1 /\ s2[1] = n
  BY <1>6, <1>29
<1>31. ASSUME NEW R, NEW fin, R0 \subseteq R, Made(mem', R, fin), fin[e].val = Val(CHAIN, c)
       PROVE  ValueLive(fin, own2, e, s2, k, v2) /\ Counts(fin, e, s2)
  <2>1. ListW(v, s, d, t, c, n) \subseteq R
    BY <1>13, <1>31
  <2>2. ListLive(fin, own2, c, <<n>>, k, <<t>>) /\ fin[c].size = 1 /\ fin[c].tail = n
    BY ONLY <1>16, <1>24, <1>31, <2>1, t \in Texts, NewList
  <2>3. fin[e].val.type = CHAIN /\ fin[e].val.addr = c
    BY <1>31 DEF Val
  <2>4. v2 = [kind |-> "list", texts |-> v2.texts] /\ v2.texts = <<t>>
    BY <1>26
  <2>5. ListLive(fin, own2, fin[e].val.addr, s2, k, v2.texts)
    BY <1>29, <2>2, <2>3, <2>4
  <2>6. ValueLive(fin, own2, e, s2, k, v2)
    BY <1>8, <2>3, <2>4, <2>5 DEF ValueLive
  <2>7. Counts(fin, e, s2)
    BY <1>30, <2>2, <2>3 DEF Counts
  <2> QED
    BY <2>6, <2>7
<1>32. Len(s2) <= ops + 1
  BY <1>30, ShmAssumption DEF Ready
<1>33. \A R, fin : R0 \subseteq R /\ Made(mem', R, fin) /\ fin[e].val = Val(CHAIN, c) =>
         ValueLive(fin, own2, e, s2, k, v2) /\ (k \in ListKeys => Counts(fin, e, s2))
  BY <1>31
<1>34. "list_new" \in {"put_str", "list_new"}
  OBVIOUS
<1>35. EnterPlan(C, "list_new", k, cs, S, T, R0, F, e, kb, Val(CHAIN, c), own2, s2, v2)
  BY <1>2, <1>6, <1>8, <1>9, <1>12, <1>14, <1>19, <1>20, <1>23, <1>24, <1>25, <1>28, <1>30, <1>32, <1>33, <1>34 DEF EnterPlan
<1> QED
  BY <1>35, EnterSound

-----------------------------------------------------------------------------
(* Calls that change the list of a key. *)

(* Frees, writes to blocks of nobody, and links in the list of k. *)
Beside(R, own, k) ==
  \A w \in R :
    \/ w[2] = "free"
    \/ w[1] \in Blks /\ own[w[1]] = FREE /\ (w[2] = "next" /\ w[1][1] = "entry" => w[3] \in Ends)
    \/ w[2] \in Links /\ w[1] \in Blks /\ w[1][1] \in {"chain", "node"} /\ own[w[1]][2] = k

(* Writes beside the blocks of other keys do them no harm. *)
LEMMA BesideHarmless ==
  ASSUME NEW R, NEW own, NEW k, Beside(R, own, k)
  PROVE  Harmless(R, own, k)
BY DEF Beside, Harmless

(* The tables when the list of k has the nodes s2. *)
Relisted(C, k, own2, s2, v2) ==
  [own |-> own2, ent |-> C.ent, es |-> C.es,
   ns  |-> [j \in Keys |-> IF j = k THEN s2 ELSE C.ns[j]],
   kv  |-> [C.kv EXCEPT ![k] = v2]]

RelistsAs(N, C, k, own2, s2, v2) ==
  /\ N.own = own2 /\ N.ent = C.ent /\ N.es = C.es /\ N.ns[k] = s2 /\ N.kv[k] = v2 /\ N.kv = [j \in Keys |-> N.kv[j]]
  /\ \A j \in Keys \ {k} : N.ns[j] = C.ns[j] /\ N.kv[j] = C.kv[j]

(* The tables after the call are those. *)
LEMMA RelistedIs ==
  ASSUME NEW m, NEW C, Rest(m, C), NEW k \in Keys, NEW own2, NEW s2, NEW v2
  PROVE  RelistsAs(Relisted(C, k, own2, s2, v2), C, k, own2, s2, v2)
<1>1. PICK N : N = Relisted(C, k, own2, s2, v2)
  OBVIOUS
<1>2. C.kv = [j \in Keys |-> C.kv[j]]
  BY DEF Rest, LiveIn, Live
<1>3. DOMAIN C.kv = Keys
  BY <1>2
<1>4. N.kv = [C.kv EXCEPT ![k] = v2]
  BY <1>1 DEF Relisted
<1>5. N.kv = [j \in Keys |-> N.kv[j]] /\ N.kv[k] = v2 /\ \A j \in Keys \ {k} : N.kv[j] = C.kv[j]
  BY <1>3, <1>4
<1>6. RelistsAs(N, C, k, own2, s2, v2)
  BY <1>1, <1>5 DEF Relisted, RelistsAs
<1> QED
  BY <1>1, <1>6

(* The bucket i, what it counts and where it appends. *)
BucketDone(m, i, ent, s) ==
  /\ BucketLive(m, i, ent, s) /\ m[Bulk(i)].size = Len(s)
  /\ s # <<>> => m[Bulk(i)].tail = ent[s[Len(s)]]

(* What is somebody's and no part of a list stays. *)
LEMMA BesideSame ==
  ASSUME NEW m, Shaped(m), NEW R, NEW fin, Made(m, R, fin), NEW own, NEW k, Beside(R, own, k),
         NEW b \in DOMAIN m, b \in Bulks \/ (own[b] # FREE /\ b[1] \notin {"chain", "node"}),
         NEW f \in Fields(b[1])
  PROVE  fin[b][f] = m[b][f]
<1> SUFFICES ASSUME fin[b][f] # m[b][f] PROVE FALSE
  OBVIOUS
<1>1. PICK w \in R : w[1] = b /\ w[2] = f
  BY DEF Made
<1>2. f # "free" /\ (b \in Bulks => b \notin Blks)
  BY NoFree, Apart
<1> QED
  BY <1>1, <1>2 DEF Beside

(* Free blocks of the class of entries stay loose. *)
LEMMA RelistLoose ==
  ASSUME NEW m, NEW C, Rest(m, C), NEW R, NEW fin, Made(m, R, fin), NEW k, Beside(R, C.own, k)
  PROVE  Loose(fin, C.own)
<1> SUFFICES ASSUME NEW b \in DOMAIN fin, b \in Blks, b[1] = "entry", C.own[b][1] # "entry"
             PROVE  fin[b].next \in Ends
  BY DEF Loose
<1>1. b \in DOMAIN m /\ "next" \in Fields(b[1])
  BY DEF Made, Fields
<1>2. CASE fin[b].next = m[b].next
  BY <1>1, <1>2 DEF Rest, Loose
<1>3. CASE fin[b].next # m[b].next
  <2>1. PICK w \in R : w[1] = b /\ w[2] = "next"
    BY <1>1, <1>3 DEF Made
  <2>2. fin[b].next = w[3]
    BY Zenon, <2>1 DEF Made
  <2> QED
    BY <2>1, <2>2 DEF Beside
<1> QED
  BY <1>2, <1>3

(* The buckets stay. *)
LEMMA RelistBuckets ==
  ASSUME NEW m, NEW C, Rest(m, C), NEW R, NEW fin, Made(m, R, fin), NEW k, Beside(R, C.own, k), NEW i \in Slots
  PROVE  BucketDone(fin, i, C.ent, C.es[i])
<1>1. Shaped(m) /\ BucketLive(m, i, C.ent, C.es[i]) /\ EndsOK(m, C)
  BY DEF Rest, LiveIn, Live
<1>2. Bulk(i) \in DOMAIN m /\ Bulk(i) \in Bulks /\ Bulk(i)[1] = "bulk" /\ {"header", "tail", "size"} \subseteq Fields("bulk")
  BY <1>1, Apart DEF Shaped, Bulks, Fields
<1>3. /\ fin[Bulk(i)].header = m[Bulk(i)].header /\ fin[Bulk(i)].tail = m[Bulk(i)].tail
      /\ fin[Bulk(i)].size = m[Bulk(i)].size
  BY <1>1, <1>2, BesideSame
<1>4. ASSUME NEW j \in 1 .. Len(C.es[i])
      PROVE  fin[C.ent[C.es[i][j]]].next = m[C.ent[C.es[i][j]]].next
  <2>1. PICK l : l = C.es[i][j]
    OBVIOUS
  <2>2. l \in Keys /\ C.ent[l] # NIL
    BY <1>1, <2>1 DEF BucketLive
  <2>3. PICK b : b = C.ent[l]
    OBVIOUS
  <2>4. EntryLive(m, C.own, b, l)
    BY <2>2, <2>3 DEF Rest, LiveIn, Live, KeyLive
  <2>5. b \in Blks /\ b[1] = "entry" /\ b \in DOMAIN m /\ C.own[b] # FREE /\ "next" \in Fields(b[1])
    BY <2>4 DEF EntryLive, Has, FREE, Fields
  <2>6. fin[b].next = m[b].next
    BY <1>1, <2>5, BesideSame
  <2> QED
    BY <2>1, <2>3, <2>6
<1> QED
  BY Zenon, <1>1, <1>3, <1>4 DEF BucketLive, BucketDone, EndsOK

(* The entry of the list stays. *)
LEMMA RelistEntry ==
  ASSUME NEW m, NEW C, Rest(m, C), NEW R, NEW fin, Made(m, R, fin), NEW k, Beside(R, C.own, k),
         NEW e, EntryLive(m, C.own, e, k), NEW own2,
         \A b \in Blks : C.own[b] \in {<<"entry", k, NIL>>, <<"key", k, NIL>>} => own2[b] = C.own[b]
  PROVE  EntryLive(fin, own2, e, k) /\ fin[e].val = m[e].val
<1>1. PICK kb : kb = m[e].key
  OBVIOUS
<1>2. /\ Has(m, C.own, e, {"entry"}, <<"entry", k, NIL>>) /\ m[e].hash = HashOf[k]
      /\ Has(m, C.own, kb, {"text"}, <<"key", k, NIL>>) /\ m[kb].h1 = k /\ m[kb].h2 = k
  BY <1>1 DEF EntryLive
<1>3. /\ e \in Blks /\ e[1] = "entry" /\ e \in DOMAIN m /\ C.own[e] # FREE /\ {"hash", "key", "val"} \subseteq Fields(e[1])
      /\ C.own[e] = <<"entry", k, NIL>>
  BY <1>2 DEF Has, FREE, Fields
<1>4. /\ kb \in Blks /\ kb[1] = "text" /\ kb \in DOMAIN m /\ C.own[kb] # FREE /\ {"h1", "h2"} \subseteq Fields(kb[1])
      /\ C.own[kb] = <<"key", k, NIL>>
  BY <1>2 DEF Has, FREE, Fields
<1>5. Shaped(m) /\ DOMAIN fin = DOMAIN m
  BY DEF Rest, Made
<1>6. fin[e].hash = m[e].hash /\ fin[e].key = kb /\ fin[e].val = m[e].val
  <2>1. ASSUME NEW f \in Fields(e[1]) PROVE fin[e][f] = m[e][f]
    BY SMTT(30), <1>3, <1>5, BesideSame
  <2> QED
    BY <1>1, <1>3, <2>1
<1>7. fin[kb].h1 = k /\ fin[kb].h2 = k
  BY <1>2, <1>4, <1>5, BesideSame
<1>8. own2[e] = <<"entry", k, NIL>> /\ own2[kb] = <<"key", k, NIL>>
  BY <1>3, <1>4
<1> QED
  BY <1>2, <1>3, <1>4, <1>5, <1>6, <1>7, <1>8 DEF EntryLive, Has

(* The chain c and what it counts after the call. *)
ListDone(m, own, c, s, k, v) ==
  /\ v = [kind |-> "list", texts |-> v.texts] /\ ListLive(m, own, c, s, k, v.texts)
  /\ m[c].size = Len(s) /\ (s # <<>> => m[c].tail = s[Len(s)])

(* Other keys stay as they are. *)
LEMMA RelistOther ==
  ASSUME NEW m, NEW C, Rest(m, C), NEW R, NEW fin, Made(m, R, fin), NEW k, Beside(R, C.own, k),
         NEW own2, Keeps(C.own, own2, k), NEW j \in Keys, j # k
  PROVE  KeyLive(fin, own2, C.ent[j], C.ns[j], j, C.kv[j])
<1>1. Harmless(R, C.own, k)
  BY BesideHarmless
<1> QED
  BY <1>1, OthersLive

(* What clients read after all writes of a call that changes a list. *)
LEMMA RelistLive ==
  ASSUME NEW m, NEW C, Rest(m, C), NEW R, NEW fin, Made(m, R, fin), NEW k \in ListKeys, Beside(R, C.own, k),
         C.ent[k] # NIL, NEW own2, Keeps(C.own, own2, k),
         \A b \in Blks : C.own[b] \in {<<"entry", k, NIL>>, <<"key", k, NIL>>} => own2[b] = C.own[b],
         NEW s2, NEW v2, ListDone(fin, own2, m[C.ent[k]].val.addr, s2, k, v2),
         NEW N, RelistsAs(N, C, k, own2, s2, v2)
  PROVE  LiveIn(fin, N) /\ EndsOK(fin, N)
<1>1. /\ N.own = own2 /\ N.ent = C.ent /\ N.es = C.es /\ N.ns[k] = s2 /\ N.kv[k] = v2 /\ N.kv = [j \in Keys |-> N.kv[j]]
      /\ \A j \in Keys \ {k} : N.ns[j] = C.ns[j] /\ N.kv[j] = C.kv[j]
  BY DEF RelistsAs
<1>2. k \in Keys /\ k \notin StrKeys
  BY ShmAssumption DEF Keys
<1>3. /\ EntryLive(m, C.own, C.ent[k], k) /\ m[C.ent[k]].val.type = CHAIN
      /\ C.kv[k] = [kind |-> "list", texts |-> C.kv[k].texts]
      /\ ListLive(m, C.own, m[C.ent[k]].val.addr, C.ns[k], k, C.kv[k].texts)
  <2>1. LiveIn(m, C)
    BY DEF Rest
  <2> QED
    BY <2>1, ChainIs
<1>4. EntryLive(fin, own2, C.ent[k], k) /\ fin[C.ent[k]].val = m[C.ent[k]].val
  BY <1>3, RelistEntry
<1>5. KeyLive(fin, own2, C.ent[k], s2, k, v2)
  BY Zenon, <1>2, <1>3, <1>4 DEF KeyLive, ValueLive, ListDone
<1>6. ASSUME NEW j \in Keys PROVE KeyLive(fin, N.own, N.ent[j], N.ns[j], j, N.kv[j])
  <2>1. CASE j = k
    BY <1>1, <1>5, <2>1
  <2>2. CASE j # k
    <3>1. KeyLive(fin, own2, C.ent[j], C.ns[j], j, C.kv[j])
      <4>1. j # k
        BY <2>2
      <4> QED
        BY ONLY SMTT(30), <4>1, Rest(m, C), Made(m, R, fin), Beside(R, C.own, k), Keeps(C.own, own2, k), j \in Keys, RelistOther
    <3> QED
      BY <1>1, <2>2, <3>1
  <2> QED
    BY <2>1, <2>2
<1>7. \A j \in Keys : N.ent[j] # NIL => \E i \in 1 .. Len(N.es[slot(j)]) : N.es[slot(j)][i] = j
  BY <1>1 DEF Rest, LiveIn, Live
<1>8. ASSUME NEW i \in Slots
      PROVE  /\ BucketLive(fin, i, N.ent, N.es[i]) /\ fin[Bulk(i)].size = Len(N.es[i])
             /\ N.es[i] # <<>> => fin[Bulk(i)].tail = N.ent[N.es[i][Len(N.es[i])]]
  <2>1. BucketDone(fin, i, C.ent, C.es[i])
    BY RelistBuckets
  <2> QED
    BY <1>1, <2>1 DEF BucketDone
<1>9. LiveIn(fin, N)
  BY <1>1, <1>6, <1>7, <1>8 DEF LiveIn, Live
<1>10. ASSUME NEW j \in ListKeys, N.ent[j] # NIL PROVE Counts(fin, N.ent[j], N.ns[j])
  <2>1. CASE j = k
    BY <1>1, <1>4, <2>1 DEF Counts, ListDone
  <2>2. CASE j # k
    <3>1. j \in Keys /\ C.ent[j] # NIL
      BY <1>1, <1>10 DEF Keys
    <3>2. Harmless(R, C.own, k)
      BY BesideHarmless
    <3>3. Counts(fin, C.ent[j], C.ns[j])
      BY ONLY <2>2, <3>1, <3>2, Rest(m, C), Made(m, R, fin), j \in ListKeys, OthersEnd
    <3> QED
      BY <1>1, <2>2, <3>1, <3>3
  <2> QED
    BY <2>1, <2>2
<1>11. EndsOK(fin, N)
  BY Zenon, <1>8, <1>10 DEF EndsOK, Counts
<1> QED
  BY <1>9, <1>11

(* Who owns what after a call for k. *)
ListOwns(C, own2, op, k, A) ==
  /\ \A b \in Blks : own2[b] = C.own[b] \/ own2[b] = FREE \/ b \in A
  /\ \A b \in Blks : C.own[b] # FREE => own2[b] = C.own[b] \/ (op = "list_pop" /\ C.own[b][2] = k)
  /\ \A b \in Blks : C.own[b][1] = "entry" => own2[b] = C.own[b]
  /\ \A b \in Blks : C.own[b] = <<"key", k, NIL>> => own2[b] = C.own[b]

(* A list that is pushed to keeps its nodes. *)
ListGrows(s, s2, op) ==
  /\ s2 \in Seq(Blks) /\ Len(s2) <= ops + 1
  /\ op = "list_push" => Len(s) <= Len(s2) /\ \A i \in 1 .. Len(s) : s2[i] = s[i]

(* A call that changes the list of k: its n-th write is w, and before and  *)
(* behind it are the writes P and Q.                                       *)
ListPlan(C, op, k, cs, ws, P, w, Q, n, own2, s2, v2) ==
  /\ Ready(C) /\ ops < MAX_OPS /\ op \in {"list_push", "list_pop"} /\ k \in ListKeys /\ C.ent[k] # NIL
  /\ cs \in Seq(Classes) /\ Begin(op, k, cs, ws) /\ view' = View'
  /\ Parts(ws, P, w, Q, n) /\ Once(ws)
  /\ Writable(mem', P \cup {w} \cup Q) /\ Beside(P \cup {w} \cup Q, C.own, k)
  /\ ListOwns(C, own2, op, k, Asked(cs)) /\ ListGrows(C.ns[k], s2, op)
  /\ Changed(op, k, C.kv, [C.kv EXCEPT ![k] = v2])
  /\ \A v \in P : v[2] # "free" /\ (v[2] = "tail" \/ (v[1] \in Blks /\ C.own[v[1]] = FREE))
  /\ w[2] \in {"next", "header"}
  /\ \A v \in Q : /\ v[2] \in {"tail", "size", "free"} \/ (v[1] \in Blks /\ own2[v[1]] = FREE)
                  /\ v[2] # "next"
                  /\ v[2] = "free" => /\ v[1] \in Blks /\ own2[v[1]] = FREE
                                      /\ C.own[v[1]] # FREE \/ v[1] \in Asked(cs)
  /\ op = "list_pop" => /\ P = {} /\ w[1] = mem[C.ent[k]].val.addr /\ w[2] = "header"
                        /\ \A v \in Q : v[2] # "header"
  /\ \A fin : Made(mem', P \cup {w} \cup Q, fin) => ListDone(fin, own2, mem[C.ent[k]].val.addr, s2, k, v2)

(* The tables change in that list only. *)
LEMMA ListGrown ==
  ASSUME NEW C, Ready(C), NEW k \in ListKeys, C.ent[k] # NIL, NEW op, op \in {"list_push", "list_pop"},
         NEW own2, NEW A, ListOwns(C, own2, op, k, A), NEW s2, ListGrows(C.ns[k], s2, op), NEW v2, NEW N,
         RelistsAs(N, C, k, own2, s2, v2), Changed(op, k, C.kv, N.kv)
  PROVE  Grown(C, N, op, k) /\ Short(N.es, N.ns, ops + 1)
<1>1. /\ N.own = own2 /\ N.ent = C.ent /\ N.es = C.es /\ N.ns[k] = s2
      /\ \A j \in Keys \ {k} : N.ns[j] = C.ns[j]
  BY DEF RelistsAs
<1>2. k \in Keys
  BY DEF Keys
<1>3. ops \in 0 .. MAX_OPS /\ ops \in Nat /\ Short(C.es, C.ns, ops)
  BY ShmAssumption DEF Ready
<1>4. Grown(C, N, op, k)
  <2>1. /\ \A m \in Keys \ {k} : N.ent[m] = C.ent[m] /\ N.ns[m] = C.ns[m]
        /\ C.ent[k] # NIL => N.ent[k] = C.ent[k]
        /\ N.ent[k] # NIL
        /\ \A i \in Slots : N.es[i] = C.es[i]
    BY <1>1
  <2>2. \A b \in Blks : /\ C.own[b][1] = "entry" => N.own[b] = C.own[b]
                        /\ C.own[b] # FREE => N.own[b] = C.own[b] \/ (op = "list_pop" /\ C.own[b][2] = k)
    BY <1>1 DEF ListOwns
  <2>3. op = "list_push" => /\ Len(C.ns[k]) <= Len(N.ns[k])
                            /\ \A i \in 1 .. Len(C.ns[k]) : N.ns[k][i] = C.ns[k][i]
    BY <1>1 DEF ListGrows
  <2> QED
    BY <1>2, <2>1, <2>2, <2>3 DEF Grown
<1>5. ASSUME NEW i \in Slots PROVE N.es[i] \in Seq(Keys) /\ Len(N.es[i]) <= ops + 1
  <2>1. PICK s : s = C.es[i]
    OBVIOUS
  <2>2. s \in Seq(Keys) /\ Len(s) <= ops /\ N.es[i] = s
    BY <1>1, <1>3, <2>1 DEF Short
  <2>3. Len(s) \in Nat
    BY <2>2
  <2> QED
    BY <1>3, <2>2, <2>3
<1>6. ASSUME NEW j \in Keys PROVE N.ns[j] \in Seq(Blks) /\ Len(N.ns[j]) <= ops + 1
  <2>1. CASE j = k
    BY <1>1, <2>1 DEF ListGrows
  <2>2. CASE j # k
    <3>1. PICK s : s = C.ns[j]
      OBVIOUS
    <3>2. s \in Seq(Blks) /\ Len(s) <= ops /\ N.ns[j] = s
      BY <1>1, <1>3, <2>2, <3>1 DEF Short
    <3>3. Len(s) \in Nat
      BY <3>2
    <3> QED
      BY <1>3, <3>2, <3>3
  <2> QED
    BY <2>1, <2>2
<1> QED
  BY <1>4, <1>5, <1>6 DEF Short

(* A call that changes a list begins soundly. *)
LEMMA ListSound ==
  ASSUME NEW C, NEW op, NEW k, NEW cs, NEW ws, NEW P, NEW w, NEW Q, NEW n, NEW own2, NEW s2, NEW v2,
         ListPlan(C, op, k, cs, ws, P, w, Q, n, own2, s2, v2)
  PROVE  \E N, fin : Sound(C, N, fin, n)'
<1>. Ready(C) /\ ops < MAX_OPS /\ op \in {"list_push", "list_pop"} /\ k \in ListKeys /\ C.ent[k] # NIL
  BY DEF ListPlan
<1>. cs \in Seq(Classes) /\ Begin(op, k, cs, ws) /\ view' = View' /\ Parts(ws, P, w, Q, n) /\ Once(ws)
  BY DEF ListPlan
<1>. ListOwns(C, own2, op, k, Asked(cs)) /\ ListGrows(C.ns[k], s2, op) /\ Changed(op, k, C.kv, [C.kv EXCEPT ![k] = v2])
  BY DEF ListPlan
<1>1. PICK R : R = P \cup {w} \cup Q
  OBVIOUS
<1>2. /\ Writable(mem', R) /\ Beside(R, C.own, k)
      /\ \A fin : Made(mem', R, fin) => ListDone(fin, own2, mem[C.ent[k]].val.addr, s2, k, v2)
  BY <1>1 DEF ListPlan
<1>3. /\ \A v \in P : v[2] # "free" /\ (v[2] = "tail" \/ (v[1] \in Blks /\ C.own[v[1]] = FREE))
      /\ w[2] \in {"next", "header"}
      /\ \A v \in Q : /\ v[2] \in {"tail", "size", "free"} \/ (v[1] \in Blks /\ own2[v[1]] = FREE)
                      /\ v[2] # "next"
                      /\ v[2] = "free" => /\ v[1] \in Blks /\ own2[v[1]] = FREE
                                          /\ C.own[v[1]] # FREE \/ v[1] \in Asked(cs)
  BY DEF ListPlan
<1>4. op = "list_pop" => /\ P = {} /\ w[1] = mem[C.ent[k]].val.addr /\ w[2] = "header"
                         /\ \A v \in Q : v[2] # "header"
  BY DEF ListPlan
<1>5. Rest(mem, C) /\ Rest(mem', C) /\ \A b \in DOMAIN mem : mem'[b] = mem[b]
  BY ONLY Ready(C), cs \in Seq(Classes), Begin(op, k, cs, ws), BeginIs DEF Ready
<1>6. PICK fin : Made(mem', R, fin)
  BY <1>2, <1>5, MadeExists DEF Rest
<1>7. PICK N : N = Relisted(C, k, own2, s2, v2)
  OBVIOUS
<1>8. RelistsAs(N, C, k, own2, s2, v2)
  <2>1. k \in Keys
    BY DEF Keys
  <2> QED
    BY <1>5, <1>7, <2>1, RelistedIs
<1>9. N.own = own2 /\ N.kv = [C.kv EXCEPT ![k] = v2]
  BY <1>7 DEF Relisted
<1>10. mem'[C.ent[k]] = mem[C.ent[k]]
  <2>1. k \in Keys
    BY DEF Keys
  <2>2. EntryLive(mem, C.own, C.ent[k], k)
    BY <1>5, <2>1 DEF Rest, LiveIn, Live, KeyLive
  <2>3. C.ent[k] \in DOMAIN mem
    BY <2>2 DEF EntryLive, Has
  <2> QED
    BY <1>5, <2>3
<1>11. ListDone(fin, own2, mem'[C.ent[k]].val.addr, s2, k, v2)
  BY <1>2, <1>6, <1>10
<1>12. Keeps(C.own, own2, k) /\ \A b \in Blks : C.own[b] \in {<<"entry", k, NIL>>, <<"key", k, NIL>>} => own2[b] = C.own[b]
  BY DEF Keeps, ListOwns
<1>13. LiveIn(fin, N) /\ EndsOK(fin, N)
  BY ONLY <1>2, <1>5, <1>6, <1>8, <1>11, <1>12, k \in ListKeys, C.ent[k] # NIL, RelistLive
<1>14. Loose(fin, C.own)
  BY <1>2, <1>5, <1>6, RelistLoose
<1>15. Grown(C, N, op, k) /\ Short(N.es, N.ns, ops + 1)
  <2>1. Changed(op, k, C.kv, N.kv)
    BY <1>9
  <2> QED
    BY ONLY <1>8, <2>1, Ready(C), k \in ListKeys, C.ent[k] # NIL, op \in {"list_push", "list_pop"},
            ListOwns(C, own2, op, k, Asked(cs)), ListGrows(C.ns[k], s2, op), ListGrown
<1>16. \A b \in Blks : N.own[b] = C.own[b] \/ N.own[b] = FREE \/ b \in Asked(cs)
  BY <1>9 DEF ListOwns
<1>17. \A v \in Q : /\ Quiet(v, N)
                    /\ v[2] = "next" /\ N.own[v[1]] # FREE => C.own[v[1]][1] # "entry"
                    /\ v[2] = "free" => /\ v[1] \in Blks /\ N.own[v[1]] = FREE
                                        /\ C.own[v[1]] # FREE \/ v[1] \in Asked(cs)
  BY <1>3, <1>9 DEF Quiet
<1>18. op = "list_pop" => /\ P = {} /\ w[1] = mem'[C.ent[k]].val.addr /\ w[2] = "header"
                          /\ \A v \in Q : v[2] # "header"
  BY <1>4, <1>10
<1>19. Writable(mem', P \cup {w} \cup Q) /\ Made(mem', P \cup {w} \cup Q, fin)
  BY <1>1, <1>2, <1>6
<1>20. Sound(C, N, fin, n)'
  BY ONLY Ready(C), ops < MAX_OPS, cs \in Seq(Classes), Begin(op, k, cs, ws), view' = View', Parts(ws, P, w, Q, n),
          Once(ws), <1>3, <1>13, <1>14, <1>15, <1>16, <1>17, <1>18, <1>19, Starts
<1> QED
  BY <1>20

-----------------------------------------------------------------------------
(* touchdb_chain_push_tail. *)

(* A list with a new node at its end. *)
LEMMA PushLive ==
  ASSUME NEW m, NEW own, NEW fin, NEW own2, NEW k, SameBlocks(m, own, fin, own2, k), NEW c, NEW s, NEW texts,
         ListLive(m, own, c, s, k, texts), NEW n \in Blks, own[n] = FREE, NEW t \in Texts,
         NodeLive(fin, own2, n, NIL, k, t), NEW s2, s2 = Append(s, n),
         \A j \in 1 .. Len(s) : fin[s[j]].next = Nth(s2, j + 1), fin[c].header = Nth(s2, 1)
  PROVE  ListLive(fin, own2, c, s2, k, Append(texts, t))
<1>1. s \in Seq(Blks) /\ texts \in Seq(Texts) /\ Len(texts) = Len(s) /\ Has(m, own, c, {"chain"}, <<"chain", k, NIL>>)
  BY DEF ListLive
<1>2. PICK l, u : l = Len(s) /\ u = Append(texts, t)
  OBVIOUS
<1>3. /\ l \in Nat /\ s2 \in Seq(Blks) /\ u \in Seq(Texts) /\ Len(s2) = l + 1 /\ Len(u) = l + 1
      /\ s2[l + 1] = n /\ u[l + 1] = t
      /\ \A j \in 1 .. l : s2[j] = s[j] /\ u[j] = texts[j]
  BY <1>1, <1>2
<1>4. ASSUME NEW j \in 1 .. Len(s2) PROVE NodeLive(fin, own2, s2[j], Nth(s2, j + 1), k, u[j])
  <2>1. CASE j = l + 1
    <3>1. Nth(s2, j + 1) = NIL
      BY <1>3, <2>1 DEF Nth
    <3> QED
      BY <1>3, <2>1, <3>1
  <2>2. CASE j \in 1 .. l
    <3>1. PICK x, y, z, q : x = s[j] /\ y = Nth(s2, j + 1) /\ z = texts[j] /\ q = Nth(s, j + 1)
      OBVIOUS
    <3>2. NodeLive(m, own, x, q, k, z) /\ fin[x].next = y
      BY <1>2, <2>2, <3>1 DEF ListLive
    <3>3. NodeLive(fin, own2, x, y, k, z)
      BY <3>2, NodeFrame
    <3> QED
      BY <1>3, <2>2, <3>1, <3>3
  <2> QED
    BY <1>3, <2>1, <2>2
<1>5. \A j \in 1 .. l : s[j] # n
  <2> SUFFICES ASSUME NEW j \in 1 .. l PROVE own[s[j]] # FREE
    OBVIOUS
  <2>1. NodeLive(m, own, s[j], Nth(s, j + 1), k, texts[j])
    BY <1>2 DEF ListLive
  <2> QED
    BY <2>1 DEF NodeLive, Has, FREE
<1>6. ASSUME NEW i \in 1 .. Len(s2), NEW j \in 1 .. Len(s2), s2[i] = s2[j] PROVE i = j
  <2>1. \A a, b \in 1 .. l : s[a] = s[b] => a = b
    BY <1>2 DEF ListLive
  <2>2. (i \in 1 .. l \/ i = l + 1) /\ (j \in 1 .. l \/ j = l + 1)
    BY <1>3
  <2> QED
    BY <1>3, <1>5, <1>6, <2>1, <2>2
<1>7. Has(fin, own2, c, {"chain"}, <<"chain", k, NIL>>)
  BY <1>1 DEF Has, SameBlocks, FREE
<1>8. ListLive(fin, own2, c, s2, k, u)
  BY <1>3, <1>4, <1>6, <1>7 DEF ListLive
<1> QED
  BY <1>2, <1>8

(* What links a node behind those of s. *)
PushL(c, s, n) ==
  {<<c, "tail", n>>, <<c, "size", Len(s) + 1>>}
    \cup (IF s = <<>> THEN {<<c, "header", n>>} ELSE {<<s[Len(s)], "next", n>>})

PushTo(c, n, v) == IF mem[c].size = 0 THEN push_first(c, n, v) ELSE push_linked(c, n, v)

(* The writes ws of a push: w is one of links, those of R0 come before it. *)
PushParts(ws, R0, L, F, P, w, Q, n) ==
  /\ Parts(ws, P, w, Q, n) /\ P \cup {w} \cup Q = (R0 \cup L) \cup F
  /\ \A x \in P : x \in R0 \/ x[2] = "tail"
  /\ w \in L /\ w[2] \in {"next", "header"}
  /\ \A x \in Q : x \in F \/ (x[2] \in {"tail", "size"})

(* The parts of a sequence of three. *)
LEMMA PartsThree ==
  ASSUME NEW a, NEW b, NEW c
  PROVE  Parts(<<a, b, c>>, {a}, b, {c}, 2)
<1>1. PICK s : s = <<a, b, c>>
  OBVIOUS
<1>2. Len(s) = 3 /\ s[1] = a /\ s[2] = b /\ s[3] = c
  BY <1>1
<1>3. Lists(s, {a} \cup {b} \cup {c})
  <2>1. {a} \cup {b} \cup {c} = {a, b, c}
    OBVIOUS
  <2> QED
    BY <1>1, <2>1, ThreeOf
<1>4. Parts(s, {a}, b, {c}, 2)
  BY <1>2, <1>3 DEF Parts
<1> QED
  BY <1>1, <1>4

(* The writes of a push: the new node first, and one write by which it is  *)
(* reached.                                                                *)
LEMMA PushPartsIs ==
  ASSUME NEW c, NEW s \in Seq(Blks), mem[c].size = Len(s), s # <<>> => mem[c].tail = s[Len(s)],
         NEW n, NEW v, NEW S, NEW A, Lists(S, A), NEW T, NEW F, Lists(T, F)
  PROVE  /\ \E P, w, Q, i : PushParts((S \o PushTo(c, n, v)) \o T, A \cup NodeW(n, v), PushL(c, s, n), F, P, w, Q, i)
         /\ Lists(S \o PushTo(c, n, v), (A \cup NodeW(n, v)) \cup PushL(c, s, n))
<1>1. PICK B, L : B = NodeW(n, v) /\ L = PushL(c, s, n)
  OBVIOUS
<1>2. PICK x1, x2, x3, x4, x5 : /\ x1 = <<c, "tail", n>> /\ x2 = <<c, "header", n>> /\ x3 = <<c, "size", 1>>
                                /\ x4 = <<s[Len(s)], "next", n>> /\ x5 = <<c, "size", Len(s) + 1>>
  OBVIOUS
<1>3. x1[2] = "tail" /\ x2[2] = "header" /\ x3[2] = "size" /\ x4[2] = "next" /\ x5[2] = "size"
  BY <1>2
<1>4. Lists(node_new(n, v), B)
  BY <1>1, FirstLists
<1>5. CASE s = <<>>
  <2>1. mem[c].size = 0 /\ x5 = x3
    BY <1>2, <1>5
  <2>2. PushTo(c, n, v) = node_new(n, v) \o <<x1, x2, x3>>
    BY <1>2, <2>1 DEF PushTo, push_first, W
  <2>3. Parts(<<x1, x2, x3>>, {x1}, x2, {x3}, 2)
    BY PartsThree
  <2>4. PICK i : Parts(PushTo(c, n, v), B \cup {x1}, x2, {x3}, i)
    <3>1. PICK u : u = <<x1, x2, x3>>
      OBVIOUS
    <3>2. Parts(u, {x1}, x2, {x3}, 2)
      BY <2>3, <3>1
    <3>3. Parts(node_new(n, v) \o u, B \cup {x1}, x2, {x3}, Len(node_new(n, v)) + 2)
      BY <1>4, <3>2, PartsBehind
    <3> QED
      BY <2>2, <3>1, <3>3
  <2>5. PICK j : Parts(S \o PushTo(c, n, v), A \cup (B \cup {x1}), x2, {x3}, j)
    BY <2>4, PartsBehind
  <2>6. Parts((S \o PushTo(c, n, v)) \o T, A \cup (B \cup {x1}), x2, {x3} \cup F, j)
    BY <2>5, PartsBefore
  <2>7. L = {x1, x3} \cup {x2}
    BY <1>1, <1>2, <1>5, <2>1 DEF PushL
  <2>8. /\ (A \cup (B \cup {x1})) \cup {x2} \cup ({x3} \cup F) = ((A \cup B) \cup L) \cup F
        /\ (A \cup (B \cup {x1})) \cup {x2} \cup {x3} = (A \cup B) \cup L
    BY ONLY <2>7, Zenon
  <2>9. PushParts((S \o PushTo(c, n, v)) \o T, A \cup B, L, F, A \cup (B \cup {x1}), x2, {x3} \cup F, j)
    BY <1>3, <2>6, <2>7, <2>8 DEF PushParts
  <2>10. Lists(S \o PushTo(c, n, v), (A \cup B) \cup L)
    BY <2>5, <2>8 DEF Parts
  <2> QED
    BY <1>1, <2>9, <2>10
<1>6. CASE s # <<>>
  <2>1. mem[c].size # 0 /\ mem[c].tail = s[Len(s)]
    BY <1>6
  <2>2. PushTo(c, n, v) = (node_new(n, v) \o <<x4, x1>>) \o <<x5>>
    BY <1>2, <2>1 DEF PushTo, push_linked, Count, W
  <2>3. Parts(<<x4, x1>>, {}, x4, {x1}, 1)
    BY PartsTwo
  <2>4. PICK i : Parts(node_new(n, v) \o <<x4, x1>>, B \cup {}, x4, {x1}, i)
    BY <1>4, <2>3, PartsBehind
  <2>5. Parts(PushTo(c, n, v), B \cup {}, x4, {x1} \cup {x5}, i)
    <3>1. PICK u : u = <<x5>>
      OBVIOUS
    <3>2. Lists(u, {x5})
      BY <3>1, OneOf
    <3>3. Parts((node_new(n, v) \o <<x4, x1>>) \o u, B \cup {}, x4, {x1} \cup {x5}, i)
      BY <2>4, <3>2, PartsBefore
    <3> QED
      BY <2>2, <3>1, <3>3
  <2>6. PICK j : Parts(S \o PushTo(c, n, v), A \cup (B \cup {}), x4, {x1} \cup {x5}, j)
    BY <2>5, PartsBehind
  <2>7. Parts((S \o PushTo(c, n, v)) \o T, A \cup (B \cup {}), x4, ({x1} \cup {x5}) \cup F, j)
    BY <2>6, PartsBefore
  <2>8. L = {x1, x5} \cup {x4}
    BY <1>1, <1>2, <1>6 DEF PushL
  <2>9. /\ (A \cup (B \cup {})) \cup {x4} \cup (({x1} \cup {x5}) \cup F) = ((A \cup B) \cup L) \cup F
        /\ (A \cup (B \cup {})) \cup {x4} \cup ({x1} \cup {x5}) = (A \cup B) \cup L
    BY ONLY <2>8, Zenon
  <2>10. PushParts((S \o PushTo(c, n, v)) \o T, A \cup B, L, F, A \cup (B \cup {}), x4, ({x1} \cup {x5}) \cup F, j)
    BY <1>3, <2>7, <2>8, <2>9 DEF PushParts
  <2>11. Lists(S \o PushTo(c, n, v), (A \cup B) \cup L)
    BY <2>6, <2>9 DEF Parts
  <2> QED
    BY <1>1, <2>10, <2>11
<1> QED
  BY <1>5, <1>6

(* The list that a call finds. *)
Found(m, C, k, c, s, u) ==
  /\ c = m[C.ent[k]].val.addr /\ s = C.ns[k] /\ u = C.kv[k].texts /\ C.kv[k] = [kind |-> "list", texts |-> u]
  /\ ListLive(m, C.own, c, s, k, u)
  /\ m[c].size = Len(s) /\ (s # <<>> => m[c].tail = s[Len(s)])

(* A list at rest, and what its chain says of its size and tail. *)
LEMMA ListFound ==
  ASSUME NEW m, NEW C, Rest(m, C), NEW k \in ListKeys, C.ent[k] # NIL
  PROVE  Found(m, C, k, m[C.ent[k]].val.addr, C.ns[k], C.kv[k].texts)
<1>1. LiveIn(m, C) /\ EndsOK(m, C)
  BY DEF Rest
<1>2. /\ EntryLive(m, C.own, C.ent[k], k) /\ m[C.ent[k]].val.type = CHAIN
      /\ C.kv[k] = [kind |-> "list", texts |-> C.kv[k].texts]
      /\ ListLive(m, C.own, m[C.ent[k]].val.addr, C.ns[k], k, C.kv[k].texts)
  BY <1>1, ChainIs
<1> QED
  BY <1>1, <1>2 DEF Found, EndsOK

(* The blocks of a list. *)
LEMMA FoundBlocks ==
  ASSUME NEW m, NEW C, NEW k, NEW c, NEW s, NEW u, Found(m, C, k, c, s, u)
  PROVE  /\ c \in Blks /\ c \in DOMAIN m /\ c[1] = "chain" /\ C.own[c] = <<"chain", k, NIL>>
         /\ s \in Seq(Blks) /\ u \in Seq(Texts) /\ Len(u) = Len(s)
         /\ \A j \in 1 .. Len(s) : /\ s[j] \in Blks /\ s[j] \in DOMAIN m /\ s[j][1] = "node"
                                   /\ C.own[s[j]] = <<"node", k, NIL>> /\ m[s[j]].next = Nth(s, j + 1)
<1>1. ListLive(m, C.own, c, s, k, u)
  BY DEF Found
<1>2. Has(m, C.own, c, {"chain"}, <<"chain", k, NIL>>) /\ s \in Seq(Blks) /\ u \in Seq(Texts) /\ Len(u) = Len(s)
  BY <1>1 DEF ListLive
<1>3. ASSUME NEW j \in 1 .. Len(s)
      PROVE  /\ s[j] \in Blks /\ s[j] \in DOMAIN m /\ s[j][1] = "node"
             /\ C.own[s[j]] = <<"node", k, NIL>> /\ m[s[j]].next = Nth(s, j + 1)
  <2>1. NodeLive(m, C.own, s[j], Nth(s, j + 1), k, u[j])
    BY <1>1 DEF ListLive
  <2> QED
    BY <2>1 DEF NodeLive, Has
<1> QED
  BY <1>2, <1>3 DEF Has

(* What the writes to the chain and its last node write. *)
LEMMA PushCells ==
  ASSUME NEW c, NEW s, NEW n, NEW w \in PushL(c, s, n)
  PROVE  /\ \/ w[1] = c /\ w[2] \in {"tail", "header"} /\ w[3] = n
            \/ w[1] = c /\ w[2] = "size" /\ w[3] = Len(s) + 1
            \/ s # <<>> /\ w[1] = s[Len(s)] /\ w[2] = "next" /\ w[3] = n
         /\ w[2] = "header" => s = <<>>
<1>1. \/ w = <<c, "tail", n>>
      \/ w = <<c, "size", Len(s) + 1>>
      \/ s = <<>> /\ w = <<c, "header", n>>
      \/ s # <<>> /\ w = <<s[Len(s)], "next", n>>
  BY DEF PushL
<1> QED
  BY <1>1

(* What a push writes: A and B in blocks of its own, and links. *)
PushW(c, s, n, R0, F) == (R0 \cup PushL(c, s, n)) \cup F

(* The writes of a push may be made together, beside the blocks of other   *)
(* keys.                                                                   *)
LEMMA PushWrites ==
  ASSUME NEW m, NEW C, NEW k, NEW c, NEW s, NEW u, Found(m, C, k, c, s, u), NEW n \in Blks,
         NEW R0, Writable(m, R0),
         \A w \in R0 : /\ w[1] \in Blks /\ C.own[w[1]] = FREE /\ w[2] # "free"
                       /\ w[2] = "next" /\ w[1][1] = "entry" => w[3] \in Ends,
         NEW F, AreFrees(F, m), NEW R, R = PushW(c, s, n, R0, F)
  PROVE  Writable(m, R) /\ Beside(R, C.own, k)
<1>1. PICK L : L = PushL(c, s, n)
  OBVIOUS
<1>2. /\ c \in Blks /\ c \in DOMAIN m /\ c[1] = "chain" /\ C.own[c] = <<"chain", k, NIL>> /\ s \in Seq(Blks)
      /\ \A j \in 1 .. Len(s) : /\ s[j] \in Blks /\ s[j] \in DOMAIN m /\ s[j][1] = "node"
                                /\ C.own[s[j]] = <<"node", k, NIL>>
  BY FoundBlocks
<1>3. PICK l : l = s[Len(s)]
  OBVIOUS
<1>4. s # <<>> => l \in Blks /\ l \in DOMAIN m /\ l[1] = "node" /\ C.own[l] = <<"node", k, NIL>>
  <2> SUFFICES ASSUME s # <<>> PROVE Len(s) \in 1 .. Len(s)
    BY <1>2, <1>3
  <2> QED
    BY <1>2
<1>5. ASSUME NEW w \in L
      PROVE  /\ \/ w[1] = c /\ w[2] \in {"tail", "header"} /\ w[3] = n
                \/ w[1] = c /\ w[2] = "size" /\ w[3] = Len(s) + 1
                \/ s # <<>> /\ w[1] = l /\ w[2] = "next" /\ w[3] = n
  BY <1>1, <1>3, PushCells
<1>6. {"header", "tail", "size"} \subseteq Fields("chain") /\ "next" \in Fields("node")
  BY DEF Fields
<1>7. n \in Addr /\ (s # <<>> => c # l)
  BY <1>2, <1>4, Apart
<1>8. Writable(m, L)
  <2>1. ASSUME NEW w \in L PROVE w[1] \in DOMAIN m /\ w[2] \in Fields(w[1][1]) \cup {"free"}
    BY <1>2, <1>4, <1>5, <1>6
  <2>2. ASSUME NEW w \in L, w[2] \in {"next", "header"} PROVE w[3] \in Addr
    BY <1>5, <1>7, <2>2
  <2>3. ASSUME NEW x \in L, NEW w \in L, x[1] = w[1], x[2] = w[2] PROVE x[3] = w[3]
    BY <1>5, <2>3
  <2> QED
    BY <2>1, <2>2, <2>3 DEF Writable
<1>9. \A w \in L : w[1] \in Blks /\ C.own[w[1]] # FREE /\ C.own[w[1]][2] = k /\ w[1][1] \in {"chain", "node"} /\ w[2] \in Links
  BY <1>2, <1>4, <1>5 DEF FREE, Links
<1>10. Writable(m, R0 \cup L)
  <2>1. \A x \in R0, w \in L : x[1] = w[1] /\ x[2] = w[2] => x[2] = "free"
    BY <1>9
  <2> QED
    BY <1>8, <2>1, WritableCat
<1>11. Writable(m, F)
  BY DEF Writable, AreFrees
<1>12. \A x \in R0 \cup L, w \in F : x[1] = w[1] /\ x[2] = w[2] => x[2] = "free"
  BY DEF AreFrees
<1>13. Writable(m, R)
  BY <1>1, <1>10, <1>11, <1>12, WritableCat DEF PushW
<1>14. \A w \in R : w \in R0 \/ w \in L \/ w[2] = "free"
  BY <1>1 DEF PushW, AreFrees
<1> QED
  BY <1>9, <1>13, <1>14 DEF Beside

(* The writes R push the text t in the node n to the list s of k. *)
PushPlan(m, C, k, c, s, u, n, t, R, own2, s2, v2) ==
  /\ Found(m, C, k, c, s, u) /\ Shaped(m) /\ \A b \in Blks : C.own[b] # FREE => b \in DOMAIN m
  /\ n \in Blks /\ C.own[n] = FREE /\ t \in Texts
  /\ Beside(R, C.own, k) /\ PushL(c, s, n) \subseteq R
  /\ \A w \in R : w \in PushL(c, s, n) \/ w[2] = "free" \/ C.own[w[1]] = FREE
  /\ \A b \in Blks : C.own[b] # FREE => own2[b] = C.own[b]
  /\ s2 = Append(s, n) /\ v2 = [kind |-> "list", texts |-> Append(u, t)]

(* The list after a push. *)
LEMMA PushDone ==
  ASSUME NEW m, NEW C, NEW k, NEW c, NEW s, NEW u, NEW n, NEW t, NEW R, NEW own2, NEW s2, NEW v2,
         PushPlan(m, C, k, c, s, u, n, t, R, own2, s2, v2), NEW fin, Made(m, R, fin),
         NodeLive(fin, own2, n, NIL, k, t)
  PROVE  ListDone(fin, own2, c, s2, k, v2)
<1>. /\ Found(m, C, k, c, s, u) /\ Shaped(m) /\ \A b \in Blks : C.own[b] # FREE => b \in DOMAIN m
     /\ n \in Blks /\ C.own[n] = FREE /\ t \in Texts
     /\ Beside(R, C.own, k) /\ PushL(c, s, n) \subseteq R
     /\ \A w \in R : w \in PushL(c, s, n) \/ w[2] = "free" \/ C.own[w[1]] = FREE
     /\ \A b \in Blks : C.own[b] # FREE => own2[b] = C.own[b]
     /\ s2 = Append(s, n) /\ v2 = [kind |-> "list", texts |-> Append(u, t)]
  BY DEF PushPlan
<1>1. /\ c \in Blks /\ c \in DOMAIN m /\ c[1] = "chain" /\ C.own[c] = <<"chain", k, NIL>> /\ s \in Seq(Blks)
      /\ \A j \in 1 .. Len(s) : /\ s[j] \in Blks /\ s[j] \in DOMAIN m /\ s[j][1] = "node"
                                /\ C.own[s[j]] = <<"node", k, NIL>> /\ m[s[j]].next = Nth(s, j + 1)
  BY FoundBlocks
<1>2. PICK l : l = Len(s)
  OBVIOUS
<1>3. /\ l \in Nat /\ s2 \in Seq(Blks) /\ Len(s2) = l + 1 /\ s2[l + 1] = n /\ s2 # <<>>
      /\ \A j \in 1 .. l : s2[j] = s[j]
      /\ s = <<>> <=> l = 0
  BY <1>1, <1>2
<1>4. SameBlocks(m, C.own, fin, own2, k)
  <2> SUFFICES ASSUME NEW b \in Blks, C.own[b] # FREE
               PROVE  /\ own2[b] = C.own[b] /\ b \in DOMAIN fin
                      /\ \A f \in Fields(b[1]) \ Links : fin[b][f] = m[b][f]
    BY DEF SameBlocks
  <2>1. b \in DOMAIN m /\ DOMAIN fin = DOMAIN m
    BY DEF Made
  <2>2. ASSUME NEW f \in Fields(b[1]) \ Links, fin[b][f] # m[b][f] PROVE FALSE
    <3>1. PICK w \in R : w[1] = b /\ w[2] = f
      BY <2>1, <2>2 DEF Made
    <3>2. f # "free"
      BY <2>1, NoFree
    <3> QED
      BY <3>1, <3>2, <2>2 DEF Beside
  <2> QED
    BY <2>1, <2>2
<1>5. ASSUME NEW b \in DOMAIN m, b \in Blks, C.own[b] # FREE, NEW f \in Fields(b[1]), fin[b][f] # m[b][f]
      PROVE  \E w \in PushL(c, s, n) : w[1] = b /\ w[2] = f
  <2>1. PICK w \in R : w[1] = b /\ w[2] = f
    BY <1>5 DEF Made
  <2>2. f # "free"
    BY NoFree
  <2> QED
    BY <1>5, <2>1, <2>2
<1>6. fin[c].tail = n /\ fin[c].size = l + 1
  <2>1. PICK x, y : x = <<c, "tail", n>> /\ y = <<c, "size", l + 1>>
    OBVIOUS
  <2>2. x \in R /\ y \in R
    BY <1>2, <2>1 DEF PushL
  <2> QED
    BY <2>1, <2>2 DEF Made
<1>7. fin[c].header = Nth(s2, 1)
  <2>1. CASE s = <<>>
    <3>1. PICK x : x = <<c, "header", n>>
      OBVIOUS
    <3>2. x \in R
      BY <2>1, <3>1 DEF PushL
    <3>3. fin[c].header = n
      BY <3>1, <3>2 DEF Made
    <3> QED
      BY <1>3, <2>1, <3>3 DEF Nth
  <2>2. CASE s # <<>>
    <3>1. m[c].header = Nth(s, 1)
      BY Zenon DEF Found, ListLive
    <3>2. 1 \in 1 .. l /\ 1 \in 1 .. Len(s2)
      BY <1>3, <2>2
    <3>3. Nth(s, 1) = Nth(s2, 1)
      BY <1>2, <1>3, <3>2 DEF Nth
    <3>4. "header" \in Fields(c[1]) /\ C.own[c] # FREE
      BY <1>1 DEF Fields, FREE
    <3>5. fin[c].header = m[c].header
      <4> SUFFICES ASSUME fin[c].header # m[c].header PROVE FALSE
        OBVIOUS
      <4>1. PICK w \in PushL(c, s, n) : w[1] = c /\ w[2] = "header"
        BY Zenon, <1>1, <1>5, <3>4
      <4> QED
        BY <2>2, <4>1, PushCells
    <3> QED
      BY Zenon, <3>1, <3>3, <3>5
  <2> QED
    BY <2>1, <2>2
<1>8. ASSUME NEW j \in 1 .. Len(s) PROVE fin[s[j]].next = Nth(s2, j + 1)
  <2>1. CASE j = l
    <3>1. PICK x : x = <<s[Len(s)], "next", n>>
      OBVIOUS
    <3>2. x \in R
      BY <1>2, <1>3, <2>1, <3>1 DEF PushL
    <3>3. fin[s[Len(s)]].next = n
      BY <3>1, <3>2 DEF Made
    <3>4. Nth(s2, l + 1) = n
      BY <1>3 DEF Nth
    <3> QED
      BY <1>2, <2>1, <3>3, <3>4
  <2>2. CASE j # l
    <3>1. j \in 1 .. l /\ j + 1 \in 1 .. l /\ j + 1 \in 1 .. Len(s2)
      BY <1>2, <1>3, <2>2
    <3>2. Nth(s, j + 1) = Nth(s2, j + 1)
      BY <1>2, <1>3, <3>1 DEF Nth
    <3>3. PICK b : b = s[j]
      OBVIOUS
    <3>4. b \in DOMAIN m /\ b \in Blks /\ C.own[b] # FREE /\ "next" \in Fields(b[1]) /\ m[b].next = Nth(s, j + 1)
      BY <1>1, <3>3 DEF Fields, FREE
    <3>5. b # s[Len(s)]
      <4>1. \A i1, i2 \in 1 .. Len(s) : s[i1] = s[i2] => i1 = i2
        BY Zenon DEF Found, ListLive
      <4>2. l \in 1 .. Len(s)
        BY <1>2, <3>1
      <4> QED
        BY <1>2, <2>2, <3>3, <4>1, <4>2
    <3>6. fin[b].next = m[b].next
      <4> SUFFICES ASSUME fin[b].next # m[b].next PROVE FALSE
        OBVIOUS
      <4>1. PICK w \in PushL(c, s, n) : w[1] = b /\ w[2] = "next"
        BY <1>5, <3>4
      <4> QED
        BY <3>5, <4>1, PushCells
    <3> QED
      BY <3>2, <3>3, <3>4, <3>6
  <2> QED
    BY <2>1, <2>2
<1>9. ListLive(fin, own2, c, s2, k, Append(u, t))
  <2>1. ListLive(m, C.own, c, s, k, u)
    BY Zenon DEF Found
  <2> QED
    BY ONLY <1>4, <1>7, <1>8, <2>1, n \in Blks, C.own[n] = FREE, t \in Texts, NodeLive(fin, own2, n, NIL, k, t),
            s2 = Append(s, n), PushLive
<1>10. v2 = [kind |-> "list", texts |-> v2.texts] /\ v2.texts = Append(u, t)
  OBVIOUS
<1> QED
  BY <1>3, <1>6, <1>9, <1>10 DEF ListDone

(* What a call finds is there when it has taken its blocks. *)
LEMMA FoundThen ==
  ASSUME NEW C, Ready(C), NEW k \in ListKeys, EntryOf(k) # NIL, NEW op, NEW cs \in Seq(Classes), NEW ws,
         Begin(op, k, cs, ws)
  PROVE  /\ C.ent[k] # NIL /\ ChainOf(k) = mem[C.ent[k]].val.addr
         /\ Found(mem, C, k, ChainOf(k), C.ns[k], C.kv[k].texts)
         /\ Found(mem', C, k, ChainOf(k), C.ns[k], C.kv[k].texts)
<1>1. k \in Keys
  BY DEF Keys
<1>2. EntryOf(k) = C.ent[k]
  BY <1>1, FoundIs
<1>3. Rest(mem, C) /\ Rest(mem', C) /\ \A b \in DOMAIN mem : mem'[b] = mem[b]
  BY ONLY Ready(C), cs \in Seq(Classes), Begin(op, k, cs, ws), BeginIs DEF Ready
<1>4. mem'[C.ent[k]] = mem[C.ent[k]]
  <2>1. EntryLive(mem, C.own, C.ent[k], k)
    BY <1>1, <1>2, <1>3 DEF Rest, LiveIn, Live, KeyLive
  <2>2. C.ent[k] \in DOMAIN mem
    BY <2>1 DEF EntryLive, Has
  <2> QED
    BY <1>3, <2>2
<1>5. Found(mem, C, k, mem[C.ent[k]].val.addr, C.ns[k], C.kv[k].texts)
  BY <1>2, <1>3, ListFound
<1>6. Found(mem', C, k, mem'[C.ent[k]].val.addr, C.ns[k], C.kv[k].texts)
  <2>1. PICK m : m = mem'
    OBVIOUS
  <2>2. Found(m, C, k, m[C.ent[k]].val.addr, C.ns[k], C.kv[k].texts)
    BY <1>2, <1>3, <2>1, ListFound
  <2> QED
    BY <2>1, <2>2
<1> QED
  BY <1>2, <1>4, <1>5, <1>6 DEF ChainOf

(* touchdb_list_push begins soundly for a list that is there. *)
LEMMA PushStarts ==
  ASSUME NEW C, Ready(C), ops < MAX_OPS, NEW k \in ListKeys, NEW t \in Texts, touchdb_list_push(k, t),
         view' = View'
  PROVE  \E N, fin, n : Sound(C, N, fin, n)'
<1>1. PICK cs : cs = <<"pair", "pair", ListTextClass, "node">>
  OBVIOUS
<1>2. /\ cs \in Seq(Classes) /\ Len(cs) = 4 /\ cs[1] = "pair" /\ cs[2] = "pair" /\ cs[3] = ListTextClass
      /\ cs[4] = "node"
  BY <1>1, ShmAssumption DEF Classes
<1>3. PICK a : a = Blocks(cs)
  OBVIOUS
<1>4. /\ \A i \in 1 .. Len(cs) : a[i] \in Asked(cs) /\ a[i][1] = cs[i] /\ a[i] \in Blks
      /\ \A i, j \in 1 .. Len(cs) : a[i] = a[j] => i = j
  BY Zenon, <1>2, <1>3, AskedIs
<1>5. PICK v, s, d, n : v = a[1] /\ s = a[2] /\ d = a[3] /\ n = a[4]
  OBVIOUS
<1>6. /\ v \in Asked(cs) /\ s \in Asked(cs) /\ d \in Asked(cs) /\ n \in Asked(cs)
      /\ v \in Blks /\ s \in Blks /\ d \in Blks /\ n \in Blks
      /\ v[1] = "pair" /\ s[1] = "pair" /\ d[1] = ListTextClass /\ n[1] = "node"
  BY <1>2, <1>4, <1>5
<1>7. v # s /\ v # d /\ v # n /\ s # d /\ s # n /\ d # n
  BY <1>2, <1>4, <1>5
<1>8. PICK c, l, u : c = ChainOf(k) /\ l = C.ns[k] /\ u = C.kv[k].texts
  OBVIOUS
<1>9. PICK S, T : S = touchdb_str_new2(v, s, d, t) /\ T = <<Free(v)>>
  OBVIOUS
<1>10. PICK ws : ws = (S \o PushTo(c, n, Val(STR, s))) \o T
  OBVIOUS
<1>11. Begin("list_push", k, cs, ws)
  BY <1>1, <1>3, <1>5, <1>8, <1>9, <1>10 DEF touchdb_list_push, PushTo
<1>12. EntryOf(k) # NIL
  BY DEF touchdb_list_push
<1>13. cs \in Seq(Classes)
  BY <1>2
<1>14. /\ C.ent[k] # NIL /\ c = mem[C.ent[k]].val.addr
       /\ Found(mem, C, k, c, l, u) /\ Found(mem', C, k, c, l, u)
  <2>1. /\ C.ent[k] # NIL /\ ChainOf(k) = mem[C.ent[k]].val.addr
        /\ Found(mem, C, k, ChainOf(k), C.ns[k], C.kv[k].texts)
        /\ Found(mem', C, k, ChainOf(k), C.ns[k], C.kv[k].texts)
    BY ONLY Ready(C), k \in ListKeys, <1>11, <1>12, <1>13, FoundThen
  <2> QED
    BY <1>8, <2>1
<1>15. PICK A, B, R0, F : A = StrW(v, s, d, t) /\ B = NodeW(n, Val(STR, s)) /\ R0 = A \cup B /\ F = {Free(v)}
  OBVIOUS
<1>16. Lists(S, A) /\ Lists(T, F) /\ Once(T)
  <2>1. Len(<<Free(v)>>) = 1
    BY ONLY LenOfOne
  <2> QED
    BY <1>9, <1>15, <2>1, StrLists, OneOf DEF Once
<1>17. mem[c].size = Len(l) /\ (l # <<>> => mem[c].tail = l[Len(l)])
  BY <1>14 DEF Found
<1>18. l \in Seq(Blks) /\ u \in Seq(Texts) /\ Len(u) = Len(l) /\ c \in Blks /\ C.own[c] # FREE
  <2>1. l \in Seq(Blks) /\ u \in Seq(Texts) /\ Len(u) = Len(l) /\ c \in Blks /\ C.own[c] = <<"chain", k, NIL>>
    <3>1. Found(mem, C, k, c, l, u)
      BY <1>14
    <3> QED
      BY ONLY <3>1, FoundBlocks
  <2>2. <<"chain", k, NIL>> # FREE
    BY Zenon DEF FREE
  <2> QED
    BY ONLY <2>1, <2>2
<1>19. /\ \E P, w, Q, i : PushParts(ws, R0, PushL(c, l, n), F, P, w, Q, i)
       /\ Lists(S \o PushTo(c, n, Val(STR, s)), R0 \cup PushL(c, l, n))
  <2>1. /\ \E P, w, Q, i : PushParts((S \o PushTo(c, n, Val(STR, s))) \o T, A \cup NodeW(n, Val(STR, s)),
                                     PushL(c, l, n), F, P, w, Q, i)
        /\ Lists(S \o PushTo(c, n, Val(STR, s)), (A \cup NodeW(n, Val(STR, s))) \cup PushL(c, l, n))
    BY ONLY <1>16, <1>17, <1>18, PushPartsIs
  <2> QED
    BY <1>10, <1>15, <2>1
<1>20. PICK P, w, Q, i : PushParts(ws, R0, PushL(c, l, n), F, P, w, Q, i)
  BY <1>19
<1>21. /\ Rest(mem', C) /\ \A b \in Asked(cs) : b \in Blks /\ C.own[b] = FREE /\ b \in DOMAIN mem'
  BY ONLY Ready(C), <1>11, <1>13, BeginIs
<1>22. StrBlocks(mem', v, s, d) /\ NodeBlock(mem', n)
  BY <1>6, <1>7, <1>21 DEF StrBlocks, NodeBlock
<1>23. /\ Writable(mem', A)
       /\ \A x \in A : /\ x[1] \in {v, s, d} /\ x[2] \in {"val", "h1", "h2", "next"}
                       /\ x[2] = "next" => x[3] \in Ends
  BY ONLY <1>15, <1>22, StrWrites
<1>24. /\ Writable(mem', B)
       /\ \A x \in B : x[1] = n /\ x[2] \in {"next", "val"} /\ (x[2] = "next" => x[3] = NIL)
  BY ONLY <1>15, <1>22, NodeWrites
<1>25. Writable(mem', R0)
  <2>1. \A x \in A, y \in B : x[1] = y[1] /\ x[2] = y[2] => x[2] = "free"
    BY <1>7, <1>23, <1>24
  <2> QED
    BY ONLY <1>15, <1>23, <1>24, <2>1, WritableCat
<1>26. \A x \in R0 : /\ x[1] \in Blks /\ C.own[x[1]] = FREE /\ x[2] # "free"
                     /\ x[2] = "next" /\ x[1][1] = "entry" => x[3] \in Ends
  BY <1>6, <1>15, <1>21, <1>23, <1>24
<1>27. PICK R : R = PushW(c, l, n, R0, F)
  OBVIOUS
<1>28. P \cup {w} \cup Q = R /\ PushL(c, l, n) \subseteq R /\ R0 \subseteq R /\ R = (R0 \cup PushL(c, l, n)) \cup F
  BY <1>20, <1>27 DEF PushParts, PushW
<1>29. \A x \in F : x = Free(v) /\ x[1] = v /\ x[2] = "free"
  BY <1>15 DEF Free
<1>30. Writable(mem', R) /\ Beside(R, C.own, k)
  <2>1. AreFrees(F, mem')
    BY <1>6, <1>21, <1>29 DEF AreFrees
  <2>2. n \in Blks
    BY <1>6
  <2> QED
    BY ONLY <1>14, <1>25, <1>26, <1>27, <2>1, <2>2, PushWrites
<1>31. PICK own2 : own2 = [b \in Blks |-> CASE b = s -> <<"str", k, n>>
                                            [] b = d -> <<"text", k, s>>
                                            [] b = n -> <<"node", k, NIL>>
                                            [] OTHER -> C.own[b]]
  OBVIOUS
<1>32. /\ own2[s] = <<"str", k, n>> /\ own2[d] = <<"text", k, s>> /\ own2[n] = <<"node", k, NIL>>
       /\ \A b \in Blks \ {s, d, n} : own2[b] = C.own[b]
  BY <1>6, <1>7, <1>31
<1>33. \A b \in Blks : C.own[b] # FREE => own2[b] = C.own[b]
  BY <1>6, <1>21, <1>32
<1>34. ListOwns(C, own2, "list_push", k, Asked(cs))
  <2>1. \A b \in Blks : C.own[b] = <<"key", k, NIL>> => C.own[b] # FREE
    BY DEF FREE
  <2>2. \A b \in Blks : C.own[b][1] = "entry" => C.own[b] # FREE
    BY DEF FREE
  <2>3. \A b \in Blks : own2[b] = C.own[b] \/ own2[b] = FREE \/ b \in Asked(cs)
    BY <1>6, <1>32
  <2> QED
    BY ONLY <1>33, <2>1, <2>2, <2>3 DEF ListOwns
<1>35. PICK s2, v2 : s2 = Append(l, n) /\ v2 = [kind |-> "list", texts |-> Append(u, t)]
  OBVIOUS
<1>36. ListGrows(C.ns[k], s2, "list_push")
  <2>1. Len(l) <= ops /\ ops \in Nat /\ Len(l) \in Nat
    <3>1. k \in Keys /\ ops \in 0 .. MAX_OPS /\ Short(C.es, C.ns, ops)
      BY DEF Keys, Ready
    <3>2. Len(C.ns[k]) <= ops /\ ops \in Nat
      BY <3>1, ShmAssumption DEF Short
    <3> QED
      BY <1>8, <1>18, <3>2
  <2>2. s2 \in Seq(Blks) /\ Len(s2) = Len(l) + 1 /\ \A j \in 1 .. Len(l) : s2[j] = l[j]
    BY <1>6, <1>18, <1>35
  <2>3. ListGrows(l, s2, "list_push")
    BY ONLY <2>1, <2>2 DEF ListGrows
  <2> QED
    BY ONLY <1>8, <2>3
<1>37. Changed("list_push", k, C.kv, [C.kv EXCEPT ![k] = v2])
  <2>1. C.kv[k].kind = "list" /\ C.kv[k].texts = u
    BY <1>8, <1>14 DEF Found
  <2>2. PICK kv : kv = C.kv
    OBVIOUS
  <2>3. [kv EXCEPT ![k] = v2]
          = [kv EXCEPT ![k] = [kind |-> "list", texts |-> IF @.kind = "list" THEN Append(@.texts, t) ELSE <<t>>]]
    BY <1>35, <2>1, <2>2
  <2> QED
    BY SMTT(30), <2>2, <2>3 DEF Changed
<1>38. ASSUME NEW fin, Made(mem', R, fin) PROVE ListDone(fin, own2, c, s2, k, v2)
  <2>1. StrW(v, s, d, t) \subseteq R /\ NodeW(n, Val(STR, s)) \subseteq R
    BY <1>15, <1>28
  <2>2. StrOwned(own2, s, d, k, <<"str", k, n>>) /\ own2[n] = <<"node", k, NIL>>
    BY <1>32 DEF StrOwned
  <2>3. NodeLive(fin, own2, n, NIL, k, t)
    BY ONLY <1>22, <1>38, <2>1, <2>2, NewNode
  <2>4. \A x \in R : x \in PushL(c, l, n) \/ x[2] = "free" \/ C.own[x[1]] = FREE
    BY <1>26, <1>28, <1>29
  <2>5. Shaped(mem') /\ \A b \in Blks : C.own[b] # FREE => b \in DOMAIN mem'
    BY <1>21 DEF Rest
  <2>6. n \in Blks /\ C.own[n] = FREE /\ PushL(c, l, n) \subseteq R
    BY <1>6, <1>21, <1>28
  <2> QED
    <3>1. PushPlan(mem', C, k, c, l, u, n, t, R, own2, s2, v2)
      BY <1>14, <1>30, <1>33, <1>35, <2>4, <2>5, <2>6 DEF PushPlan
    <3> QED
      BY ONLY <1>38, <2>3, <3>1, PushDone
<1>39. Parts(ws, P, w, Q, i)
  BY <1>20 DEF PushParts
<1>40. Once(ws)
  <2>1. ASSUME NEW x \in R0 \cup PushL(c, l, n) PROVE x[2] # "free"
    BY <1>26, PushCells
  <2> QED
    BY <1>10, <1>16, <1>19, <2>1, OnceCat
<1>41. \A x \in P : x[2] # "free" /\ (x[2] = "tail" \/ (x[1] \in Blks /\ C.own[x[1]] = FREE))
  BY <1>20, <1>26 DEF PushParts
<1>42. w[2] \in {"next", "header"}
  BY <1>20 DEF PushParts
<1>43. \A x \in Q : /\ x[2] \in {"tail", "size", "free"} \/ (x[1] \in Blks /\ own2[x[1]] = FREE)
                    /\ x[2] # "next"
                    /\ x[2] = "free" => /\ x[1] \in Blks /\ own2[x[1]] = FREE
                                        /\ C.own[x[1]] # FREE \/ x[1] \in Asked(cs)
  <2>1. own2[v] = FREE
    BY <1>6, <1>7, <1>21, <1>32
  <2>2. \A x \in Q : x \in F \/ x[2] \in {"tail", "size"}
    BY Zenon, <1>20 DEF PushParts
  <2> QED
    BY <1>6, <1>29, <2>1, <2>2
<1>44. ListPlan(C, "list_push", k, cs, ws, P, w, Q, i, own2, s2, v2)
  <2>1. /\ Writable(mem', P \cup {w} \cup Q) /\ Beside(P \cup {w} \cup Q, C.own, k)
        /\ \A fin : Made(mem', P \cup {w} \cup Q, fin) => ListDone(fin, own2, mem[C.ent[k]].val.addr, s2, k, v2)
    <3>1. R = P \cup {w} \cup Q /\ c = mem[C.ent[k]].val.addr
      BY <1>14, <1>28
    <3>2. \A fin : Made(mem', R, fin) => ListDone(fin, own2, c, s2, k, v2)
      BY <1>38
    <3> QED
      BY ONLY Zenon, <1>30, <3>1, <3>2
  <2> QED
    BY <1>11, <1>13, <1>14, <1>34, <1>36, <1>37, <1>39, <1>40, <1>41, <1>42, <1>43, <2>1 DEF ListPlan
<1> QED
  BY <1>44, ListSound

-----------------------------------------------------------------------------
(* touchdb_chain_pull_head. *)

(* The head h of a list, its string st and the text tx. *)
HeadOf(m, s, h, st, tx) == s # <<>> /\ h = s[1] /\ st = m[h].val.addr /\ tx = m[st].val.addr

(* The blocks of the head of a list. *)
LEMMA HeadBlocks ==
  ASSUME NEW m, NEW C, NEW k, NEW c, NEW s, NEW u, Found(m, C, k, c, s, u), NEW h, NEW st, NEW tx,
         HeadOf(m, s, h, st, tx)
  PROVE  /\ h \in Blks /\ h[1] = "node" /\ C.own[h] = <<"node", k, NIL>> /\ m[h].next = Nth(s, 2)
         /\ st \in Blks /\ st[1] = "pair" /\ C.own[st] = <<"str", k, h>> /\ st \in DOMAIN m
         /\ tx \in Blks /\ tx[1] \in TextClasses /\ C.own[tx] = <<"text", k, st>> /\ tx \in DOMAIN m /\ h \in DOMAIN m
         /\ m[tx].h1 = u[1] /\ m[tx].h2 = u[1]
<1>1. ListLive(m, C.own, c, s, k, u) /\ s \in Seq(Blks)
  BY DEF Found, ListLive
<1>2. 1 \in 1 .. Len(s) /\ 1 + 1 = 2
  BY <1>1 DEF HeadOf
<1>3. NodeLive(m, C.own, s[1], Nth(s, 1 + 1), k, u[1])
  BY <1>1, <1>2 DEF ListLive
<1>4. NodeLive(m, C.own, h, Nth(s, 2), k, u[1])
  BY <1>2, <1>3 DEF HeadOf
<1>5. StrLive(m, C.own, st, k, <<"str", k, h>>, u[1]) /\ Has(m, C.own, h, {"node"}, <<"node", k, NIL>>) /\ m[h].next = Nth(s, 2)
  BY Zenon, <1>4 DEF NodeLive, HeadOf
<1>6. /\ Has(m, C.own, st, {"pair"}, <<"str", k, h>>) /\ Has(m, C.own, tx, TextClasses, <<"text", k, st>>)
      /\ m[tx].h1 = u[1] /\ m[tx].h2 = u[1]
  BY Zenon, <1>5 DEF StrLive, HeadOf
<1> QED
  BY SMTT(30), <1>5, <1>6 DEF Has

(* Who owns what after a pop. *)
PopOwns(own, own2, h, st, tx) == own2 = [b \in Blks |-> IF b \in {h, st, tx} THEN FREE ELSE own[b]]

(* The other nodes are not touched. *)
LEMMA NodeStays ==
  ASSUME NEW m, NEW C, NEW k, NEW c, NEW s, NEW u, Found(m, C, k, c, s, u), NEW h, NEW st, NEW tx,
         HeadOf(m, s, h, st, tx), NEW own2, PopOwns(C.own, own2, h, st, tx), NEW j \in 1 .. Len(s), j # 1
  PROVE  NodeLive(m, own2, s[j], Nth(s, j + 1), k, u[j])
<1>1. ListLive(m, C.own, c, s, k, u) /\ s \in Seq(Blks)
  BY DEF Found, ListLive
<1>2. NodeLive(m, C.own, s[j], Nth(s, j + 1), k, u[j])
  BY <1>1 DEF ListLive
<1>3. /\ h \in Blks /\ h[1] = "node" /\ C.own[h] = <<"node", k, NIL>>
      /\ st \in Blks /\ st[1] = "pair" /\ C.own[st] = <<"str", k, h>>
      /\ tx \in Blks /\ tx[1] \in TextClasses /\ C.own[tx] = <<"text", k, st>>
  BY HeadBlocks
<1>4. PICK n, x, t : n = s[j] /\ x = Nth(s, j + 1) /\ t = u[j]
  OBVIOUS
<1>5. PICK a : a = m[n].val.addr
  OBVIOUS
<1>6. PICK d : d = m[a].val.addr
  OBVIOUS
<1>7. /\ Has(m, C.own, n, {"node"}, <<"node", k, NIL>>) /\ m[n].next = x /\ m[n].val.type = STR
      /\ StrLive(m, C.own, a, k, <<"str", k, n>>, t)
  BY <1>2, <1>4, <1>5 DEF NodeLive
<1>8. /\ Has(m, C.own, a, {"pair"}, <<"str", k, n>>) /\ Has(m, C.own, d, TextClasses, <<"text", k, a>>)
      /\ m[d].h1 = t /\ m[d].h2 = t
  BY Zenon, <1>6, <1>7 DEF StrLive
<1>9. n # h
  BY <1>1, <1>4 DEF ListLive, HeadOf
<1>10. n # st /\ n # tx
  BY <1>3, <1>7 DEF Has, TextClasses
<1>11. a # h /\ a # tx /\ d # h /\ d # st
  BY <1>3, <1>8 DEF Has, TextClasses
<1>12. a # st
  BY <1>3, <1>8, <1>9 DEF Has
<1>13. d # tx
  BY <1>3, <1>8, <1>12 DEF Has
<1>14. own2[n] = C.own[n] /\ own2[a] = C.own[a] /\ own2[d] = C.own[d]
  BY <1>7, <1>8, <1>9, <1>10, <1>11, <1>12, <1>13 DEF PopOwns, Has
<1>15. /\ Has(m, own2, n, {"node"}, <<"node", k, NIL>>) /\ Has(m, own2, a, {"pair"}, <<"str", k, n>>)
       /\ Has(m, own2, d, TextClasses, <<"text", k, a>>)
  BY Zenon, <1>7, <1>8, <1>14 DEF Has
<1>16. NodeLive(m, own2, n, x, k, t)
  BY Zenon, <1>5, <1>6, <1>7, <1>8, <1>15 DEF NodeLive, StrLive
<1> QED
  BY Zenon, <1>4, <1>16

(* The links that a pop writes. *)
PopL(c, s, x) ==
  {<<c, "header", x>>, <<c, "size", Len(s) - 1>>} \cup (IF x = NIL THEN {<<c, "tail", NIL>>} ELSE {})

(* What a pop writes to the chain. *)
LEMMA PopCells ==
  ASSUME NEW c, NEW s, NEW x, NEW w \in PopL(c, s, x)
  PROVE  /\ w[1] = c
         /\ \/ w[2] = "header" /\ w[3] = x
            \/ w[2] = "size" /\ w[3] = Len(s) - 1
            \/ w[2] = "tail" /\ w[3] = NIL /\ x = NIL
<1>1. \/ w = <<c, "header", x>>
      \/ w = <<c, "size", Len(s) - 1>>
      \/ x = NIL /\ w = <<c, "tail", NIL>>
  BY DEF PopL
<1> QED
  BY <1>1

(* The writes R pop the head of the list s of k. *)
PopPlan(m, C, k, c, s, u, h, st, tx, R, own2, s2, v2) ==
  /\ Found(m, C, k, c, s, u) /\ Shaped(m) /\ (\A b \in Blks : C.own[b] # FREE => b \in DOMAIN m)
  /\ HeadOf(m, s, h, st, tx) /\ PopOwns(C.own, own2, h, st, tx)
  /\ Beside(R, C.own, k) /\ PopL(c, s, Nth(s, 2)) \subseteq R
  /\ \A w \in R : w \in PopL(c, s, Nth(s, 2)) \/ w[2] = "free" \/ C.own[w[1]] = FREE
  /\ s2 = Tail(s) /\ v2 = [kind |-> "list", texts |-> Tail(u)]

(* The list after a pop. *)
LEMMA PopDone ==
  ASSUME NEW m, NEW C, NEW k, NEW c, NEW s, NEW u, NEW h, NEW st, NEW tx, NEW R, NEW own2, NEW s2, NEW v2,
         PopPlan(m, C, k, c, s, u, h, st, tx, R, own2, s2, v2), NEW fin, Made(m, R, fin)
  PROVE  ListDone(fin, own2, c, s2, k, v2)
<1>. /\ Found(m, C, k, c, s, u) /\ Shaped(m) /\ (\A b \in Blks : C.own[b] # FREE => b \in DOMAIN m)
     /\ HeadOf(m, s, h, st, tx) /\ PopOwns(C.own, own2, h, st, tx)
     /\ Beside(R, C.own, k) /\ PopL(c, s, Nth(s, 2)) \subseteq R
     /\ \A w \in R : w \in PopL(c, s, Nth(s, 2)) \/ w[2] = "free" \/ C.own[w[1]] = FREE
     /\ s2 = Tail(s) /\ v2 = [kind |-> "list", texts |-> Tail(u)]
  BY DEF PopPlan
<1>0. s \in Seq(Blks) /\ u \in Seq(Texts) /\ Len(u) = Len(s)
  BY Zenon DEF Found, ListLive
<1>1. /\ c \in Blks /\ c \in DOMAIN m /\ c[1] = "chain" /\ C.own[c] = <<"chain", k, NIL>> /\ s \in Seq(Blks)
      /\ \A j \in 1 .. Len(s) : /\ s[j] \in Blks /\ s[j] \in DOMAIN m /\ s[j][1] = "node"
                                /\ C.own[s[j]] = <<"node", k, NIL>> /\ m[s[j]].next = Nth(s, j + 1)
  BY FoundBlocks
<1>2. PICK l, u2 : l = Len(s) /\ u2 = Tail(u)
  BY Zenon
<1>3. s # <<>> /\ u # <<>> /\ l \in Nat \ {0}
  <2>1. s # <<>>
    BY Zenon DEF HeadOf
  <2>2. Len(s) # 0 /\ Len(s) \in Nat
    BY ONLY <1>0, <2>1
  <2>3. u # <<>>
    BY ONLY <1>0, <2>2
  <2> QED
    BY <1>2, <2>1, <2>2, <2>3
<1>4. /\ s2 \in Seq(Blks) /\ u2 \in Seq(Texts) /\ Len(s2) = l - 1 /\ Len(u2) = l - 1
      /\ \A j \in 1 .. l - 1 : s2[j] = s[j + 1] /\ u2[j] = u[j + 1]
  BY <1>0, <1>2, <1>3
<1>5. DOMAIN fin = DOMAIN m
  BY DEF Made
<1>6. SameBlocks(m, own2, fin, own2, k)
  <2> SUFFICES ASSUME NEW b \in Blks, own2[b] # FREE
               PROVE  b \in DOMAIN fin /\ \A f \in Fields(b[1]) \ Links : fin[b][f] = m[b][f]
    BY DEF SameBlocks
  <2>1. C.own[b] # FREE
    BY DEF PopOwns
  <2>2. b \in DOMAIN m
    BY <2>1
  <2>3. ASSUME NEW f \in Fields(b[1]) \ Links, fin[b][f] # m[b][f] PROVE FALSE
    <3>1. PICK w \in R : w[1] = b /\ w[2] = f
      BY <2>2, <2>3 DEF Made
    <3>2. f # "free"
      BY <2>2, NoFree
    <3> QED
      BY <2>1, <3>1, <3>2, <2>3 DEF Beside
  <2> QED
    BY <1>5, <2>2, <2>3
<1>7. ASSUME NEW b \in DOMAIN m, b \in Blks, C.own[b] # FREE, NEW f \in Fields(b[1]), fin[b][f] # m[b][f]
      PROVE  \E w \in PopL(c, s, Nth(s, 2)) : w[1] = b /\ w[2] = f
  <2>1. PICK w \in R : w[1] = b /\ w[2] = f
    BY <1>7 DEF Made
  <2>2. f # "free"
    BY NoFree
  <2> QED
    BY <1>7, <2>1, <2>2
<1>8. fin[c].header = Nth(s, 2) /\ fin[c].size = l - 1
  <2>1. PICK x, y : x = <<c, "header", Nth(s, 2)>> /\ y = <<c, "size", l - 1>>
    OBVIOUS
  <2>2. x \in R /\ y \in R
    BY <1>2, <2>1 DEF PopL
  <2> QED
    BY <2>1, <2>2 DEF Made
<1>9. ASSUME NEW j \in 1 .. l PROVE Nth(s2, j) = Nth(s, j + 1)
  <2>1. CASE j = l
    <3>1. j \notin 1 .. Len(s2) /\ j + 1 \notin 1 .. Len(s)
      BY <1>2, <1>3, <1>4, <2>1
    <3> QED
      BY <3>1 DEF Nth
  <2>2. CASE j # l
    <3>1. j \in 1 .. Len(s2) /\ j + 1 \in 1 .. Len(s) /\ j \in 1 .. l - 1
      BY <1>2, <1>3, <1>4, <2>2
    <3> QED
      BY <1>4, <3>1 DEF Nth
  <2> QED
    BY <2>1, <2>2
<1>10. ASSUME NEW j \in 1 .. Len(s2) PROVE NodeLive(fin, own2, s2[j], Nth(s2, j + 1), k, u2[j])
  <2>1. PICK i : i = j + 1
    OBVIOUS
  <2>2. i \in 1 .. Len(s) /\ i # 1 /\ s2[j] = s[i] /\ u2[j] = u[i] /\ i \in 1 .. l
    BY <1>2, <1>3, <1>4, <2>1
  <2>3. NodeLive(m, own2, s[i], Nth(s, i + 1), k, u[i])
    BY <2>2, NodeStays
  <2>4. Nth(s2, j + 1) = Nth(s, i + 1)
    BY <1>9, <2>1, <2>2
  <2>5. PICK b : b = s[i]
    OBVIOUS
  <2>6. b \in DOMAIN m /\ b \in Blks /\ b[1] = "node" /\ C.own[b] # FREE /\ m[b].next = Nth(s, i + 1)
    BY <1>1, <2>2, <2>5 DEF FREE
  <2>7. fin[b].next = m[b].next
    <3> SUFFICES ASSUME fin[b].next # m[b].next PROVE FALSE
      OBVIOUS
    <3>1. "next" \in Fields(b[1])
      BY <2>6 DEF Fields
    <3>2. PICK w \in PopL(c, s, Nth(s, 2)) : w[1] = b /\ w[2] = "next"
      BY <1>7, <2>6, <3>1
    <3> QED
      BY <3>2, PopCells
  <2>8. PICK x, t : x = Nth(s, i + 1) /\ t = u[i]
    OBVIOUS
  <2>9. NodeLive(fin, own2, b, x, k, t)
    BY ONLY <1>6, <2>3, <2>5, <2>6, <2>7, <2>8, NodeFrame
  <2> QED
    BY <2>2, <2>4, <2>5, <2>8, <2>9
<1>11. fin[c].header = Nth(s2, 1)
  <2>1. 1 \in 1 .. l /\ 1 + 1 = 2
    BY <1>3
  <2> QED
    BY <1>8, <1>9, <2>1
<1>12. ASSUME NEW i \in 1 .. Len(s2), NEW j \in 1 .. Len(s2), s2[i] = s2[j] PROVE i = j
  <2>1. \A a, b \in 1 .. l : s[a] = s[b] => a = b
    BY Zenon, <1>2 DEF Found, ListLive
  <2>2. i + 1 \in 1 .. l /\ j + 1 \in 1 .. l /\ s[i + 1] = s[j + 1]
    BY <1>3, <1>4, <1>12
  <2>3. i + 1 = j + 1
    BY <2>1, <2>2
  <2> QED
    BY <2>3
<1>13. Has(fin, own2, c, {"chain"}, <<"chain", k, NIL>>)
  <2>1. h[1] = "node" /\ st[1] = "pair" /\ tx[1] \in TextClasses
    BY HeadBlocks
  <2>2. c \notin {h, st, tx}
    BY <1>1, <2>1 DEF TextClasses
  <2>3. own2[c] = C.own[c]
    BY <1>1, <2>2 DEF PopOwns
  <2> QED
    BY <1>1, <1>5, <2>3 DEF Has
<1>14. ListLive(fin, own2, c, s2, k, u2)
  BY <1>4, <1>10, <1>11, <1>12, <1>13 DEF ListLive
<1>15. s2 # <<>> => fin[c].tail = s2[Len(s2)]
  <2> SUFFICES ASSUME s2 # <<>> PROVE fin[c].tail = s2[Len(s2)]
    OBVIOUS
  <2>1. l - 1 \in 1 .. l - 1 /\ 2 \in 1 .. l /\ (l - 1) + 1 = l
    BY <1>3, <1>4
  <2>2. s2[Len(s2)] = s[Len(s)]
    BY <1>2, <1>4, <2>1
  <2>3. Nth(s, 2) # NIL
    BY <1>1, <1>2, <2>1, Apart DEF Nth
  <2>4. fin[c].tail = m[c].tail
    <3> SUFFICES ASSUME fin[c].tail # m[c].tail PROVE FALSE
      OBVIOUS
    <3>1. "tail" \in Fields(c[1]) /\ C.own[c] # FREE
      BY <1>1 DEF Fields, FREE
    <3>2. PICK w \in PopL(c, s, Nth(s, 2)) : w[1] = c /\ w[2] = "tail"
      BY Zenon, <1>1, <1>7, <3>1
    <3> QED
      BY <2>3, <3>2, PopCells
  <2>5. m[c].tail = s[Len(s)]
    BY Zenon, <1>3 DEF Found
  <2> QED
    BY <2>2, <2>4, <2>5
<1>16. v2 = [kind |-> "list", texts |-> v2.texts] /\ v2.texts = u2
  BY <1>2
<1> QED
  BY Zenon, <1>4, <1>8, <1>14, <1>15, <1>16 DEF ListDone

(* What a pop writes behind the link that takes the head h out. *)
PopTail(c, x) == IF x = NIL THEN {<<c, "tail", NIL>>} ELSE {}

PopFrees(h, st, tx) == {Free(tx), Free(st), Free(h)}

PopQ(c, s, h, st, tx, v, x) ==
  ((PopTail(c, x) \cup {<<c, "size", Len(s) - 1>>}) \cup {<<v, "val", mem[h].val>>}) \cup PopFrees(h, st, tx)

(* The writes of a pop: the link comes first, the frees last. *)
LEMMA PopPartsIs ==
  ASSUME NEW c, NEW v, NEW s \in Seq(Blks), NEW h, NEW st, NEW tx, NEW x,
         mem[c].header = h, mem[h].next = x, mem[h].val.addr = st, ValueAt(st) = tx, mem[c].size = Len(s),
         h # st, h # tx, st # tx
  PROVE  /\ Parts(pull_head(c, v), {}, <<c, "header", x>>, PopQ(c, s, h, st, tx, v, x), 1)
         /\ Once(pull_head(c, v))
<1>1. PICK w, y, z, t, l : /\ w = <<c, "header", x>> /\ y = <<c, "size", Len(s) - 1>> /\ z = <<v, "val", mem[h].val>>
                           /\ t = <<c, "tail", NIL>> /\ l = IF x = NIL THEN <<t>> ELSE <<>>
  OBVIOUS
<1>2. PICK f1, f2, f3 : f1 = Free(tx) /\ f2 = Free(st) /\ f3 = Free(h)
  OBVIOUS
<1>3. PICK F : F = <<f1, f2, f3>>
  OBVIOUS
<1>4. Len(s) + (-1) = Len(s) - 1
  OBVIOUS
<1>5. pull_head(c, v) = (((<<w>> \o l) \o <<y>>) \o <<z>>) \o F
  BY <1>1, <1>2, <1>3, <1>4 DEF pull_head, unlink_head, Count, W
<1>6. Lists(l, PopTail(c, x))
  BY <1>1, OneOf, NoneOf DEF PopTail
<1>7. Lists(<<y>>, {y}) /\ Lists(<<z>>, {z}) /\ Lists(F, {f1, f2, f3})
  BY <1>3, OneOf, ThreeOf
<1>8. Parts(<<w>> \o l, {}, w, {} \cup PopTail(c, x), 1)
  BY <1>6, PartsOne, PartsBefore
<1>9. Parts((<<w>> \o l) \o <<y>>, {}, w, ({} \cup PopTail(c, x)) \cup {y}, 1)
  BY <1>7, <1>8, PartsBefore
<1>10. Parts(((<<w>> \o l) \o <<y>>) \o <<z>>, {}, w, (({} \cup PopTail(c, x)) \cup {y}) \cup {z}, 1)
  BY <1>7, <1>9, PartsBefore
<1>11. Parts((((<<w>> \o l) \o <<y>>) \o <<z>>) \o F, {}, w, ((({} \cup PopTail(c, x)) \cup {y}) \cup {z}) \cup {f1, f2, f3}, 1)
  BY <1>7, <1>10, PartsBefore
<1>12. ((({} \cup PopTail(c, x)) \cup {y}) \cup {z}) \cup {f1, f2, f3} = PopQ(c, s, h, st, tx, v, x)
  BY <1>1, <1>2 DEF PopQ, PopFrees
<1>13. Once(F)
  <2>1. Len(F) = 3 /\ F[1] = f1 /\ F[2] = f2 /\ F[3] = f3
    BY <1>3
  <2>2. f1[1] = tx /\ f2[1] = st /\ f3[1] = h
    BY <1>2 DEF Free
  <2>3. f1[1] # f2[1] /\ f1[1] # f3[1] /\ f2[1] # f3[1]
    BY <2>2
  <2>4. \A i \in 1 .. 3 : i = 1 \/ i = 2 \/ i = 3
    OBVIOUS
  <2> QED
    BY <2>1, <2>3, <2>4 DEF Once
<1>14. Once((((<<w>> \o l) \o <<y>>) \o <<z>>) \o F)
  <2>1. PICK u, R : u = ((<<w>> \o l) \o <<y>>) \o <<z>> /\ R = {} \cup {w} \cup ((({} \cup PopTail(c, x)) \cup {y}) \cup {z})
    OBVIOUS
  <2>2. Lists(u, R)
    BY <1>10, <2>1 DEF Parts
  <2>3. \A q \in R : q = w \/ q = t \/ q = y \/ q = z
    BY <1>1, <2>1 DEF PopTail
  <2>4. w[2] # "free" /\ t[2] # "free" /\ y[2] # "free" /\ z[2] # "free"
    BY <1>1
  <2>5. \A q \in R : q[2] # "free"
    BY <2>3, <2>4
  <2>6. Once(u \o F)
    BY ONLY <1>7, <1>13, <2>2, <2>5, OnceCat
  <2> QED
    BY <2>1, <2>6
<1> QED
  BY <1>1, <1>5, <1>11, <1>12, <1>14

(* What they are. *)
LEMMA PopQCells ==
  ASSUME NEW c, NEW s, NEW h, NEW st, NEW tx, NEW v, NEW x, NEW w \in PopQ(c, s, h, st, tx, v, x)
  PROVE  \/ w[1] = c /\ w[2] = "tail" /\ w[3] = NIL /\ x = NIL
         \/ w[1] = c /\ w[2] = "size" /\ w[3] = Len(s) - 1
         \/ w[1] = v /\ w[2] = "val" /\ w[3] = mem[h].val
         \/ w[1] \in {h, st, tx} /\ w[2] = "free"
<1>1. \/ w = <<c, "tail", NIL>> /\ x = NIL
      \/ w = <<c, "size", Len(s) - 1>>
      \/ w = <<v, "val", mem[h].val>>
      \/ w = <<h, "free", NIL>> \/ w = <<st, "free", NIL>> \/ w = <<tx, "free", NIL>>
  BY DEF PopQ, PopTail, PopFrees, Free
<1> QED
  BY <1>1

(* The writes of a pop may be made together, beside the blocks of other    *)
(* keys.                                                                   *)
LEMMA PopWrites ==
  ASSUME NEW m, NEW C, NEW k, NEW c, NEW s, NEW u, Found(m, C, k, c, s, u), NEW h, NEW st, NEW tx,
         HeadOf(m, s, h, st, tx), NEW x, x = Nth(s, 2), x \in Addr,
         NEW v, v \in Blks, v \in DOMAIN m, v[1] = "pair", C.own[v] = FREE,
         NEW R, R = {} \cup {<<c, "header", x>>} \cup PopQ(c, s, h, st, tx, v, x)
  PROVE  /\ Writable(m, R) /\ Beside(R, C.own, k) /\ PopL(c, s, x) \subseteq R
         /\ \A w \in R : w \in PopL(c, s, x) \/ w[2] = "free" \/ C.own[w[1]] = FREE
<1>1. c \in Blks /\ c \in DOMAIN m /\ c[1] = "chain" /\ C.own[c] = <<"chain", k, NIL>>
  <2>1. ListLive(m, C.own, c, s, k, u)
    BY DEF Found
  <2> QED
    BY Zenon, <2>1 DEF ListLive, Has
<1>2. h \in DOMAIN m /\ st \in DOMAIN m /\ tx \in DOMAIN m
  BY HeadBlocks
<1>3. c # v
  BY <1>1
<1>4. ASSUME NEW w \in R
      PROVE  \/ w[1] = c /\ w[2] = "header" /\ w[3] = x
             \/ w[1] = c /\ w[2] = "tail" /\ w[3] = NIL /\ x = NIL
             \/ w[1] = c /\ w[2] = "size" /\ w[3] = Len(s) - 1
             \/ w[1] = v /\ w[2] = "val" /\ w[3] = mem[h].val
             \/ w[1] \in {h, st, tx} /\ w[2] = "free"
  <2>1. CASE w = <<c, "header", x>>
    BY <2>1
  <2>2. CASE w \in PopQ(c, s, h, st, tx, v, x)
    BY <2>2, PopQCells
  <2> QED
    BY <2>1, <2>2
<1>5. {"header", "tail", "size"} \subseteq Fields("chain") /\ "val" \in Fields("pair")
  BY DEF Fields
<1>6. Writable(m, R)
  <2>1. ASSUME NEW w \in R PROVE w[1] \in DOMAIN m /\ w[2] \in Fields(w[1][1]) \cup {"free"}
    BY <1>1, <1>2, <1>4, <1>5
  <2>2. ASSUME NEW w \in R, w[2] \in {"next", "header"} PROVE w[3] \in Addr
    BY <1>4, <2>2
  <2>3. ASSUME NEW y \in R, NEW w \in R, y[1] = w[1], y[2] = w[2], y[2] # "free" PROVE y[3] = w[3]
    BY <1>3, <1>4, <2>3
  <2> QED
    BY <2>1, <2>2, <2>3 DEF Writable
<1>7. Beside(R, C.own, k)
  <2>1. C.own[c][2] = k /\ c \in Blks /\ c[1] = "chain"
    BY <1>1
  <2>2. {"header", "tail", "size"} \subseteq Links
    BY DEF Links
  <2>3. ASSUME NEW w \in R
        PROVE  \/ w[2] = "free"
               \/ w[1] \in Blks /\ C.own[w[1]] = FREE /\ (w[2] = "next" /\ w[1][1] = "entry" => w[3] \in Ends)
               \/ w[2] \in Links /\ w[1] \in Blks /\ w[1][1] \in {"chain", "node"} /\ C.own[w[1]][2] = k
    BY <1>4, <2>1, <2>2
  <2> QED
    BY <2>3 DEF Beside
<1>8. ASSUME NEW w \in PopL(c, s, x) PROVE w \in R
  BY DEF PopL, PopQ, PopTail
<1>9. ASSUME NEW w \in R PROVE w \in PopL(c, s, x) \/ w[2] = "free" \/ C.own[w[1]] = FREE
  <2>1. \/ w = <<c, "header", x>>
        \/ w = <<c, "tail", NIL>> /\ x = NIL
        \/ w = <<c, "size", Len(s) - 1>>
        \/ w = <<v, "val", mem[h].val>>
        \/ w \in PopFrees(h, st, tx)
    BY DEF PopQ, PopTail
  <2>2. w \in PopFrees(h, st, tx) => w[2] = "free"
    BY DEF PopFrees, Free
  <2>3. w = <<v, "val", mem[h].val>> => C.own[w[1]] = FREE
    OBVIOUS
  <2> QED
    BY <2>1, <2>2, <2>3 DEF PopL
<1> QED
  BY <1>6, <1>7, <1>8, <1>9

(* touchdb_list_pop begins soundly. *)
LEMMA PopStarts ==
  ASSUME NEW C, Ready(C), ops < MAX_OPS, NEW k \in ListKeys, touchdb_list_pop(k), view' = View'
  PROVE  \E N, fin, n : Sound(C, N, fin, n)'
<1>1. PICK cs : cs = <<"pair">>
  OBVIOUS
<1>2. cs \in Seq(Classes) /\ Len(cs) = 1 /\ cs[1] = "pair"
  BY <1>1 DEF Classes
<1>3. PICK v : v = Blocks(cs)[1]
  OBVIOUS
<1>4. v \in Asked(cs) /\ v[1] = "pair" /\ v \in Blks
  BY SMTT(30), <1>2, <1>3, AskedIs
<1>5. PICK c, l, u : c = ChainOf(k) /\ l = C.ns[k] /\ u = C.kv[k].texts
  OBVIOUS
<1>6. PICK ws : ws = pull_head(c, v)
  OBVIOUS
<1>7. Begin("list_pop", k, cs, ws) /\ EntryOf(k) # NIL /\ mem[c].header # NIL
  BY <1>1, <1>3, <1>5, <1>6 DEF touchdb_list_pop
<1>8. cs \in Seq(Classes)
  BY <1>2
<1>9. /\ C.ent[k] # NIL /\ c = mem[C.ent[k]].val.addr
      /\ Found(mem, C, k, c, l, u) /\ Found(mem', C, k, c, l, u)
  <2>1. /\ C.ent[k] # NIL /\ ChainOf(k) = mem[C.ent[k]].val.addr
        /\ Found(mem, C, k, ChainOf(k), C.ns[k], C.kv[k].texts)
        /\ Found(mem', C, k, ChainOf(k), C.ns[k], C.kv[k].texts)
    BY ONLY Ready(C), k \in ListKeys, <1>7, <1>8, FoundThen
  <2> QED
    BY <1>5, <2>1
<1>10. /\ Rest(mem, C) /\ Rest(mem', C) /\ \A b \in DOMAIN mem : mem'[b] = mem[b]
       /\ \A b \in Asked(cs) : b \in Blks /\ C.own[b] = FREE /\ b \in DOMAIN mem'
  BY ONLY Ready(C), <1>7, <1>8, BeginIs DEF Ready
<1>11. l \in Seq(Blks) /\ u \in Seq(Texts) /\ Len(u) = Len(l) /\ c \in Blks /\ c \in DOMAIN mem /\ mem[c].header = Nth(l, 1)
  <2>1. ListLive(mem, C.own, c, l, k, u)
    BY <1>9 DEF Found
  <2> QED
    BY <2>1 DEF ListLive, Has
<1>12. l # <<>>
  <2> SUFFICES ASSUME l = <<>> PROVE mem[c].header = NIL
    BY <1>7
  <2>1. 1 \notin 1 .. Len(l)
    OBVIOUS
  <2> QED
    BY <1>11, <2>1 DEF Nth
<1>13. PICK h : h = l[1]
  OBVIOUS
<1>14. PICK st : st = mem[h].val.addr
  OBVIOUS
<1>15. PICK tx : tx = mem[st].val.addr
  OBVIOUS
<1>16. HeadOf(mem, l, h, st, tx)
  BY <1>12, <1>13, <1>14, <1>15 DEF HeadOf
<1>17. PICK x : x = Nth(l, 2)
  OBVIOUS
<1>18. /\ h \in Blks /\ h[1] = "node" /\ C.own[h] = <<"node", k, NIL>> /\ mem[h].next = x
       /\ st \in Blks /\ st[1] = "pair" /\ C.own[st] = <<"str", k, h>> /\ st \in DOMAIN mem
       /\ tx \in Blks /\ tx[1] \in TextClasses /\ C.own[tx] = <<"text", k, st>> /\ tx \in DOMAIN mem /\ h \in DOMAIN mem
  <2>1. /\ h \in Blks /\ h[1] = "node" /\ C.own[h] = <<"node", k, NIL>> /\ mem[h].next = Nth(l, 2)
        /\ st \in Blks /\ st[1] = "pair" /\ C.own[st] = <<"str", k, h>> /\ st \in DOMAIN mem
        /\ tx \in Blks /\ tx[1] \in TextClasses /\ C.own[tx] = <<"text", k, st>> /\ tx \in DOMAIN mem /\ h \in DOMAIN mem
        /\ mem[tx].h1 = u[1] /\ mem[tx].h2 = u[1]
    BY ONLY <1>9, <1>16, HeadBlocks
  <2> QED
    BY <1>17, <2>1
<1>19. HeadOf(mem', l, h, st, tx)
  <2>1. mem'[h] = mem[h] /\ mem'[st] = mem[st]
    BY Zenon, <1>10, <1>18
  <2> QED
    BY <1>16, <2>1 DEF HeadOf
<1>20. mem[c].header = h /\ mem[c].size = Len(l)
  <2>1. 1 \in 1 .. Len(l)
    BY <1>11, <1>12
  <2> QED
    BY <1>9, <1>11, <1>13, <2>1 DEF Nth, Found
<1>21. ValueAt(st) = tx
  <2>1. Shaped(mem) /\ "val" \in Fields(st[1]) /\ st \in Addr
    BY <1>10, <1>18, Apart DEF Rest, Fields
  <2> QED
    BY <1>15, <1>18, <2>1, ValueAtIs
<1>22. h # st /\ h # tx /\ st # tx
  BY <1>18 DEF TextClasses
<1>23. PICK Q, w : Q = PopQ(c, l, h, st, tx, v, x) /\ w = <<c, "header", x>>
  OBVIOUS
<1>24. Parts(ws, {}, w, Q, 1) /\ Once(ws)
  <2>1. mem[h].next = x /\ mem[h].val.addr = st
    BY <1>14, <1>18
  <2>2. /\ Parts(pull_head(c, v), {}, <<c, "header", x>>, PopQ(c, l, h, st, tx, v, x), 1)
        /\ Once(pull_head(c, v))
    <3>1. l \in Seq(Blks)
      BY <1>11
    <3> QED
      BY ONLY <1>20, <1>21, <1>22, <2>1, <3>1, PopPartsIs
  <2> QED
    BY <1>6, <1>23, <2>2
<1>25. x \in Addr
  <2>1. CASE 2 \in 1 .. Len(l)
    BY <1>11, <1>17, <2>1, Apart DEF Nth
  <2>2. CASE 2 \notin 1 .. Len(l)
    BY <1>17, <2>2, Apart DEF Nth, Addr
  <2> QED
    BY <2>1, <2>2
<1>26. PICK R : R = {} \cup {w} \cup Q
  OBVIOUS
<1>27. v \in Blks /\ v \in DOMAIN mem' /\ v[1] = "pair" /\ C.own[v] = FREE
  BY <1>4, <1>10
<1>28. /\ Writable(mem', R) /\ Beside(R, C.own, k) /\ PopL(c, l, x) \subseteq R
       /\ \A y \in R : y \in PopL(c, l, x) \/ y[2] = "free" \/ C.own[y[1]] = FREE
  <2>1. R = {} \cup {<<c, "header", x>>} \cup PopQ(c, l, h, st, tx, v, x)
    BY <1>23, <1>26
  <2> QED
    BY ONLY <1>9, <1>17, <1>19, <1>25, <1>27, <2>1, PopWrites
<1>29. PICK own2 : own2 = [b \in Blks |-> IF b \in {h, st, tx} THEN FREE ELSE C.own[b]]
  OBVIOUS
<1>30. PopOwns(C.own, own2, h, st, tx)
  BY <1>29 DEF PopOwns
<1>31. /\ own2[h] = FREE /\ own2[st] = FREE /\ own2[tx] = FREE
       /\ \A b \in Blks \ {h, st, tx} : own2[b] = C.own[b]
  BY <1>18, <1>29
<1>32. C.own[h][2] = k /\ C.own[st][2] = k /\ C.own[tx][2] = k
  BY <1>18
<1>33. C.own[h][1] = "node" /\ C.own[st][1] = "str" /\ C.own[tx][1] = "text"
  BY <1>18
<1>34. ListOwns(C, own2, "list_pop", k, Asked(cs))
  <2>1. ASSUME NEW b \in Blks
        PROVE  /\ own2[b] = C.own[b] \/ own2[b] = FREE \/ b \in Asked(cs)
               /\ C.own[b] # FREE => own2[b] = C.own[b] \/ C.own[b][2] = k
               /\ C.own[b][1] = "entry" => own2[b] = C.own[b]
    BY <1>31, <1>32, <1>33
  <2>2. ASSUME NEW b \in Blks, C.own[b] = <<"key", k, NIL>> PROVE own2[b] = C.own[b]
    <3>1. C.own[b][1] = "key"
      BY <2>2
    <3> QED
      BY <1>31, <1>33, <3>1
  <2> QED
    BY <2>1, <2>2 DEF ListOwns
<1>35. PICK s2, v2 : s2 = Tail(l) /\ v2 = [kind |-> "list", texts |-> Tail(u)]
  OBVIOUS
<1>36. ListGrows(C.ns[k], s2, "list_pop")
  <2>1. Len(l) <= ops /\ ops \in Nat /\ Len(l) \in Nat
    <3>1. k \in Keys /\ ops \in 0 .. MAX_OPS /\ Short(C.es, C.ns, ops)
      BY DEF Keys, Ready
    <3>2. Len(C.ns[k]) <= ops /\ ops \in Nat
      BY <3>1, ShmAssumption DEF Short
    <3> QED
      BY <1>5, <1>11, <3>2
  <2>2. s2 \in Seq(Blks) /\ Len(s2) = Len(l) - 1
    BY <1>11, <1>12, <1>35
  <2> QED
    BY <2>1, <2>2 DEF ListGrows
<1>37. Changed("list_pop", k, C.kv, [C.kv EXCEPT ![k] = v2])
  <2>1. C.kv[k] = [kind |-> "list", texts |-> u]
    BY <1>5, <1>9 DEF Found
  <2>2. PICK kv : kv = C.kv
    OBVIOUS
  <2>3. kv[k].kind = "list" /\ kv[k].texts = u
    BY <2>1, <2>2
  <2>4. u # <<>>
    <3>1. Len(l) # 0 /\ Len(l) \in Nat
      BY <1>11, <1>12
    <3> QED
      BY ONLY <1>11, <3>1
  <2> QED
    BY Zenon, <1>35, <2>2, <2>3, <2>4 DEF Changed
<1>38. ASSUME NEW fin, Made(mem', R, fin) PROVE ListDone(fin, own2, c, s2, k, v2)
  <2>1. Shaped(mem') /\ \A b \in Blks : C.own[b] # FREE => b \in DOMAIN mem'
    BY <1>10 DEF Rest
  <2>2. PopPlan(mem', C, k, c, l, u, h, st, tx, R, own2, s2, v2)
    BY <1>9, <1>17, <1>19, <1>28, <1>30, <1>35, <2>1 DEF PopPlan
  <2> QED
    BY ONLY <1>38, <2>2, PopDone
<1>39. \A y \in {} : y[2] # "free" /\ (y[2] = "tail" \/ (y[1] \in Blks /\ C.own[y[1]] = FREE))
  OBVIOUS
<1>40. w[2] = "header" /\ w[1] = c
  BY <1>23
<1>41. ASSUME NEW y \in Q
       PROVE  /\ y[2] \in {"tail", "size", "free"} \/ (y[1] \in Blks /\ own2[y[1]] = FREE)
              /\ y[2] # "next" /\ y[2] # "header"
              /\ y[2] = "free" => /\ y[1] \in Blks /\ own2[y[1]] = FREE
                                  /\ C.own[y[1]] # FREE \/ y[1] \in Asked(cs)
  <2>1. \/ y[1] = c /\ y[2] = "tail" /\ y[3] = NIL /\ x = NIL
        \/ y[1] = c /\ y[2] = "size" /\ y[3] = Len(l) - 1
        \/ y[1] = v /\ y[2] = "val" /\ y[3] = mem[h].val
        \/ y[1] \in {h, st, tx} /\ y[2] = "free"
    BY <1>23, PopQCells
  <2>2. own2[v] = FREE
    BY <1>27, <1>31
  <2>3. C.own[h] # FREE /\ C.own[st] # FREE /\ C.own[tx] # FREE
    <3>1. /\ \A b : <<"node", k, b>> # FREE
          /\ \A b : <<"str", k, b>> # FREE
          /\ \A b : <<"text", k, b>> # FREE
      BY Zenon DEF FREE
    <3> QED
      BY <1>18, <3>1
  <2> QED
    BY <1>18, <1>27, <1>31, <2>1, <2>2, <2>3
<1>42. ListPlan(C, "list_pop", k, cs, ws, {}, w, Q, 1, own2, s2, v2)
  <2>1. /\ Writable(mem', {} \cup {w} \cup Q) /\ Beside({} \cup {w} \cup Q, C.own, k)
        /\ \A fin : Made(mem', {} \cup {w} \cup Q, fin) => ListDone(fin, own2, mem[C.ent[k]].val.addr, s2, k, v2)
    <3>1. R = {} \cup {w} \cup Q /\ c = mem[C.ent[k]].val.addr
      BY <1>9, <1>26
    <3>2. \A fin : Made(mem', R, fin) => ListDone(fin, own2, c, s2, k, v2)
      BY <1>38
    <3> QED
      BY ONLY Zenon, <1>28, <3>1, <3>2
  <2>2. w[1] = mem[C.ent[k]].val.addr
    BY <1>9, <1>40
  <2> QED
    BY Zenon, <1>7, <1>8, <1>9, <1>24, <1>34, <1>36, <1>37, <1>39, <1>40, <1>41, <2>1, <2>2 DEF ListPlan
<1> QED
  BY <1>42, ListSound

-----------------------------------------------------------------------------
(* The steps of the writer. *)

(* A call begins, and nothing is seen of it. *)
LEMMA CallBegins ==
  ASSUME NEW C, Ready(C), Between, view' = View',
         \/ \E k \in StrKeys, t \in Texts : touchdb_put_str(k, t)
         \/ \E k \in ListKeys, t \in Texts : touchdb_list_push_new(k, t) \/ touchdb_list_push(k, t)
         \/ \E k \in ListKeys : touchdb_list_pop(k)
  PROVE  /\ \E N, fin, n : Sound(C, N, fin, n)'
         /\ lost' = lost /\ out' = out /\ kills' = kills /\ Steady(mem, mem', C.own)
<1>1. ops < MAX_OPS
  BY DEF Between
<1>2. \E N, fin, n : Sound(C, N, fin, n)'
  BY ONLY Ready(C), <1>1, view' = View', PutStarts, NewStarts, PushStarts, PopStarts,
         \/ \E k \in StrKeys, t \in Texts : touchdb_put_str(k, t)
         \/ \E k \in ListKeys, t \in Texts : touchdb_list_push_new(k, t) \/ touchdb_list_push(k, t)
         \/ \E k \in ListKeys : touchdb_list_pop(k)
<1>3. lost' = lost /\ out' = out /\ kills' = kills
  BY DEF touchdb_put_str, touchdb_list_push_new, touchdb_list_push, touchdb_list_pop
<1>4. \E op, k, ws : \E cs \in Seq(Classes) : Begin(op, k, cs, ws)
  <2>1. CASE \E k \in StrKeys, t \in Texts : touchdb_put_str(k, t)
    <3>1. <<"pair", "pair", "text", "entry", "text">> \in Seq(Classes)
      BY DEF Classes
    <3> QED
      BY ONLY <2>1, <3>1 DEF touchdb_put_str
  <2>2. CASE \E k \in ListKeys, t \in Texts : touchdb_list_push_new(k, t)
    <3>1. <<"pair", "pair", ListTextClass, "pair", "chain", "node", "entry", "text">> \in Seq(Classes)
      BY ShmAssumption DEF Classes
    <3> QED
      BY ONLY <2>2, <3>1 DEF touchdb_list_push_new
  <2>3. CASE \E k \in ListKeys, t \in Texts : touchdb_list_push(k, t)
    <3>1. <<"pair", "pair", ListTextClass, "node">> \in Seq(Classes)
      BY ShmAssumption DEF Classes
    <3> QED
      BY ONLY <2>3, <3>1 DEF touchdb_list_push
  <2>4. CASE \E k \in ListKeys : touchdb_list_pop(k)
    <3>1. <<"pair">> \in Seq(Classes)
      BY DEF Classes
    <3> QED
      BY ONLY <2>4, <3>1 DEF touchdb_list_pop
  <2> QED
    BY <2>1, <2>2, <2>3, <2>4
<1>5. PICK op, k, ws : \E cs \in Seq(Classes) : Begin(op, k, cs, ws)
  BY <1>4
<1>6. PICK cs \in Seq(Classes) : Begin(op, k, cs, ws)
  BY <1>5
<1>7. DOMAIN mem \subseteq DOMAIN mem' /\ \A b \in DOMAIN mem : mem'[b] = mem[b]
  <2>1. DOMAIN mem' = DOMAIN mem \cup Asked(cs) /\ \A b \in DOMAIN mem : mem'[b] = mem[b]
    BY ONLY Ready(C), <1>6, BeginIs
  <2> QED
    BY <2>1
<1>8. \A b \in Blks : C.own[b] # FREE => b \in DOMAIN mem
  BY DEF Ready, Rest
<1>9. Steady(mem, mem', C.own)
  BY ONLY <1>7, <1>8 DEF Steady
<1> QED
  BY <1>2, <1>3, <1>9

(* What a step of the writer does: its effect is seen at once, or not yet, *)
(* or no more.                                                             *)
Effect(C, C2) ==
  \/ C2 = C /\ view' = view /\ out' = out
  \/ /\ todo # <<>> /\ Grown(C, C2, call.op, call.key) /\ call' = call /\ view' = C2.kv
     /\ out' = IF call.op = "list_pop" THEN [out EXCEPT ![call.key] = C.kv[call.key].texts[1]] ELSE out

WriterDoes(C) ==
  /\ lost' = <<>> /\ Steady(mem, mem', C.own)
  /\ \E C2, N, fin, n : Sound(C2, N, fin, n)' /\ Effect(C, C2)

(* Every step of the writer but a kill keeps its call sound. *)
LEMMA WriterStep ==
  ASSUME NEW C, NEW N, NEW fin, NEW n, Sound(C, N, fin, n), lost = <<>>, WriterNext, ~kill
  PROVE  WriterDoes(C) /\ kills' = kills
<1>1. view' = View' /\ view = C.kv
  BY DEF WriterNext, Sound
<1>2. CASE Between /\ \/ \E k \in StrKeys, t \in Texts : touchdb_put_str(k, t)
                      \/ \E k \in ListKeys, t \in Texts : touchdb_list_push_new(k, t) \/ touchdb_list_push(k, t)
                      \/ \E k \in ListKeys : touchdb_list_pop(k)
  <2>1. todo = <<>>
    BY <1>2 DEF Between
  <2>2. Ready(C)
    BY ONLY <2>1, Sound(C, N, fin, n), RestNow DEF Ready
  <2>3. /\ \E N2, fin2, n2 : Sound(C, N2, fin2, n2)'
        /\ lost' = lost /\ out' = out /\ kills' = kills /\ Steady(mem, mem', C.own)
    BY ONLY <1>1, <1>2, <2>2, CallBegins
  <2>4. PICK N2, fin2, n2 : Sound(C, N2, fin2, n2)'
    BY <2>3
  <2>5. view' = C.kv
    BY <2>4 DEF Sound
  <2>6. Effect(C, C)
    BY <1>1, <2>3, <2>5 DEF Effect
  <2> QED
    BY <2>3, <2>4, <2>6 DEF WriterDoes
<1>3. CASE Write
  <2>1. WriteDoes(C, N, fin, n)
    BY <1>1, <1>3, WriteStep
  <2>2. PICK C2, n2 : /\ Sound(C2, N, fin, n2)' /\ Steady(mem, mem', C.own)
                      /\ \/ C2 = C /\ view' = view /\ out' = out
                         \/ /\ C2 = N /\ todo # <<>> /\ Grown(C, N, call.op, call.key)
                            /\ out' = IF call.op = "list_pop" THEN [out EXCEPT ![call.key] = C.kv[call.key].texts[1]] ELSE out
    BY <2>1 DEF WriteDoes
  <2>3. lost' = lost /\ call' = call /\ kills' = kills
    BY <1>3 DEF Write
  <2>4. view' = C2.kv
    BY <2>2 DEF Sound
  <2>5. Effect(C, C2)
    BY <2>2, <2>3, <2>4 DEF Effect
  <2> QED
    BY <2>2, <2>3, <2>5 DEF WriterDoes
<1>4. ~crash
  BY NotNull DEF crash
<1> QED
  BY <1>2, <1>3, <1>4 DEF WriterNext

(* What the tables are about. *)
tables == <<mem, pool, todo, call, ops, kills, out, lost, view>>

(* A step that changes none of it keeps the call sound. *)
LEMMA SoundStays ==
  ASSUME NEW C, NEW N, NEW fin, NEW n, Sound(C, N, fin, n), UNCHANGED tables
  PROVE  Sound(C, N, fin, n)'
<1>1. mem' = mem /\ pool' = pool /\ todo' = todo /\ call' = call /\ ops' = ops /\ view' = view
  BY DEF tables
<1> QED
  BY <1>1 DEF Sound

(* The files before the first call. *)
NoTables ==
  [own |-> [b \in Blks |-> FREE], ent |-> [k \in Keys |-> NIL], es |-> [i \in Slots |-> <<>>],
   ns |-> [k \in Keys |-> <<>>], kv |-> [k \in Keys |-> [kind |-> "absent"]]]

(* The files before the first call are sound. *)
LEMMA SoundFirst ==
  ASSUME ShmInit
  PROVE  Sound(NoTables, NoTables, mem, 0)
<1>1. PICK C : C = NoTables
  OBVIOUS
<1>2. /\ C.own = [b \in Blks |-> FREE] /\ C.ent = [k \in Keys |-> NIL] /\ C.es = [i \in Slots |-> <<>>]
      /\ C.ns = [k \in Keys |-> <<>>] /\ C.kv = [k \in Keys |-> [kind |-> "absent"]]
  BY <1>1 DEF NoTables
<1>3. mem = [b \in Bulks |-> [header |-> NIL, tail |-> NIL, size |-> 0]]
  BY DEF ShmInit, Bulks, Bulk, Slots
<1>4. /\ DOMAIN mem = Bulks /\ \A b \in Bulks : b[1] = "bulk"
      /\ \A b \in Bulks : DOMAIN mem[b] = {"header", "tail", "size"} /\ mem[b].header = NIL /\ mem[b].size = 0
  BY <1>3 DEF Bulks, Bulk
<1>5. Shaped(mem)
  <2>1. NIL \in Addr
    BY DEF Addr
  <2>2. \A b \in Bulks : DOMAIN mem[b] = Fields(b[1]) /\ "next" \notin DOMAIN mem[b]
    BY <1>4 DEF Fields
  <2> QED
    BY <1>4, <2>1, <2>2 DEF Shaped
<1>6. \A b \in DOMAIN mem : b \notin Blks
  BY <1>4, Apart
<1>7. \A i \in Slots : mem[Bulk(i)].header = NIL /\ mem[Bulk(i)].size = 0 /\ C.es[i] = <<>>
  BY <1>2, <1>4 DEF Bulks
<1>8. LiveIn(mem, C)
  <2>1. ASSUME NEW i \in Slots PROVE BucketLive(mem, i, C.ent, C.es[i])
    <3>1. PICK s : s = C.es[i]
      OBVIOUS
    <3>2. s = <<>> /\ mem[Bulk(i)].header = NIL
      BY <1>7, <3>1
    <3>4. s \in Seq(Keys) /\ Len(s) = 0
      BY ONLY <3>2
    <3>3. BucketLive(mem, i, C.ent, s)
      BY <3>2, <3>4 DEF BucketLive
    <3> QED
      BY <3>1, <3>3
  <2>2. ASSUME NEW k \in Keys PROVE C.ent[k] = NIL /\ KeyLive(mem, C.own, C.ent[k], C.ns[k], k, C.kv[k])
    BY <1>2 DEF KeyLive
  <2>3. C.kv = [k \in Keys |-> C.kv[k]]
    BY <1>2
  <2> QED
    BY <2>1, <2>2, <2>3 DEF LiveIn, Live
<1>9. EndsOK(mem, C)
  <2>1. \A k \in ListKeys : C.ent[k] = NIL
    BY <1>2 DEF Keys
  <2> QED
    BY <1>7, <2>1 DEF EndsOK
<1>10. todo = <<>> /\ ops = 0 /\ view = View
  BY DEF ShmInit
<1>11. Pending(mem, todo, mem)
  <2>1. \E S : todo \in Seq(S)
    <3>1. todo \in Seq({})
      BY <1>10
    <3> QED
      BY <3>1
  <2> QED
    BY <1>10, <2>1 DEF Pending
<1>12. Loose(mem, C.own) /\ Frees(todo, pool, C.own)
  BY <1>6, <1>10 DEF Loose, Frees
<1>13. PoolOK(pool, mem, C.own)
  <2>1. pool = [free |-> [c \in Classes |-> <<>>], fresh |-> [c \in Classes |-> 0]]
    BY DEF ShmInit
  <2>2. \A c \in Classes : pool.free[c] = <<>>
    BY <2>1
  <2>3. \A c \in Classes : Len(pool.free[c]) = 0
    BY <2>2
  <2>4. pool.free \in [Classes -> Seq(Blks)] /\ pool.fresh \in [Classes -> Nat]
    BY <2>1
  <2>5. pool = [free |-> pool.free, fresh |-> pool.fresh]
    BY <2>1
  <2>6. \A b \in Blks : C.own[b] = FREE
    BY <1>2
  <2> QED
    BY <1>6, <2>3, <2>4, <2>5, <2>6 DEF PoolOK
<1>14. Base(mem, pool, todo, C, C, mem)
  <2>1. \A b \in Blks : C.own[b] = FREE
    BY <1>2
  <2> QED
    BY <1>5, <1>8, <1>9, <1>11, <1>12, <1>13, <2>1 DEF Base
<1>15. Short(C.es, C.ns, ops) /\ ops \in 0 .. MAX_OPS
  <2>1. \A k \in Keys : C.ns[k] = <<>>
    BY <1>2
  <2>2. <<>> \in Seq(Keys) /\ <<>> \in Seq(Blks) /\ Len(<<>>) = 0 /\ 0 <= 0
    OBVIOUS
  <2>3. Short(C.es, C.ns, 0)
    BY <1>7, <2>1, <2>2 DEF Short
  <2> QED
    BY <1>10, <2>3, ShmAssumption
<1>16. view = C.kv
  BY <1>5, <1>8, <1>10, <1>15, ReadsTablesNow DEF ReadsTables
<1>17. Linked(mem, todo, call.op, call.key, C)
  BY <1>7, <1>10 DEF Linked
<1> QED
  BY <1>1, <1>10, <1>14, <1>15, <1>16, <1>17 DEF Sound

-----------------------------------------------------------------------------
(* The invariant of the writer: until a call is killed, the files hold the *)
(* tables before the running call or after it, and what is still to be     *)
(* written makes the tables after it.                                      *)
WriterOK == kills \in 0 .. MAX_KILLS /\ (kills = 0 => lost = <<>> /\ \E C, N, fin, n : Sound(C, N, fin, n))

(* The invariant holds at first. *)
LEMMA WriterInit ==
  ASSUME ShmInit
  PROVE  WriterOK
<1>1. Sound(NoTables, NoTables, mem, 0)
  BY SoundFirst
<1>2. kills = 0 /\ lost = <<>>
  BY DEF ShmInit
<1> QED
  BY <1>1, <1>2, ShmAssumption DEF WriterOK

(* A reader writes nothing. *)
LEMMA ReaderStep ==
  ASSUME \E r \in Readers : read(r) \/ (\E c \in Calls : start(r, c[1], c[2])) \/ start_iter(r)
  PROVE  UNCHANGED writerVars
<1>1. PICK r \in Readers : read(r) \/ (\E c \in Calls : start(r, c[1], c[2])) \/ start_iter(r)
  BY Zenon
<1>2. CASE read(r)
  BY <1>2 DEF read, get_bulk, get_entry, next_entry, entry_val, chain_header, next_node, node_val, str_data,
              first_half, second_half, iter_size, iter_header, iter_entry, iter_next, iter_ends, At
<1>3. CASE \E c \in Calls : start(r, c[1], c[2])
  BY <1>3 DEF start
<1>4. CASE start_iter(r)
  BY <1>4 DEF start_iter
<1> QED
  BY <1>1, <1>2, <1>3, <1>4

(* A step is one of the writer or changes nothing of that: a writer that   *)
(* takes the start of the pool for a block goes no further.                *)
LEMMA WriterOrNone ==
  ASSUME [ShmNext]_shmVars
  PROVE  WriterNext \/ UNCHANGED tables
<1>1. UNCHANGED writerVars => UNCHANGED tables
  BY DEF writerVars, tables
<1>2. UNCHANGED shmVars => UNCHANGED writerVars
  BY DEF shmVars
<1>3. use_nil_offset => UNCHANGED tables
  BY DEF use_nil_offset, tables
<1> QED
  BY <1>1, <1>2, <1>3, ReaderStep DEF ShmNext

(* Nothing else matters to the invariant. *)
LEMMA OkStays ==
  ASSUME WriterOK, UNCHANGED tables
  PROVE  WriterOK'
<1>1. kills' = kills /\ lost' = lost
  BY DEF tables
<1>2. ASSUME kills = 0 PROVE \E C, N, fin, n : Sound(C, N, fin, n)'
  <2>1. PICK C, N, fin, n : Sound(C, N, fin, n)
    BY <1>2 DEF WriterOK
  <2> QED
    BY <2>1, SoundStays
<1> QED
  BY <1>1, <1>2 DEF WriterOK

(* A kill is counted. *)
LEMMA KillCounts ==
  ASSUME WriterOK, kill
  PROVE  kills' \in 0 .. MAX_KILLS /\ kills' # 0
BY ShmAssumption DEF WriterOK, kill

(* A step of the writer before the first kill. *)
LEMMA WriterUnkilled ==
  ASSUME WriterOK, WriterNext, kills' = 0
  PROVE  /\ ~kill /\ kills = 0 /\ lost = <<>> /\ lost' = <<>>
         /\ \E C, C2, N, fin, n, M, fin2, n2 :
              Sound(C, N, fin, n) /\ Sound(C2, M, fin2, n2)' /\ Effect(C, C2) /\ Steady(mem, mem', C.own)
<1>1. ~kill
  BY KillCounts
<1>2. kills = 0
  <2>1. kills' = kills
    BY Zenon, <1>1 DEF WriterNext, crash, Write, touchdb_put_str, touchdb_list_push_new, touchdb_list_push, touchdb_list_pop
  <2> QED
    BY Zenon, <2>1
<1>3. lost = <<>>
  BY <1>2 DEF WriterOK
<1>4. PICK C, N, fin, n : Sound(C, N, fin, n)
  BY <1>2 DEF WriterOK
<1>5. WriterDoes(C)
  BY <1>1, <1>3, <1>4, WriterStep
<1>6. PICK C2, M, fin2, n2 : Sound(C2, M, fin2, n2)' /\ Effect(C, C2)
  BY <1>5 DEF WriterDoes
<1> QED
  BY <1>1, <1>2, <1>3, <1>4, <1>5, <1>6 DEF WriterDoes

(* Kills stay within their bound and are not forgotten. *)
LEMMA KillsStay ==
  ASSUME WriterOK, WriterNext
  PROVE  kills' \in 0 .. MAX_KILLS /\ (kills' = 0 => kills = 0)
<1>1. CASE kill
  BY Zenon, <1>1, KillCounts
<1>2. CASE ~kill
  BY Zenon, <1>2 DEF WriterOK, WriterNext, crash, Write, touchdb_put_str, touchdb_list_push_new, touchdb_list_push,
              touchdb_list_pop
<1> QED
  BY <1>1, <1>2

(* Every step keeps the invariant of the writer. *)
LEMMA OkStep ==
  ASSUME WriterOK, [ShmNext]_shmVars
  PROVE  WriterOK'
<1>1. CASE WriterNext
  <2>1. kills' \in 0 .. MAX_KILLS
    BY <1>1, KillsStay
  <2>2. ASSUME kills' = 0 PROVE lost' = <<>> /\ \E C, N, fin, n : Sound(C, N, fin, n)'
    BY <1>1, <2>2, WriterUnkilled
  <2> QED
    BY <2>1, <2>2 DEF WriterOK
<1>2. CASE UNCHANGED tables
  BY <1>2, OkStays
<1> QED
  BY <1>1, <1>2, WriterOrNone

(* The invariant of the writer, for every bound on calls and kills: until  *)
(* a call of the writer is killed, its files hold the tables before the    *)
(* running call or after it and its pending writes make the tables after   *)
(* it, so no text, link or entry is ever seen half made.                   *)
THEOREM WriterAlwaysOK == ShmSpec => []WriterOK
<1>1. ShmInit => WriterOK
  BY WriterInit
<1>2. WriterOK /\ [ShmNext]_shmVars => WriterOK'
  BY OkStep
<1> QED
  BY <1>1, <1>2, PTL DEF ShmSpec

(* The store that a client sees. *)
LEMMA KeptIs ==
  ASSUME NEW C, NEW N, NEW fin, NEW n, Sound(C, N, fin, n), lost = <<>>
  PROVE  Kept = C.kv /\ view = C.kv /\ C.kv = [k \in Keys |-> C.kv[k]]
<1>1. view = C.kv /\ C.kv = [k \in Keys |-> C.kv[k]]
  BY DEF Sound, Base, LiveIn, Live
<1>2. \A k \in Keys : k \notin DOMAIN lost
  OBVIOUS
<1>3. Kept = [k \in Keys |-> C.kv[k]]
  BY Zenon, <1>1, <1>2 DEF Kept
<1> QED
  BY <1>1, <1>3

(* A list that is popped is a sequence of texts. *)
LEMMA PoppedTexts ==
  ASSUME NEW C, NEW N, NEW fin, NEW n, Sound(C, N, fin, n), NEW k \in ListKeys, C.kv[k].kind = "list"
  PROVE  C.kv[k].texts \in Seq(Texts)
<1>1. LiveIn(mem, C) /\ k \in Keys
  BY DEF Sound, Base, Keys
<1>2. C.ent[k] # NIL
  <2> SUFFICES ASSUME C.ent[k] = NIL PROVE FALSE
    OBVIOUS
  <2>1. C.kv[k] = [kind |-> "absent"]
    BY <1>1 DEF LiveIn, Live, KeyLive
  <2> QED
    BY <2>1
<1>3. ValueLive(mem, C.own, C.ent[k], C.ns[k], k, C.kv[k])
  BY <1>1, <1>2 DEF LiveIn, Live, KeyLive
<1> QED
  BY <1>3 DEF ValueLive, ListLive

(* A step of the writer is a step of the store or none. *)
LEMMA StoreStep ==
  ASSUME WriterOK, WriterNext, kills' = 0
  PROVE  [Store!Next]_<<Kept, out>>
<1>1. PICK C, C2, N, fin, n, M, fin2, n2 :
        Sound(C, N, fin, n) /\ Sound(C2, M, fin2, n2)' /\ Effect(C, C2)
  BY WriterUnkilled
<1>2. lost = <<>> /\ lost' = <<>>
  BY WriterUnkilled
<1>3. Kept = C.kv /\ view = C.kv
  BY <1>1, <1>2, KeptIs
<1>4. view' = C2.kv /\ C2.kv = [k \in Keys |-> C2.kv[k]]
  BY <1>1 DEF Sound, Base, LiveIn, Live
<1>5. Kept' = C2.kv
  <2>1. \A k \in Keys : k \notin DOMAIN lost'
    BY <1>2
  <2>2. Kept' = [k \in Keys |-> view'[k]]
    BY <2>1 DEF Kept
  <2> QED
    BY <1>4, <2>2
<1>6. CASE C2 = C /\ view' = view /\ out' = out
  BY <1>3, <1>5, <1>6
<1>7. CASE /\ Grown(C, C2, call.op, call.key)
           /\ out' = IF call.op = "list_pop" THEN [out EXCEPT ![call.key] = C.kv[call.key].texts[1]] ELSE out
  <2>1. PICK op, k, kv, kv2 : op = call.op /\ k = call.key /\ kv = C.kv /\ kv2 = C2.kv
    OBVIOUS
  <2>2. Changed(op, k, kv, kv2) /\ k \in Keys
    BY <1>7, <2>1 DEF Grown
  <2>3. CASE op = "put_str" /\ \E t \in Texts : kv2 = [kv EXCEPT ![k] = [kind |-> "text", text |-> t]]
    <3>1. out' = out
      BY <1>7, <2>1, <2>3
    <3>2. PICK t \in Texts : kv2 = [kv EXCEPT ![k] = [kind |-> "text", text |-> t]]
      BY <2>3
    <3>3. Store!Put(k, t)
      BY <1>3, <1>5, <2>1, <3>1, <3>2 DEF Store!Put, Store!Text
    <3> QED
      BY <2>2, <3>3 DEF Store!Next
  <2>4. CASE /\ op \in {"list_new", "list_push"}
             /\ \E t \in Texts :
                  kv2 = [kv EXCEPT ![k] = [kind |-> "list",
                                           texts |-> IF @.kind = "list" THEN Append(@.texts, t) ELSE <<t>>]]
    <3>1. out' = out
      BY <1>7, <2>1, <2>4
    <3>2. PICK t \in Texts :
            kv2 = [kv EXCEPT ![k] = [kind |-> "list", texts |-> IF @.kind = "list" THEN Append(@.texts, t) ELSE <<t>>]]
      BY <2>4
    <3>3. Store!Push(k, t)
      BY <1>3, <1>5, <2>1, <3>1, <3>2 DEF Store!Push, Store!List
    <3> QED
      BY <2>2, <3>3 DEF Store!Next
  <2>5. CASE /\ op = "list_pop" /\ k \in ListKeys /\ kv[k].kind = "list" /\ kv[k].texts # <<>>
             /\ kv2 = [kv EXCEPT ![k] = [kind |-> "list", texts |-> Tail(@.texts)]]
    <3>1. kv[k].texts \in Seq(Texts)
      BY <1>1, <2>1, <2>5, PoppedTexts
    <3>2. PICK s : s = kv[k].texts
      OBVIOUS
    <3>3. Head(s) = s[1]
      BY <2>5, <3>1, <3>2
    <3>4. out' = [out EXCEPT ![k] = Head(kv[k].texts)]
      BY <1>7, <2>1, <2>5, <3>2, <3>3
    <3>5. Store!Pop(k)
      BY <1>3, <1>5, <2>1, <2>5, <3>4 DEF Store!Pop, Store!List
    <3> QED
      BY <2>2, <3>5 DEF Store!Next
  <2> QED
    BY <2>2, <2>3, <2>4, <2>5 DEF Changed
<1> QED
  BY <1>1, <1>6, <1>7 DEF Effect

(* Nobody but the caller's key changes. *)
LEMMA OnlyOwnStep ==
  ASSUME WriterOK, WriterNext, kills' = 0, NEW k \in Keys, view'[k] # view[k]
  PROVE  k = call.key
<1>1. PICK C, C2, N, fin, n, M, fin2, n2 :
        Sound(C, N, fin, n) /\ Sound(C2, M, fin2, n2)' /\ Effect(C, C2)
  BY WriterUnkilled
<1>2. view = C.kv /\ view' = C2.kv
  BY <1>1 DEF Sound
<1>3. Grown(C, C2, call.op, call.key)
  BY <1>1 DEF Effect
<1>4. PICK op, j, kv, kv2 : op = call.op /\ j = call.key /\ kv = C.kv /\ kv2 = C2.kv
  OBVIOUS
<1>5. Changed(op, j, kv, kv2)
  BY <1>3, <1>4 DEF Grown
<1>6. \E x : kv2 = [kv EXCEPT ![j] = x]
  BY <1>5 DEF Changed
<1> QED
  BY <1>2, <1>4, <1>6

(* What a step of any process does before the first kill. *)
LEMMA ShmStoreStep ==
  ASSUME WriterOK, [ShmNext]_shmVars, kills' = 0
  PROVE  [Store!Next]_<<Kept, out>>
<1>1. CASE WriterNext
  BY <1>1, StoreStep
<1>2. CASE UNCHANGED tables
  BY <1>2 DEF tables, Kept
<1> QED
  BY <1>1, <1>2, WriterOrNone

LEMMA ShmOnlyOwnStep ==
  ASSUME WriterOK, [ShmNext]_shmVars, kills' = 0, NEW k \in Keys, view'[k] # view[k]
  PROVE  k = call.key
<1>1. CASE WriterNext
  BY <1>1, OnlyOwnStep
<1>2. CASE UNCHANGED tables
  BY <1>2 DEF tables
<1> QED
  BY <1>1, <1>2, WriterOrNone

(* "a key-value memory store": seen by readers between the writes, the     *)
(* calls of a writer that is not killed are calls of the store.            *)
THEOREM ShmImplementsStore ==
  ASSUME MAX_KILLS = 0
  PROVE  ShmSpec => ImplementsStore
<1>1. ShmInit => Store!Init
  <2> SUFFICES ASSUME ShmInit PROVE Store!Init
    OBVIOUS
  <2>1. PICK C : C = NoTables
    OBVIOUS
  <2>2. Sound(C, C, mem, 0) /\ lost = <<>> /\ out = [k \in Keys |-> None]
    BY <2>1, SoundFirst DEF ShmInit
  <2>3. Kept = C.kv
    BY <2>2, KeptIs
  <2>4. C.kv = [k \in Keys |-> [kind |-> "absent"]]
    BY <2>1 DEF NoTables
  <2> QED
    BY <2>2, <2>3, <2>4 DEF Store!Init, Store!Absent
<1>2. WriterOK /\ WriterOK' /\ [ShmNext]_shmVars => [Store!Next]_<<Kept, out>>
  <2>1. WriterOK' => kills' = 0
    BY ShmAssumption DEF WriterOK
  <2> QED
    BY <2>1, ShmStoreStep
<1> QED
  BY <1>1, <1>2, WriterAlwaysOK, PTL DEF ShmSpec, ImplementsStore, Store!Spec

(* The same with kills: every step before the first kill is a step of the  *)
(* store or none.                                                          *)
THEOREM StoreUntilAKill == ShmSpec => [][kills' = 0 => [Store!Next]_<<Kept, out>>]_shmVars
<1>1. WriterOK /\ [ShmNext]_shmVars => [kills' = 0 => [Store!Next]_<<Kept, out>>]_shmVars
  BY ShmStoreStep
<1> QED
  BY <1>1, WriterAlwaysOK, PTL DEF ShmSpec

(* No write of a call changes what can be read under another key. *)
THEOREM WritesOnlyOwnKey ==
  ASSUME MAX_KILLS = 0
  PROVE  ShmSpec => OnlyOwnKey
<1>1. WriterOK /\ WriterOK' /\ [ShmNext]_shmVars
        => [\A k \in Keys \ DOMAIN lost : view'[k] # view[k] => k = call.key]_shmVars
  <2>1. WriterOK' => kills' = 0
    BY ShmAssumption DEF WriterOK
  <2> QED
    BY <2>1, ShmOnlyOwnStep
<1> QED
  BY <1>1, WriterAlwaysOK, PTL DEF ShmSpec, OnlyOwnKey

(* The same with kills: no write before the first kill changes another     *)
(* key, not even one that has taken a block of it.                         *)
THEOREM OwnKeyUntilAKill ==
  ShmSpec => [][kills' = 0 => \A k \in Keys : view'[k] # view[k] => k = call.key]_shmVars
<1>1. WriterOK /\ [ShmNext]_shmVars
        => [kills' = 0 => \A k \in Keys : view'[k] # view[k] => k = call.key]_shmVars
  BY ShmOnlyOwnStep
<1> QED
  BY <1>1, WriterAlwaysOK, PTL DEF ShmSpec

(* The hazard of touchdb_chain_push_tail, which writes through what         *)
(* chain_tail returns when the size is not 0: however long the lists were  *)
(* pushed and popped, no write of a call before the first kill goes to a   *)
(* tail, or to anything else, that is NULL.                                *)
THEOREM ShmNoNullWrite == ShmSpec => []NoNullWrite
<1>1. WriterOK => NoNullWrite
  BY NotNull DEF WriterOK, NoNullWrite
<1> QED
  BY <1>1, WriterAlwaysOK, PTL
=============================================================================
