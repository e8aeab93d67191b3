----------------------- MODULE TouchdbShmReaderProofs -----------------------
(***************************************************************************)
(* Proofs about the readers of TouchdbShm, for every set of keys and       *)
(* texts, number of buckets, readers, calls and kills.                     *)
(*                                                                         *)
(* A reader is on a block that the tables of TouchdbShmProofs say its call *)
(* may meet: the invariant relates where it is, and what it has seen, to   *)
(* the tables that the memory holds now.                                   *)
(***************************************************************************)
EXTENDS TouchdbShmProofs

-----------------------------------------------------------------------------
(* The readers that look for a key. *)

(* What touchdb_get_str and touchdb_list_node_idx answer in the store kv. *)
AnswerIn(kv, k, x) ==
  CASE k \in StrKeys /\ kv[k].kind = "text" -> kv[k].text
    [] k \in ListKeys /\ kv[k].kind = "list" -> IF x \in DOMAIN kv[k].texts THEN kv[k].texts[x] ELSE None
    [] OTHER -> None

HasAnswer(C, k, x) == C.ent[k] # NIL /\ (k \in ListKeys => x \in 1 .. Len(C.ns[k]))

(* The string that the answer is read from. *)
Source(m, C, k, x) == IF k \in StrKeys THEN m[C.ent[k]].val.addr ELSE m[C.ns[k][x]].val.addr

(* The reader q is on its way to the answer. *)
SeeksEntry(C, q, s) ==
  /\ q.pc = "bulk" => q.at = bulk(q.key)
  /\ q.pc \in {"entry", "next"} =>
       \E j \in 1 .. Len(s) : /\ q.at = C.ent[s[j]]
                              /\ \A l \in 1 .. Len(s) : s[l] = q.key => l >= j
                              /\ q.pc = "next" => s[j] # q.key
  /\ q.pc \in {"bulk", "entry", "next", "val", "chain"} => q.i = 1

SeeksValue(m, C, q) ==
  /\ q.pc \in {"val", "chain", "node"} => C.ent[q.key] # NIL
  /\ q.pc = "val" => q.at = C.ent[q.key]
  /\ q.pc = "chain" => q.key \in ListKeys /\ q.at = m[C.ent[q.key]].val.addr
  /\ q.pc = "node" => /\ q.key \in ListKeys /\ q.i \in 1 .. Len(C.ns[q.key])
                      /\ q.i <= q.idx /\ q.at = C.ns[q.key][q.i]

SeeksText(m, C, q) ==
  /\ q.pc \in {"str", "first", "second"} => HasAnswer(C, q.key, q.idx)
  /\ q.pc = "str" => q.at = Source(m, C, q.key, q.idx)
  /\ q.pc \in {"first", "second"} => q.at = m[Source(m, C, q.key, q.idx)].val.addr
  /\ q.pc = "second" => q.half = m[q.at].h1

OnWay(m, C, q) == SeeksEntry(C, q, C.es[slot(q.key)]) /\ SeeksValue(m, C, q) /\ SeeksText(m, C, q)

Asks(k, x) == (k \in StrKeys /\ x = 0) \/ (k \in ListKeys /\ x \in 1 .. MAX_INDEX)

(* The answer is what the string has that the value, or the node, leads to. *)
LEMMA SourceIs ==
  ASSUME NEW m, NEW C, LiveIn(m, C), NEW k, NEW x, Asks(k, x), HasAnswer(C, k, x)
  PROVE  /\ EntryLive(m, C.own, C.ent[k], k)
         /\ \E tag : tag # FREE /\ StrLive(m, C.own, Source(m, C, k, x), k, tag, AnswerIn(C.kv, k, x))
         /\ k \in ListKeys => Has(m, C.own, C.ns[k][x], {"node"}, <<"node", k, NIL>>)
<1>1. k \in Keys /\ (k \in StrKeys <=> k \notin ListKeys)
  BY ShmAssumption DEF Asks, Keys
<1>2. EntryLive(m, C.own, C.ent[k], k) /\ ValueLive(m, C.own, C.ent[k], C.ns[k], k, C.kv[k])
  BY <1>1 DEF HasAnswer, LiveIn, Live, KeyLive
<1>3. CASE k \in StrKeys
  <2>1. C.kv[k] = [kind |-> "text", text |-> C.kv[k].text]
    BY <1>2, <1>3 DEF ValueLive
  <2>2. StrLive(m, C.own, m[C.ent[k]].val.addr, k, <<"val", k, NIL>>, C.kv[k].text)
    BY <1>2, <1>3 DEF ValueLive
  <2>3. C.kv[k].kind = "text"
    BY <2>1
  <2>4. AnswerIn(C.kv, k, x) = C.kv[k].text
    BY <1>3, <2>3 DEF AnswerIn
  <2>5. <<"val", k, NIL>> # FREE
    BY Zenon DEF FREE
  <2> QED
    BY <1>1, <1>2, <1>3, <2>2, <2>4, <2>5 DEF Source
<1>4. CASE k \in ListKeys
  <2>1. C.kv[k] = [kind |-> "list", texts |-> C.kv[k].texts]
    BY <1>2, <1>4 DEF ValueLive
  <2>2. ListLive(m, C.own, m[C.ent[k]].val.addr, C.ns[k], k, C.kv[k].texts)
    BY <1>2, <1>4 DEF ValueLive
  <2>3. C.kv[k].kind = "list"
    BY <2>1
  <2>4. PICK n, t : n = C.ns[k][x] /\ t = C.kv[k].texts[x]
    OBVIOUS
  <2>5. PICK u : u = C.kv[k].texts
    OBVIOUS
  <2>6. x \in 1 .. Len(u)
    <3>1. Len(u) = Len(C.ns[k])
      BY <2>2, <2>5 DEF ListLive
    <3> QED
      BY <1>4, <3>1 DEF HasAnswer
  <2>7. x \in DOMAIN u
    <3>1. u \in Seq(Texts)
      BY <2>2, <2>5 DEF ListLive
    <3> QED
      BY <2>6, <3>1
  <2>8. NodeLive(m, C.own, n, Nth(C.ns[k], x + 1), k, t)
    <3>1. x \in 1 .. Len(C.ns[k])
      BY <1>4 DEF HasAnswer
    <3> QED
      BY <2>2, <2>4, <3>1 DEF ListLive
  <2>9. StrLive(m, C.own, m[n].val.addr, k, <<"str", k, n>>, t) /\ Has(m, C.own, n, {"node"}, <<"node", k, NIL>>)
    BY <2>8 DEF NodeLive
  <2>10. AnswerIn(C.kv, k, x) = t
    BY <1>1, <1>4, <2>3, <2>4, <2>5, <2>7 DEF AnswerIn
  <2>11. <<"str", k, n>> # FREE
    BY DEF FREE
  <2> QED
    BY <1>1, <1>2, <1>4, <2>4, <2>9, <2>10, <2>11 DEF Source
<1> QED
  BY <1>1, <1>3, <1>4 DEF Keys

(* Where there is nothing to find the answer is NULL. *)
LEMMA NoSource ==
  ASSUME NEW m, NEW C, LiveIn(m, C), NEW k, NEW x, Asks(k, x), ~HasAnswer(C, k, x)
  PROVE  AnswerIn(C.kv, k, x) = None
<1>1. k \in Keys /\ (k \in StrKeys <=> k \notin ListKeys)
  BY ShmAssumption DEF Asks, Keys
<1>2. CASE C.ent[k] = NIL
  <2>1. C.kv[k] = [kind |-> "absent"]
    BY <1>1, <1>2 DEF LiveIn, Live, KeyLive
  <2>2. C.kv[k].kind = "absent"
    BY <2>1
  <2> QED
    BY <2>2 DEF AnswerIn
<1>3. CASE C.ent[k] # NIL
  <2>1. k \in ListKeys /\ x \notin 1 .. Len(C.ns[k])
    BY <1>3 DEF HasAnswer
  <2>2. ValueLive(m, C.own, C.ent[k], C.ns[k], k, C.kv[k])
    BY <1>1, <1>3 DEF LiveIn, Live, KeyLive
  <2>3. PICK u : u = C.kv[k].texts
    BY Zenon
  <2>4. u \in Seq(Texts) /\ Len(u) = Len(C.ns[k])
    BY <2>1, <2>2, <2>3 DEF ValueLive, ListLive
  <2>5. x \notin DOMAIN u
    BY <2>1, <2>4
  <2> QED
    BY <1>1, <2>1, <2>3, <2>5 DEF AnswerIn
<1> QED
  BY <1>2, <1>3

(* What a call makes of the tables for a reader of k. *)
Moves(C, C2, k) == C2 = C \/ \E op, j : Grown(C, C2, op, j) /\ (op = "list_pop" => j # k)

(* A call takes no entry away and only appends to buckets. *)
LEMMA EntriesKept ==
  ASSUME NEW m, NEW C, LiveIn(m, C), NEW C2, C2 = C \/ \E op, j : Grown(C, C2, op, j)
  PROVE  /\ \A k \in Keys : C.ent[k] # NIL => C2.ent[k] = C.ent[k]
         /\ \A i \in Slots : C2.es[i] = C.es[i] \/ \E k \in Keys : C.ent[k] = NIL /\ C2.es[i] = Append(C.es[i], k)
<1>1. CASE C2 = C
  BY <1>1
<1>2. CASE \E op, j : Grown(C, C2, op, j)
  <2>1. PICK op, j : Grown(C, C2, op, j)
    BY <1>2
  <2> QED
    BY <2>1 DEF Grown
<1> QED
  BY <1>1, <1>2

(* The walk over a bucket goes on. *)
LEMMA SeeksEntryKept ==
  ASSUME NEW m, NEW C, LiveIn(m, C), NEW C2, NEW q, q.key \in Keys, Moves(C, C2, q.key),
         SeeksEntry(C, q, C.es[slot(q.key)])
  PROVE  SeeksEntry(C2, q, C2.es[slot(q.key)])
<1>1. PICK s, s2 : s = C.es[slot(q.key)] /\ s2 = C2.es[slot(q.key)]
  OBVIOUS
<1>2. C2 = C \/ \E op, j : Grown(C, C2, op, j)
  BY DEF Moves
<1>3. /\ \A k \in Keys : C.ent[k] # NIL => C2.ent[k] = C.ent[k]
      /\ \A i \in Slots : C2.es[i] = C.es[i] \/ \E k \in Keys : C.ent[k] = NIL /\ C2.es[i] = Append(C.es[i], k)
  BY ONLY LiveIn(m, C), <1>2, EntriesKept
<1>4. slot(q.key) \in Slots
  BY SlotIs
<1>5. s \in Seq(Keys) /\ \A j \in 1 .. Len(s) : s[j] \in Keys /\ C.ent[s[j]] # NIL
  <2>1. BucketLive(m, slot(q.key), C.ent, s)
    BY <1>1, <1>4 DEF LiveIn, Live
  <2> QED
    BY <2>1 DEF BucketLive
<1>6. PICK n : n = Len(s)
  OBVIOUS
<1>7. n \in Nat /\ (s2 = s \/ \E k \in Keys : s2 = Append(s, k))
  BY <1>1, <1>3, <1>4, <1>5, <1>6
<1>8. Len(s2) \in {n, n + 1} /\ \A j \in 1 .. n : s2[j] = s[j]
  BY <1>5, <1>6, <1>7
<1>9. ASSUME q.pc \in {"entry", "next"}
      PROVE  \E j \in 1 .. Len(s2) : /\ q.at = C2.ent[s2[j]]
                                     /\ \A l \in 1 .. Len(s2) : s2[l] = q.key => l >= j
                                     /\ q.pc = "next" => s2[j] # q.key
  <2>1. PICK j \in 1 .. n : /\ q.at = C.ent[s[j]]
                            /\ \A l \in 1 .. n : s[l] = q.key => l >= j
                            /\ q.pc = "next" => s[j] # q.key
    BY <1>1, <1>6, <1>9 DEF SeeksEntry
  <2>2. s2[j] = s[j] /\ C2.ent[s2[j]] = C.ent[s[j]] /\ j \in 1 .. Len(s2)
    BY <1>3, <1>5, <1>6, <1>7, <1>8
  <2>3. ASSUME NEW l \in 1 .. Len(s2), s2[l] = q.key PROVE l >= j
    <3>1. CASE l \in 1 .. n
      BY <1>8, <2>1, <2>3, <3>1
    <3>2. CASE l \notin 1 .. n
      BY <1>7, <1>8, <3>2
    <3> QED
      BY <3>1, <3>2
  <2> QED
    BY <2>1, <2>2, <2>3
<1>10. /\ q.pc = "bulk" => q.at = bulk(q.key)
       /\ q.pc \in {"bulk", "entry", "next", "val", "chain"} => q.i = 1
  BY DEF SeeksEntry
<1> QED
  BY <1>1, <1>9, <1>10 DEF SeeksEntry

(* The string of an answer stays where it is. *)
LEMMA NodesKept ==
  ASSUME NEW C, NEW C2, NEW k \in Keys, Moves(C, C2, k), C.ent[k] # NIL
  PROVE  /\ C2.ent[k] = C.ent[k]
         /\ k \in ListKeys => \A i \in 1 .. Len(C.ns[k]) : i \in 1 .. Len(C2.ns[k]) /\ C2.ns[k][i] = C.ns[k][i]
<1>1. CASE C2 = C
  BY <1>1
<1>2. CASE \E op, j : Grown(C, C2, op, j) /\ (op = "list_pop" => j # k)
  <2>1. PICK op, j : Grown(C, C2, op, j) /\ (op = "list_pop" => j # k)
    BY <1>2
  <2>2. CASE j # k
    <3>1. C2.ent[k] = C.ent[k] /\ C2.ns[k] = C.ns[k]
      BY <2>1, <2>2 DEF Grown
    <3> QED
      BY <3>1
  <2>3. CASE j = k
    <3>1. C2.ent[k] = C.ent[k]
      BY <2>1, <2>3 DEF Grown
    <3>2. op = "list_push"
      BY <2>1, <2>3 DEF Grown, Changed
    <3>3. Len(C.ns[k]) <= Len(C2.ns[k]) /\ \A i \in 1 .. Len(C.ns[k]) : C2.ns[k][i] = C.ns[k][i]
      BY <2>1, <2>3, <3>2 DEF Grown
    <3>4. ASSUME NEW i \in 1 .. Len(C.ns[k]) PROVE i \in 1 .. Len(C2.ns[k])
      BY <3>3
    <3> QED
      BY <3>1, <3>3, <3>4
  <2> QED
    BY <2>2, <2>3
<1> QED
  BY <1>1, <1>2 DEF Moves

(* What is somebody's and no link stays. *)
LEMMA SteadyIs ==
  ASSUME NEW m, NEW m2, NEW own, Steady(m, m2, own), NEW b, NEW cs, NEW tag, Has(m, own, b, cs, tag), tag # FREE,
         NEW f, f \in Fields(b[1]), f \notin Links
  PROVE  m2[b][f] = m[b][f]
BY DEF Has, Steady

(* The string of an answer, and its text, stay where they are. *)
LEMMA SourceKept ==
  ASSUME NEW m, NEW C, LiveIn(m, C), NEW m2, Steady(m, m2, C.own), NEW k, NEW x, Asks(k, x),
         HasAnswer(C, k, x), NEW C2, Moves(C, C2, k)
  PROVE  /\ HasAnswer(C2, k, x) /\ Source(m2, C2, k, x) = Source(m, C, k, x)
         /\ m2[Source(m, C, k, x)].val = m[Source(m, C, k, x)].val
         /\ m2[m[Source(m, C, k, x)].val.addr].h1 = m[m[Source(m, C, k, x)].val.addr].h1
<1>1. k \in Keys /\ (k \in StrKeys <=> k \notin ListKeys)
  BY ShmAssumption DEF Asks, Keys
<1>2. /\ EntryLive(m, C.own, C.ent[k], k)
      /\ \E tag : tag # FREE /\ StrLive(m, C.own, Source(m, C, k, x), k, tag, AnswerIn(C.kv, k, x))
      /\ k \in ListKeys => Has(m, C.own, C.ns[k][x], {"node"}, <<"node", k, NIL>>)
  BY SourceIs
<1>3. /\ C2.ent[k] = C.ent[k]
      /\ k \in ListKeys => \A i \in 1 .. Len(C.ns[k]) : i \in 1 .. Len(C2.ns[k]) /\ C2.ns[k][i] = C.ns[k][i]
  BY <1>1, NodesKept DEF HasAnswer
<1>4. /\ C.ent[k] # NIL
      /\ k \in ListKeys => x \in 1 .. Len(C.ns[k]) /\ x \in 1 .. Len(C2.ns[k]) /\ C2.ns[k][x] = C.ns[k][x]
  BY <1>3 DEF HasAnswer
<1>5. HasAnswer(C2, k, x)
  BY <1>3, <1>4 DEF HasAnswer
<1>6. "val" \notin Links /\ "h1" \notin Links /\ "val" \in Fields("pair") /\ "val" \in Fields("entry") /\ "val" \in Fields("node")
  BY DEF Links, Fields
<1>7. PICK e, n, s, d : e = C.ent[k] /\ n = C.ns[k][x] /\ s = Source(m, C, k, x) /\ d = m[Source(m, C, k, x)].val.addr
  OBVIOUS
<1>8. m2[e].val = m[e].val
  <2>1. Has(m, C.own, e, {"entry"}, <<"entry", k, NIL>>) /\ <<"entry", k, NIL>> # FREE
    BY <1>2, <1>7 DEF EntryLive, FREE
  <2>2. "val" \in Fields(e[1])
    BY <1>6, <2>1 DEF Has
  <2> QED
    BY <1>6, <2>1, <2>2, SteadyIs
<1>9. k \in ListKeys => m2[n].val = m[n].val
  <2> SUFFICES ASSUME k \in ListKeys PROVE m2[n].val = m[n].val
    OBVIOUS
  <2>1. Has(m, C.own, n, {"node"}, <<"node", k, NIL>>) /\ <<"node", k, NIL>> # FREE
    BY <1>2, <1>7 DEF FREE
  <2>2. "val" \in Fields(n[1])
    BY <1>6, <2>1 DEF Has
  <2> QED
    BY <1>6, <2>1, <2>2, SteadyIs
<1>10. Source(m2, C2, k, x) = s
  <2>1. CASE k \in StrKeys
    BY Zenon, <1>3, <1>7, <1>8, <2>1 DEF Source
  <2>2. CASE k \notin StrKeys
    BY <1>1, <1>4, <1>7, <1>9, <2>2 DEF Source
  <2> QED
    BY <2>1, <2>2
<1>11. PICK tag, t : tag # FREE /\ StrLive(m, C.own, s, k, tag, t)
  BY <1>2, <1>7
<1>12. Has(m, C.own, s, {"pair"}, tag) /\ Has(m, C.own, d, TextClasses, <<"text", k, s>>)
  BY <1>7, <1>11 DEF StrLive
<1>13. m2[s].val = m[s].val
  <2>1. "val" \in Fields(s[1])
    BY <1>6, <1>12 DEF Has
  <2> QED
    BY <1>6, <1>11, <1>12, <2>1, SteadyIs
<1>14. m2[d].h1 = m[d].h1
  <2>1. "h1" \in Fields(d[1])
    BY <1>12 DEF Has, TextClasses, Fields
  <2>2. <<"text", k, s>> # FREE
    BY DEF FREE
  <2> QED
    BY <1>6, <1>12, <2>1, <2>2, SteadyIs
<1> QED
  BY <1>5, <1>7, <1>10, <1>13, <1>14

(* A reader stays on its way. *)
LEMMA OnWayKept ==
  ASSUME NEW m, NEW C, LiveIn(m, C), NEW m2, Steady(m, m2, C.own), NEW q, Asks(q.key, q.idx),
         NEW C2, Moves(C, C2, q.key), OnWay(m, C, q)
  PROVE  OnWay(m2, C2, q)
<1>1. PICK k, x : k = q.key /\ x = q.idx
  OBVIOUS
<1>2. k \in Keys
  BY <1>1 DEF Asks, Keys
<1>3. SeeksEntry(C2, q, C2.es[slot(q.key)])
  <2>1. SeeksEntry(C, q, C.es[slot(q.key)])
    BY DEF OnWay
  <2> QED
    BY <1>1, <1>2, <2>1, SeeksEntryKept
<1>4. C.ent[k] # NIL =>
        /\ C2.ent[k] = C.ent[k]
        /\ k \in ListKeys => \A i \in 1 .. Len(C.ns[k]) : i \in 1 .. Len(C2.ns[k]) /\ C2.ns[k][i] = C.ns[k][i]
  BY <1>1, <1>2, NodesKept
<1>5. C.ent[k] # NIL => m2[C.ent[k]].val = m[C.ent[k]].val
  <2> SUFFICES ASSUME C.ent[k] # NIL PROVE m2[C.ent[k]].val = m[C.ent[k]].val
    OBVIOUS
  <2>1. EntryLive(m, C.own, C.ent[k], k)
    BY <1>2 DEF LiveIn, Live, KeyLive
  <2>2. Has(m, C.own, C.ent[k], {"entry"}, <<"entry", k, NIL>>) /\ <<"entry", k, NIL>> # FREE
    BY <2>1 DEF EntryLive, FREE
  <2>3. "val" \in Fields(C.ent[k][1]) /\ "val" \notin Links
    BY <2>2 DEF Has, Fields, Links
  <2> QED
    BY <2>2, <2>3, SteadyIs
<1>6. SeeksValue(m2, C2, q)
  <2>1. SeeksValue(m, C, q)
    BY DEF OnWay
  <2> QED
    BY <1>1, <1>4, <1>5, <2>1 DEF SeeksValue
<1>7. SeeksText(m2, C2, q)
  <2>1. SeeksText(m, C, q)
    BY DEF OnWay
  <2> SUFFICES ASSUME q.pc \in {"str", "first", "second"} PROVE SeeksText(m2, C2, q)
    BY DEF SeeksText
  <2>2. HasAnswer(C, k, x)
    BY <1>1, <2>1 DEF SeeksText
  <2>3. /\ HasAnswer(C2, k, x) /\ Source(m2, C2, k, x) = Source(m, C, k, x)
        /\ m2[Source(m, C, k, x)].val = m[Source(m, C, k, x)].val
        /\ m2[m[Source(m, C, k, x)].val.addr].h1 = m[m[Source(m, C, k, x)].val.addr].h1
    BY <1>1, <2>2, SourceKept
  <2> QED
    BY <1>1, <2>1, <2>3 DEF SeeksText
<1> QED
  BY <1>3, <1>6, <1>7 DEF OnWay

-----------------------------------------------------------------------------
(* The steps of a reader that looks for a key. *)

SeekPcs == {"bulk", "entry", "next", "val", "chain", "node", "str", "first", "second"}

SeekRec(q) ==
  /\ q = [pc |-> q.pc, key |-> q.key, idx |-> q.idx, at |-> q.at, i |-> q.i, half |-> q.half]
  /\ q.pc \in SeekPcs /\ Asks(q.key, q.idx)

Seeking(m, C, q, s, free) == SeekRec(q) /\ AnswerIn(C.kv, q.key, q.idx) \in s /\ (free \/ OnWay(m, C, q))

Finished(q) == q.pc \in {"idle", "answered", "iterated"} /\ "key" \notin DOMAIN q /\ (q.pc # "idle" => q.right)

(* One record per reader. *)
OneEach == rd = [r \in Readers |-> rd[r]] /\ seen = [r \in Readers |-> seen[r]]

(* The others do not move. *)
Others(r) ==
  /\ OneEach' /\ \A o \in Readers \ {r} : rd'[o] = rd[o] /\ seen'[o] = seen[o] /\ (o \in disturbed' <=> o \in disturbed)

(* q2 is q at another place. *)
Placed(q, q2, pc, b) ==
  /\ q2.pc = pc /\ q2.at = b /\ q2.key = q.key /\ q2.idx = q.idx /\ q2.i = q.i /\ q2.half = q.half
  /\ SeekRec(q2)

(* A reader that goes to a block changes its place only. *)
LEMMA GotoIs ==
  ASSUME OneEach, NEW r \in Readers, SeekRec(rd[r]), NEW pc \in SeekPcs, NEW b, Goto(r, pc, b)
  PROVE  /\ Placed(rd[r], rd'[r], pc, b) /\ Others(r)
         /\ seen'[r] = seen[r] /\ (r \in disturbed' <=> r \in disturbed)
<1>1. seen' = seen /\ disturbed' = disturbed /\ rd' = [rd EXCEPT ![r].pc = pc, ![r].at = b]
  BY DEF Goto
<1>2. DOMAIN rd = Readers /\ rd = [o \in Readers |-> rd[o]]
  BY DEF OneEach
<1>3. OneEach' /\ \A o \in Readers \ {r} : rd'[o] = rd[o]
  BY <1>1, <1>2 DEF OneEach
<1>4. PICK q, q2 : q = rd[r] /\ q2 = rd'[r]
  OBVIOUS
<1>5. q2 = [[q EXCEPT !.pc = pc] EXCEPT !.at = b]
  BY <1>1, <1>2, <1>4
<1>6. q = [pc |-> q.pc, key |-> q.key, idx |-> q.idx, at |-> q.at, i |-> q.i, half |-> q.half] /\ Asks(q.key, q.idx)
  BY <1>4 DEF SeekRec
<1>7. q2 = [pc |-> pc, key |-> q.key, idx |-> q.idx, at |-> b, i |-> q.i, half |-> q.half]
  BY <1>5, <1>6
<1>8. Placed(q, q2, pc, b)
  BY <1>6, <1>7 DEF Placed, SeekRec
<1> QED
  BY <1>1, <1>3, <1>4, <1>8 DEF Others

(* A reader that returns what it has seen to be right ends its call right. *)
LEMMA ReturnIs ==
  ASSUME OneEach, NEW r \in Readers, NEW t, r \in disturbed \/ t \in seen[r], ReturnText(r, t)
  PROVE  Finished(rd'[r]) /\ Others(r)
<1>1. rd' = [rd EXCEPT ![r] = [pc |-> "answered", right |-> r \in disturbed \/ t \in seen[r]]]
  BY DEF ReturnText, Return
<1>2. seen' = [seen EXCEPT ![r] = {}] /\ disturbed' = disturbed \ {r}
  BY DEF ReturnText, Return
<1>3. OneEach' /\ \A o \in Readers \ {r} : rd'[o] = rd[o] /\ seen'[o] = seen[o]
  BY <1>1, <1>2 DEF OneEach
<1>4. rd'[r] = [pc |-> "answered", right |-> r \in disturbed \/ t \in seen[r]]
  BY <1>1 DEF OneEach
<1>5. rd'[r].pc = "answered" /\ "key" \notin DOMAIN rd'[r] /\ rd'[r].right
  <2>1. PICK v : v = (r \in disturbed \/ t \in seen[r])
    OBVIOUS
  <2>2. rd'[r] = [pc |-> "answered", right |-> v]
    BY <1>4, <2>1
  <2>3. rd'[r].pc = "answered" /\ "key" \notin DOMAIN rd'[r] /\ rd'[r].right = v
    BY <2>2
  <2>4. v
    BY <2>1, Zenon
  <2> QED
    BY <2>3, <2>4, Zenon
<1>6. Finished(rd'[r])
  BY <1>5 DEF Finished
<1> QED
  BY <1>2, <1>3, <1>6 DEF Others

(* A disturbed reader goes on, or answers what it likes. *)
Sought(m, C, r) ==
  /\ Others(r)
  /\ \/ Finished(rd'[r])
     \/ /\ Seeking(m, C, rd'[r], seen'[r], r \in disturbed')
        /\ rd'[r].key = rd[r].key /\ (r \in disturbed' <=> r \in disturbed)

(* A reader that follows a link ends its call or goes on. *)
LEMMA MoveIs ==
  ASSUME OneEach, NEW r \in Readers, NEW m, NEW C, Seeking(m, C, rd[r], seen[r], r \in disturbed),
         NEW pc \in SeekPcs, NEW b, Move(r, pc, b),
         r \notin disturbed => /\ b # WILD
                               /\ b = NIL => None = AnswerIn(C.kv, rd[r].key, rd[r].idx)
                               /\ \A q2 : b # NIL /\ Placed(rd[r], q2, pc, b) => OnWay(m, C, q2)
  PROVE  Sought(m, C, r)
<1>1. SeekRec(rd[r]) /\ AnswerIn(C.kv, rd[r].key, rd[r].idx) \in seen[r]
  BY DEF Seeking
<1>2. CASE b = NIL
  <2>1. ReturnText(r, None)
    BY <1>2, Apart DEF Move
  <2>2. r \in disturbed \/ None \in seen[r]
    BY <1>1, <1>2
  <2> QED
    BY <2>1, <2>2, ReturnIs DEF Sought
<1>3. CASE b = WILD
  <2>1. NIL # WILD /\ r \in disturbed
    BY <1>3, Apart
  <2>2. ReturnText(r, WILD)
    BY <1>3, <2>1 DEF Move
  <2> QED
    BY <2>1, <2>2, ReturnIs DEF Sought
<1>4. CASE b # NIL /\ b # WILD
  <2>1. Goto(r, pc, b)
    BY <1>4 DEF Move
  <2>2. /\ Placed(rd[r], rd'[r], pc, b) /\ Others(r)
        /\ seen'[r] = seen[r] /\ (r \in disturbed' <=> r \in disturbed)
    BY <1>1, <2>1, GotoIs
  <2>3. r \in disturbed \/ OnWay(m, C, rd'[r])
    BY <1>4, <2>2
  <2>4. Seeking(m, C, rd'[r], seen'[r], r \in disturbed')
    BY <1>1, <2>2, <2>3 DEF Seeking, Placed
  <2>5. rd'[r].key = rd[r].key
    BY Zenon, <2>2 DEF Placed
  <2> QED
    BY <2>2, <2>4, <2>5 DEF Sought
<1> QED
  BY <1>2, <1>3, <1>4

Known(C) == Shaped(mem) /\ LiveIn(mem, C) /\ ListTextClass = "text"

(* A reader r that looks for a key. *)
Looks(C, r) == OneEach /\ r \in Readers /\ Known(C) /\ Seeking(mem, C, rd[r], seen[r], r \in disturbed)

(* Reads of the bucket i find the entries of the keys s. *)
ReadsAlong(C, i, s) ==
  /\ s \in Seq(Keys)
  /\ mem[Bulk(i)].header = IF s = <<>> THEN NIL ELSE C.ent[s[1]]
  /\ \A j \in 1 .. Len(s) :
       /\ s[j] \in Keys /\ C.ent[s[j]] # NIL /\ C.ent[s[j]] # WILD /\ EntryLive(mem, C.own, C.ent[s[j]], s[j])
       /\ Read(C.ent[s[j]], "next") = IF j < Len(s) THEN C.ent[s[j + 1]] ELSE NIL
       /\ slot(s[j]) = i
  /\ \A j, l \in 1 .. Len(s) : s[j] = s[l] => j = l

(* The bucket i, as reads of it find it. *)
LEMMA AlongBucket ==
  ASSUME NEW C, Known(C), NEW i \in Slots
  PROVE  ReadsAlong(C, i, C.es[i])
<1>0. PICK s : s = C.es[i]
  OBVIOUS
<1>1. BucketLive(mem, i, C.ent, s)
  BY <1>0 DEF Known, LiveIn, Live
<1>2. ASSUME NEW j \in 1 .. Len(s)
      PROVE  /\ s[j] \in Keys /\ C.ent[s[j]] # NIL /\ C.ent[s[j]] # WILD /\ EntryLive(mem, C.own, C.ent[s[j]], s[j])
             /\ Read(C.ent[s[j]], "next") = IF j < Len(s) THEN C.ent[s[j + 1]] ELSE NIL
             /\ slot(s[j]) = i
  <2>1. s[j] \in Keys /\ C.ent[s[j]] # NIL /\ slot(s[j]) = i
    BY <1>1 DEF BucketLive
  <2>2. PICK e : e = C.ent[s[j]]
    OBVIOUS
  <2>3. EntryLive(mem, C.own, e, s[j])
    BY <2>1, <2>2 DEF Known, LiveIn, Live, KeyLive
  <2>4. e \in Blks /\ e[1] = "entry" /\ e \in DOMAIN mem
    BY <2>3 DEF EntryLive, Has
  <2>5. e # WILD /\ e \in Addr /\ "next" \in Fields(e[1])
    BY <2>4, Apart DEF Fields
  <2>6. Read(e, "next") = mem[e].next
    BY <2>4, <2>5, ReadIs DEF Known
  <2>7. mem[e].next = IF j < Len(s) THEN C.ent[s[j + 1]] ELSE NIL
    BY <1>1, <2>2 DEF BucketLive, Known, Ends
  <2> QED
    BY <2>1, <2>2, <2>3, <2>5, <2>6, <2>7
<1> QED
  BY <1>0, <1>1, <1>2 DEF BucketLive, ReadsAlong

(* The bucket of a key. *)
LEMMA InBucket ==
  ASSUME NEW C, Known(C), NEW k \in Keys
  PROVE  /\ ReadsAlong(C, slot(k), C.es[slot(k)]) /\ bulk(k) = Bulk(slot(k))
         /\ C.ent[k] # NIL => \E j \in 1 .. Len(C.es[slot(k)]) : C.es[slot(k)][j] = k
<1>1. slot(k) \in Slots /\ bulk(k) = Bulk(slot(k))
  BY SlotIs
<1>2. ReadsAlong(C, slot(k), C.es[slot(k)])
  BY ONLY Known(C), <1>1, AlongBucket
<1>3. C.ent[k] # NIL => \E j \in 1 .. Len(C.es[slot(k)]) : C.es[slot(k)][j] = k
  BY DEF Known, LiveIn, Live
<1> QED
  BY <1>1, <1>2, <1>3

(* A key that is not in its bucket is not in the store. *)
LEMMA NotThere ==
  ASSUME NEW C, Known(C), NEW k, NEW x, Asks(k, x), NEW s, s = C.es[slot(k)], \A j \in 1 .. Len(s) : s[j] # k
  PROVE  AnswerIn(C.kv, k, x) = None
<1>1. k \in Keys
  BY DEF Asks, Keys
<1>2. C.ent[k] = NIL
  BY <1>1, InBucket
<1> QED
  BY <1>2, NoSource DEF Known, HasAnswer

(* It reads the header of its bucket. *)
LEMMA GetBulk ==
  ASSUME NEW C, NEW r, Looks(C, r), get_bulk(r)
  PROVE  Sought(mem, C, r)
<1>1. PICK q, k, b, s : q = rd[r] /\ k = q.key /\ b = mem[q.at].header /\ s = C.es[slot(k)]
  OBVIOUS
<1>2. q.pc = "bulk" /\ Move(r, "entry", b)
  BY <1>1 DEF get_bulk, At
<1>3. SeekRec(q) /\ Asks(k, q.idx) /\ k \in Keys /\ "entry" \in SeekPcs
  BY <1>1 DEF Looks, Seeking, SeekRec, Asks, Keys, SeekPcs
<1>4. ASSUME r \notin disturbed
      PROVE  /\ b # WILD
             /\ b = NIL => None = AnswerIn(C.kv, k, q.idx)
             /\ \A q2 : b # NIL /\ Placed(q, q2, "entry", b) => OnWay(mem, C, q2)
  <2>1. q.at = bulk(k) /\ q.i = 1
    BY <1>1, <1>2, <1>4 DEF Looks, Seeking, OnWay, SeeksEntry
  <2>2. /\ s \in Seq(Keys)
        /\ b = IF s = <<>> THEN NIL ELSE C.ent[s[1]]
        /\ \A j \in 1 .. Len(s) : C.ent[s[j]] # NIL /\ C.ent[s[j]] # WILD
    <3>1. Known(C) /\ k \in Keys
      BY <1>3 DEF Looks
    <3>2. ReadsAlong(C, slot(k), s) /\ q.at = Bulk(slot(k))
      BY <1>1, <2>1, <3>1, InBucket
    <3> QED
      BY Zenon, <1>1, <3>2 DEF ReadsAlong
  <2>3. CASE s = <<>>
    <3>1. AnswerIn(C.kv, k, q.idx) = None
      <4>1. \A j \in 1 .. Len(s) : s[j] # k
        BY <2>3
      <4> QED
        BY <1>1, <1>3, <4>1, NotThere DEF Looks
    <3> QED
      BY <2>2, <2>3, <3>1, Apart
  <2>4. CASE s # <<>>
    <3>1. 1 \in 1 .. Len(s) /\ b = C.ent[s[1]]
      BY <2>2, <2>4
    <3>2. ASSUME NEW q2, Placed(q, q2, "entry", b) PROVE OnWay(mem, C, q2)
      <4>1. q2.pc = "entry" /\ q2.at = C.ent[s[1]] /\ q2.key = k /\ q2.i = 1
        BY <1>1, <2>1, <3>1, <3>2 DEF Placed
      <4>2. \A l \in 1 .. Len(s) : l >= 1
        OBVIOUS
      <4>3. SeeksEntry(C, q2, s)
        BY <3>1, <4>1, <4>2 DEF SeeksEntry
      <4> QED
        BY <1>1, <4>1, <4>3 DEF OnWay, SeeksValue, SeeksText
    <3> QED
      BY <2>2, <3>1, <3>2
  <2> QED
    BY <2>3, <2>4
<1> QED
  BY <1>1, <1>2, <1>3, <1>4, MoveIs DEF Looks

(* It reads the next link of an entry. *)
LEMMA NextEntry ==
  ASSUME NEW C, NEW r, Looks(C, r), next_entry(r)
  PROVE  Sought(mem, C, r)
<1>1. PICK q, k, b, s : q = rd[r] /\ k = q.key /\ b = Read(q.at, "next") /\ s = C.es[slot(k)]
  OBVIOUS
<1>2. q.pc = "next" /\ Move(r, "entry", b)
  BY <1>1 DEF next_entry, At
<1>3. SeekRec(q) /\ Asks(k, q.idx) /\ k \in Keys /\ "entry" \in SeekPcs
  BY <1>1 DEF Looks, Seeking, SeekRec, Asks, Keys, SeekPcs
<1>4. ASSUME r \notin disturbed
      PROVE  /\ b # WILD
             /\ b = NIL => None = AnswerIn(C.kv, k, q.idx)
             /\ \A q2 : b # NIL /\ Placed(q, q2, "entry", b) => OnWay(mem, C, q2)
  <2>1. /\ q.i = 1
        /\ \E j \in 1 .. Len(s) : /\ q.at = C.ent[s[j]] /\ \A l \in 1 .. Len(s) : s[l] = k => l >= j
                                  /\ s[j] # k
    BY Zenon, <1>1, <1>2, <1>4 DEF Looks, Seeking, OnWay, SeeksEntry
  <2>2. PICK j \in 1 .. Len(s) : q.at = C.ent[s[j]] /\ (\A l \in 1 .. Len(s) : s[l] = k => l >= j) /\ s[j] # k
    BY <2>1
  <2>3. /\ s \in Seq(Keys)
        /\ \A i \in 1 .. Len(s) : C.ent[s[i]] # NIL /\ C.ent[s[i]] # WILD
        /\ b = IF j < Len(s) THEN C.ent[s[j + 1]] ELSE NIL
    <3>1. /\ s \in Seq(Keys)
          /\ \A i \in 1 .. Len(s) :
               /\ C.ent[s[i]] # NIL /\ C.ent[s[i]] # WILD
               /\ Read(C.ent[s[i]], "next") = IF i < Len(s) THEN C.ent[s[i + 1]] ELSE NIL
      <4>1. Known(C) /\ k \in Keys
        BY <1>3 DEF Looks
      <4>2. ReadsAlong(C, slot(k), C.es[slot(k)])
        BY ONLY <4>1, InBucket
      <4>3. ReadsAlong(C, slot(k), s)
        BY ONLY Zenon, <1>1, <4>2
      <4> QED
        BY ONLY <4>3 DEF ReadsAlong
    <3>2. b = Read(C.ent[s[j]], "next")
      BY <1>1, <2>2
    <3>3. Read(C.ent[s[j]], "next") = IF j < Len(s) THEN C.ent[s[j + 1]] ELSE NIL
      BY <3>1
    <3> QED
      BY Zenon, <3>1, <3>2, <3>3
  <2>4. Len(s) \in Nat
    BY <2>3
  <2>5. CASE j < Len(s)
    <3>1. j + 1 \in 1 .. Len(s) /\ b = C.ent[s[j + 1]]
      BY <2>3, <2>4, <2>5
    <3>2. ASSUME NEW q2, Placed(q, q2, "entry", b) PROVE OnWay(mem, C, q2)
      <4>1. q2.pc = "entry" /\ q2.at = C.ent[s[j + 1]] /\ q2.key = k /\ q2.i = 1
        BY Zenon, <1>1, <2>1, <3>1, <3>2 DEF Placed
      <4>2. \A l \in 1 .. Len(s) : s[l] = k => l >= j + 1
        BY <2>2
      <4>3. SeeksEntry(C, q2, s)
        BY <3>1, <4>1, <4>2 DEF SeeksEntry
      <4> QED
        BY Zenon, <1>1, <4>1, <4>3 DEF OnWay, SeeksValue, SeeksText
    <3> QED
      BY <2>3, <3>1, <3>2
  <2>6. CASE ~(j < Len(s))
    <3>1. b = NIL /\ b # WILD
      BY <2>3, <2>6, Apart
    <3>2. \A l \in 1 .. Len(s) : s[l] # k
      BY <2>2, <2>4, <2>6
    <3>3. AnswerIn(C.kv, k, q.idx) = None
      BY <1>1, <1>3, <3>2, NotThere DEF Looks
    <3> QED
      BY <3>1, <3>3
  <2> QED
    BY Zenon, <2>5, <2>6
<1> QED
  BY <1>1, <1>2, <1>3, <1>4, MoveIs DEF Looks

(* A step that moves a reader to a block that may not be NULL. *)
LEMMA GoesOn ==
  ASSUME NEW C, NEW r, Looks(C, r), NEW pc \in SeekPcs, NEW b, Goto(r, pc, b),
         r \notin disturbed => \A q2 : Placed(rd[r], q2, pc, b) => OnWay(mem, C, q2)
  PROVE  Sought(mem, C, r)
<1>1. SeekRec(rd[r]) /\ AnswerIn(C.kv, rd[r].key, rd[r].idx) \in seen[r] /\ OneEach
  BY DEF Looks, Seeking
<1>2. /\ Placed(rd[r], rd'[r], pc, b) /\ Others(r)
      /\ seen'[r] = seen[r] /\ (r \in disturbed' <=> r \in disturbed)
  BY <1>1, GotoIs DEF Looks
<1>3. r \in disturbed \/ OnWay(mem, C, rd'[r])
  BY <1>2
<1>4. Seeking(mem, C, rd'[r], seen'[r], r \in disturbed')
  BY <1>1, <1>2, <1>3 DEF Seeking, Placed
<1>5. rd'[r].key = rd[r].key
  BY <1>2 DEF Placed
<1> QED
  BY <1>2, <1>4, <1>5 DEF Sought

(* It compares the key of an entry (get_entry). *)
LEMMA GetEntry ==
  ASSUME NEW C, NEW r, Looks(C, r), get_entry(r)
  PROVE  Sought(mem, C, r)
<1>1. PICK q, k, s, pc : q = rd[r] /\ k = q.key /\ s = C.es[slot(k)] /\ pc = IF IsKey(q.at, k) THEN "val" ELSE "next"
  OBVIOUS
<1>2. q.pc = "entry" /\ Goto(r, pc, q.at)
  BY <1>1 DEF get_entry, At
<1>3. Asks(k, q.idx) /\ k \in Keys /\ pc \in SeekPcs /\ Shaped(mem)
  BY <1>1 DEF Looks, Known, Seeking, SeekRec, Asks, Keys, SeekPcs
<1>4. ASSUME r \notin disturbed, NEW q2, Placed(q, q2, pc, q.at)
      PROVE  OnWay(mem, C, q2)
  <2>1. q.i = 1 /\ \E j \in 1 .. Len(s) : q.at = C.ent[s[j]] /\ \A l \in 1 .. Len(s) : s[l] = k => l >= j
    BY Zenon, <1>1, <1>2, <1>4 DEF Looks, Seeking, OnWay, SeeksEntry
  <2>2. PICK j \in 1 .. Len(s) : q.at = C.ent[s[j]] /\ \A l \in 1 .. Len(s) : s[l] = k => l >= j
    BY Zenon, <2>1
  <2>3. q2.pc = pc /\ q2.at = q.at /\ q2.key = k /\ q2.i = 1 /\ q2.idx = q.idx
    BY <1>1, <1>4, <2>1 DEF Placed
  <2>4. s[j] \in Keys /\ C.ent[s[j]] # NIL /\ EntryLive(mem, C.own, q.at, s[j])
    <3>1. \A i \in 1 .. Len(s) :
             s[i] \in Keys /\ C.ent[s[i]] # NIL /\ EntryLive(mem, C.own, C.ent[s[i]], s[i])
      <4>1. Known(C) /\ k \in Keys
        BY <1>3 DEF Looks
      <4>2. ReadsAlong(C, slot(k), C.es[slot(k)])
        BY ONLY <4>1, InBucket
      <4>3. ReadsAlong(C, slot(k), s)
        BY ONLY Zenon, <1>1, <4>2
      <4> QED
        BY ONLY <4>3 DEF ReadsAlong
    <3> QED
      BY <2>2, <3>1
  <2>5. IsKey(q.at, k) <=> k = s[j]
    BY <1>3, <2>4, IsKeyIs
  <2>6. SeeksEntry(C, q2, s)
    <3>1. pc = "next" => s[j] # k
      BY <1>1, <2>5
    <3>2. pc \in {"val", "next"}
      BY <1>1
    <3> QED
      BY <2>2, <2>3, <3>1, <3>2 DEF SeeksEntry
  <2>7. SeeksValue(mem, C, q2)
    <3>1. pc = "val" => C.ent[k] # NIL /\ q.at = C.ent[k]
      BY Zenon, <1>1, <2>2, <2>4, <2>5
    <3>2. pc \in {"val", "next"}
      BY <1>1
    <3> QED
      BY Zenon, <2>3, <3>1, <3>2 DEF SeeksValue
  <2>8. pc \in {"val", "next"}
    BY <1>1
  <2> QED
    BY Zenon, <1>1, <2>3, <2>6, <2>7, <2>8 DEF OnWay, SeeksText
<1> QED
  BY <1>1, <1>2, <1>3, <1>4, GoesOn

(* It reads the value of the entry. *)
LEMMA EntryVal ==
  ASSUME NEW C, NEW r, Looks(C, r), entry_val(r)
  PROVE  Sought(mem, C, r)
<1>1. PICK q, k, v, pc, b : q = rd[r] /\ k = q.key /\ v = mem[q.at].val /\ b = v.addr
                            /\ pc = IF v.type = CHAIN THEN "chain" ELSE "str"
  OBVIOUS
<1>2. q.pc = "val" /\ Move(r, pc, b)
  BY <1>1 DEF entry_val, At
<1>3. Asks(k, q.idx) /\ k \in Keys /\ pc \in SeekPcs /\ LiveIn(mem, C)
  BY <1>1 DEF Looks, Known, Seeking, SeekRec, Asks, Keys, SeekPcs
<1>4. ASSUME r \notin disturbed
      PROVE  /\ b # WILD /\ b # NIL
             /\ \A q2 : Placed(q, q2, pc, b) => OnWay(mem, C, q2)
  <2>1. q.i = 1 /\ q.at = C.ent[k] /\ C.ent[k] # NIL
    BY <1>1, <1>2, <1>4 DEF Looks, Seeking, OnWay, SeeksEntry, SeeksValue
  <2>2. ValueLive(mem, C.own, C.ent[k], C.ns[k], k, C.kv[k])
    BY <1>3, <2>1 DEF LiveIn, Live, KeyLive
  <2>3. CASE k \in StrKeys
    <3>1. v.type = STR /\ StrLive(mem, C.own, b, k, <<"val", k, NIL>>, C.kv[k].text)
      BY Zenon, <1>1, <2>1, <2>2, <2>3 DEF ValueLive
    <3>2. b \in Blks /\ pc = "str"
      BY Zenon, <1>1, <3>1 DEF StrLive, Has, STR, CHAIN
    <3>3. b # WILD /\ b # NIL
      BY <3>2, Apart
    <3>4. ASSUME NEW q2, Placed(q, q2, pc, b) PROVE OnWay(mem, C, q2)
      <4>1. q2.pc = "str" /\ q2.at = b /\ q2.key = k /\ q2.idx = q.idx
        BY <1>1, <3>2, <3>4 DEF Placed
      <4>2. HasAnswer(C, k, q.idx) /\ Source(mem, C, k, q.idx) = b
        BY Zenon, <1>1, <2>1, <2>3, ShmAssumption DEF HasAnswer, Source
      <4> QED
        BY <4>1, <4>2 DEF OnWay, SeeksEntry, SeeksValue, SeeksText
    <3> QED
      BY Zenon, <3>3, <3>4
  <2>4. CASE k \in ListKeys
    <3>1. v.type = CHAIN /\ ListLive(mem, C.own, b, C.ns[k], k, C.kv[k].texts)
      BY Zenon, <1>1, <2>1, <2>2, <2>4 DEF ValueLive
    <3>2. b \in Blks /\ pc = "chain"
      BY Zenon, <1>1, <3>1 DEF ListLive, Has
    <3>3. b # WILD /\ b # NIL
      BY <3>2, Apart
    <3>4. ASSUME NEW q2, Placed(q, q2, pc, b) PROVE OnWay(mem, C, q2)
      <4>1. q2.pc = "chain" /\ q2.at = b /\ q2.key = k /\ q2.idx = q.idx /\ q2.i = 1
        BY Zenon, <1>1, <2>1, <3>2, <3>4 DEF Placed
      <4> QED
        BY <1>1, <2>1, <2>4, <4>1 DEF OnWay, SeeksEntry, SeeksValue, SeeksText
    <3> QED
      BY <3>3, <3>4
  <2> QED
    BY <1>3, <2>3, <2>4 DEF Keys
<1> QED
  BY <1>1, <1>2, <1>3, <1>4, MoveIs DEF Looks

(* The chain of a list, and what a read of it finds. *)
LEMMA InChain ==
  ASSUME NEW C, Known(C), NEW k \in ListKeys, C.ent[k] # NIL, NEW s, s = C.ns[k]
  PROVE  /\ s \in Seq(Blks)
         /\ Read(mem[C.ent[k]].val.addr, "header") = Nth(s, 1)
         /\ \A i \in 1 .. Len(s) : /\ s[i] \in Blks /\ Read(s[i], "next") = Nth(s, i + 1)
                                   /\ ValueAt(s[i]) = mem[s[i]].val.addr
<1>1. k \in Keys
  BY DEF Keys
<1>2. ValueLive(mem, C.own, C.ent[k], s, k, C.kv[k])
  BY <1>1 DEF Known, LiveIn, Live, KeyLive
<1>3. PICK c : c = mem[C.ent[k]].val.addr
  OBVIOUS
<1>4. ListLive(mem, C.own, c, s, k, C.kv[k].texts)
  BY <1>2, <1>3 DEF ValueLive
<1>5. Read(c, "header") = Nth(s, 1)
  <2>1. c \in Blks /\ c[1] = "chain" /\ c \in DOMAIN mem /\ mem[c].header = Nth(s, 1)
    BY <1>4 DEF ListLive, Has
  <2>2. c \in Addr /\ "header" \in Fields(c[1])
    BY <2>1, Apart DEF Fields
  <2> QED
    BY <2>1, <2>2, ReadIs DEF Known
<1>6. ASSUME NEW i \in 1 .. Len(s)
      PROVE  s[i] \in Blks /\ Read(s[i], "next") = Nth(s, i + 1) /\ ValueAt(s[i]) = mem[s[i]].val.addr
  <2>1. PICK n : n = s[i]
    OBVIOUS
  <2>2. NodeLive(mem, C.own, n, Nth(s, i + 1), k, C.kv[k].texts[i])
    BY <1>4, <2>1 DEF ListLive
  <2>3. n \in Blks /\ n[1] = "node" /\ n \in DOMAIN mem /\ mem[n].next = Nth(s, i + 1)
    BY <2>2 DEF NodeLive, Has
  <2>4. n \in Addr /\ "next" \in Fields(n[1]) /\ "val" \in Fields(n[1])
    BY <2>3, Apart DEF Fields
  <2>5. Read(n, "next") = mem[n].next /\ ValueAt(n) = mem[n].val.addr
    BY <2>3, <2>4, ReadIs, ValueAtIs DEF Known
  <2> QED
    BY <2>1, <2>3, <2>5
<1> QED
  BY Zenon, <1>3, <1>4, <1>5, <1>6 DEF ListLive

(* It reads the header of the chain. *)
LEMMA ChainHeader ==
  ASSUME NEW C, NEW r, Looks(C, r), chain_header(r)
  PROVE  Sought(mem, C, r)
<1>1. PICK q, k, b, s : q = rd[r] /\ k = q.key /\ s = C.ns[k] /\ b = Read(q.at, "header")
  OBVIOUS
<1>2. q.pc = "chain" /\ Move(r, "node", b)
  BY <1>1 DEF chain_header, At
<1>3. Asks(k, q.idx) /\ k \in Keys /\ "node" \in SeekPcs /\ LiveIn(mem, C)
  BY <1>1 DEF Looks, Known, Seeking, SeekRec, Asks, Keys, SeekPcs
<1>4. ASSUME r \notin disturbed
      PROVE  /\ b # WILD
             /\ b = NIL => None = AnswerIn(C.kv, k, q.idx)
             /\ \A q2 : b # NIL /\ Placed(q, q2, "node", b) => OnWay(mem, C, q2)
  <2>1. k \in ListKeys /\ C.ent[k] # NIL /\ q.i = 1 /\ q.at = mem[C.ent[k]].val.addr
    BY Zenon, <1>1, <1>2, <1>4 DEF Looks, Seeking, OnWay, SeeksEntry, SeeksValue
  <2>2. /\ s \in Seq(Blks) /\ Read(mem[C.ent[k]].val.addr, "header") = Nth(s, 1)
        /\ \A i \in 1 .. Len(s) : s[i] \in Blks
    BY Zenon, <1>1, <2>1, InChain DEF Looks
  <2>3. q.idx \in 1 .. MAX_INDEX
    BY <1>3, <2>1, ShmAssumption DEF Asks
  <2>4. CASE 1 \in 1 .. Len(s)
    <3>1. b = s[1] /\ b \in Blks
      BY Zenon, <1>1, <2>1, <2>2, <2>4 DEF Nth
    <3>2. ASSUME NEW q2, Placed(q, q2, "node", b) PROVE OnWay(mem, C, q2)
      <4>1. q2.pc = "node" /\ q2.at = s[1] /\ q2.key = k /\ q2.idx = q.idx /\ q2.i = 1
        BY Zenon, <1>1, <2>1, <3>1, <3>2 DEF Placed
      <4>2. 1 <= q.idx
        BY <2>3
      <4> QED
        BY Zenon, <1>1, <2>1, <2>4, <4>1, <4>2 DEF OnWay, SeeksEntry, SeeksValue, SeeksText
    <3> QED
      BY <3>1, <3>2, Apart
  <2>5. CASE 1 \notin 1 .. Len(s)
    <3>1. b = NIL
      BY Zenon, <1>1, <2>1, <2>2, <2>5 DEF Nth
    <3>2. q.idx \notin 1 .. Len(s)
      <4>1. Len(s) \in Nat
        BY <2>2
      <4> QED
        BY <2>5, <4>1
    <3>3. AnswerIn(C.kv, k, q.idx) = None
      BY <1>1, <1>3, <2>1, <3>2, NoSource DEF HasAnswer
    <3> QED
      BY Zenon, <3>1, <3>3, Apart
  <2> QED
    BY <2>4, <2>5
<1> QED
  BY <1>1, <1>2, <1>3, <1>4, MoveIs DEF Looks

(* A step that changes a reader's record and nothing else. *)
LEMMA ChangeIs ==
  ASSUME OneEach, NEW r \in Readers, NEW q2, rd' = [rd EXCEPT ![r] = q2], UNCHANGED <<seen, disturbed>>
  PROVE  Others(r) /\ rd'[r] = q2 /\ seen'[r] = seen[r] /\ (r \in disturbed' <=> r \in disturbed)
BY DEF OneEach, Others

(* It reads the next link of a node (touchdb_chain_node_idx). *)
LEMMA NextNode ==
  ASSUME NEW C, NEW r, Looks(C, r), next_node(r)
  PROVE  Sought(mem, C, r)
<1>1. PICK q, k, b, s : q = rd[r] /\ k = q.key /\ s = C.ns[k] /\ b = Read(q.at, "next")
  OBVIOUS
<1>2. /\ q.pc = "node" /\ q.i < q.idx
      /\ IF b = NIL THEN ReturnText(r, None)
                    ELSE rd' = [rd EXCEPT ![r].at = b, ![r].i = @ + 1] /\ UNCHANGED <<seen, disturbed>>
  BY <1>1 DEF next_node, At
<1>3. /\ Asks(k, q.idx) /\ k \in Keys /\ LiveIn(mem, C) /\ OneEach /\ r \in Readers
      /\ AnswerIn(C.kv, k, q.idx) \in seen[r] /\ SeekRec(q)
  BY Zenon, <1>1 DEF Looks, Known, Seeking, SeekRec, Asks, Keys
<1>4. ASSUME r \notin disturbed
      PROVE  /\ k \in ListKeys /\ C.ent[k] # NIL /\ q.i \in 1 .. Len(s) /\ q.idx \in 1 .. MAX_INDEX
             /\ s \in Seq(Blks) /\ b = Nth(s, q.i + 1)
  <2>1. k \in ListKeys /\ C.ent[k] # NIL /\ q.i \in 1 .. Len(s) /\ q.at = s[q.i]
    BY <1>1, <1>2, <1>4 DEF Looks, Seeking, OnWay, SeeksValue
  <2>2. /\ s \in Seq(Blks)
        /\ Read(mem[C.ent[k]].val.addr, "header") = Nth(s, 1)
        /\ \A i \in 1 .. Len(s) : /\ s[i] \in Blks /\ Read(s[i], "next") = Nth(s, i + 1)
                                  /\ ValueAt(s[i]) = mem[s[i]].val.addr
    <3>1. Known(C) /\ k \in ListKeys /\ C.ent[k] # NIL /\ s = C.ns[k]
      BY <1>1, <2>1 DEF Looks
    <3> QED
      BY ONLY <3>1, InChain
  <2>3. q.idx \in 1 .. MAX_INDEX
    BY <1>3, <2>1, ShmAssumption DEF Asks
  <2> QED
    BY Zenon, <1>1, <2>1, <2>2, <2>3
<1>5. CASE b = NIL
  <2>1. r \in disturbed \/ None \in seen[r]
    <3> SUFFICES ASSUME r \notin disturbed PROVE None \in seen[r]
      OBVIOUS
    <3>1. /\ k \in ListKeys /\ q.i \in 1 .. Len(s) /\ q.idx \in 1 .. MAX_INDEX
          /\ s \in Seq(Blks) /\ b = Nth(s, q.i + 1)
      BY <1>4
    <3>2. PICK i : i = q.i
      OBVIOUS
    <3>3. i \in Nat /\ Len(s) \in Nat /\ i + 1 \in Nat /\ i >= 1
      BY <3>1, <3>2
    <3>4. i + 1 \notin 1 .. Len(s)
      <4> SUFFICES ASSUME i + 1 \in 1 .. Len(s) PROVE FALSE
        OBVIOUS
      <4>1. b = s[i + 1] /\ s[i + 1] \in Blks
        BY <3>1, <3>2 DEF Nth
      <4> QED
        BY <1>5, <4>1, Apart
    <3>5. q.idx \notin 1 .. Len(s)
      BY <1>2, <3>1, <3>2, <3>3, <3>4
    <3>6. AnswerIn(C.kv, k, q.idx) = None
      BY <1>1, <1>3, <3>1, <3>5, NoSource DEF HasAnswer
    <3> QED
      BY <1>3, <3>6
  <2> QED
    BY <1>2, <1>3, <1>5, <2>1, ReturnIs DEF Sought
<1>6. CASE b # NIL
  <2>1. PICK q2, v : v = q.i + 1
                     /\ q2 = [pc |-> "node", key |-> k, idx |-> q.idx, at |-> b, i |-> v, half |-> q.half]
    OBVIOUS
  <2>2. q = [pc |-> "node", key |-> k, idx |-> q.idx, at |-> q.at, i |-> q.i, half |-> q.half]
    BY <1>1, <1>2, <1>3 DEF SeekRec
  <2>3. DOMAIN rd = Readers
    BY <1>3 DEF OneEach
  <2>4. rd' = [rd EXCEPT ![r] = q2]
    <3>1. rd' = [[rd EXCEPT ![r].at = b] EXCEPT ![r].i = v]
      BY <1>1, <1>2, <1>3, <1>6, <2>1, <2>3
    <3>2. rd'[r] = [[q EXCEPT !.at = b] EXCEPT !.i = v]
      BY <1>1, <1>3, <2>3, <3>1
    <3>3. rd'[r] = q2
      <4>1. q2 = [pc |-> "node", key |-> k, idx |-> q.idx, at |-> b, i |-> v, half |-> q.half]
        BY <2>1
      <4>2. PICK q3 : q3 = [q EXCEPT !.at = b]
        OBVIOUS
      <4>3. q3 = [pc |-> "node", key |-> k, idx |-> q.idx, at |-> b, i |-> q.i, half |-> q.half]
        BY ONLY <2>2, <4>2
      <4>4. [q3 EXCEPT !.i = v] = [pc |-> "node", key |-> k, idx |-> q.idx, at |-> b, i |-> v, half |-> q.half]
        BY ONLY <4>3
      <4>5. rd'[r] = [q3 EXCEPT !.i = v]
        BY ONLY <3>2, <4>2
      <4> QED
        BY ONLY <4>1, <4>4, <4>5
    <3>4. DOMAIN rd' = Readers /\ \A o \in Readers \ {r} : rd'[o] = rd[o]
      BY <2>3, <3>1
    <3>5. rd' = [o \in Readers |-> rd'[o]]
      BY <2>3, <3>1
    <3> QED
      BY <2>3, <3>3, <3>4, <3>5
  <2>5. Others(r) /\ rd'[r] = q2 /\ seen'[r] = seen[r] /\ (r \in disturbed' <=> r \in disturbed)
    BY <1>2, <1>3, <1>6, <2>4, ChangeIs
  <2>6. q2.pc = "node" /\ q2.key = k /\ q2.idx = q.idx /\ q2.at = b /\ q2.i = q.i + 1
    BY <2>1
  <2>7. SeekRec(q2)
    <3>1. q2 = [pc |-> q2.pc, key |-> q2.key, idx |-> q2.idx, at |-> q2.at, i |-> q2.i, half |-> q2.half]
      BY <2>1
    <3> QED
      BY <1>3, <2>6, <3>1 DEF SeekRec, SeekPcs
  <2>8. r \in disturbed \/ OnWay(mem, C, q2)
    <3> SUFFICES ASSUME r \notin disturbed PROVE OnWay(mem, C, q2)
      OBVIOUS
    <3>1. /\ k \in ListKeys /\ C.ent[k] # NIL /\ q.i \in 1 .. Len(s) /\ q.idx \in 1 .. MAX_INDEX
          /\ b = Nth(s, q.i + 1)
      BY <1>4
    <3>2. q.i + 1 \in 1 .. Len(s) /\ b = s[q.i + 1]
      BY <1>6, <3>1 DEF Nth
    <3>3. q.i + 1 <= q.idx
      BY <1>2, <3>1
    <3> QED
      BY <1>1, <2>6, <3>1, <3>2, <3>3 DEF OnWay, SeeksEntry, SeeksValue, SeeksText
  <2>9. Seeking(mem, C, q2, seen'[r], r \in disturbed')
    BY <1>3, <2>5, <2>6, <2>7, <2>8 DEF Seeking
  <2> QED
    BY <1>1, <2>5, <2>6, <2>9 DEF Sought
<1> QED
  BY <1>5, <1>6

(* It reads the value of the node. *)
LEMMA NodeVal ==
  ASSUME NEW C, NEW r, Looks(C, r), node_val(r)
  PROVE  Sought(mem, C, r)
<1>1. PICK q, k, b, s : q = rd[r] /\ k = q.key /\ s = C.ns[k] /\ b = ValueAt(q.at)
  OBVIOUS
<1>2. q.pc = "node" /\ q.i = q.idx /\ Move(r, "str", b)
  BY <1>1 DEF node_val, At
<1>3. Asks(k, q.idx) /\ k \in Keys /\ "str" \in SeekPcs /\ LiveIn(mem, C)
  BY <1>1 DEF Looks, Known, Seeking, SeekRec, Asks, Keys, SeekPcs
<1>4. ASSUME r \notin disturbed
      PROVE  /\ b # WILD /\ b # NIL
             /\ \A q2 : Placed(q, q2, "str", b) => OnWay(mem, C, q2)
  <2>1. k \in ListKeys /\ C.ent[k] # NIL /\ q.idx \in 1 .. Len(s) /\ q.at = s[q.idx]
    BY Zenon, <1>1, <1>2, <1>4 DEF Looks, Seeking, OnWay, SeeksValue
  <2>2. \A i \in 1 .. Len(s) : ValueAt(s[i]) = mem[s[i]].val.addr
    BY <1>1, <2>1, InChain DEF Looks
  <2>3. HasAnswer(C, k, q.idx)
    BY <1>1, <2>1 DEF HasAnswer
  <2>4. b = Source(mem, C, k, q.idx)
    BY Zenon, <1>1, <2>1, <2>2, ShmAssumption DEF Source
  <2>5. b \in Blks
    BY <1>3, <2>3, <2>4, SourceIs DEF StrLive, Has
  <2>6. ASSUME NEW q2, Placed(q, q2, "str", b) PROVE OnWay(mem, C, q2)
    <3>1. q2.pc = "str" /\ q2.at = b /\ q2.key = k /\ q2.idx = q.idx
      BY <1>1, <2>6 DEF Placed
    <3> QED
      BY <2>3, <2>4, <3>1 DEF OnWay, SeeksEntry, SeeksValue, SeeksText
  <2> QED
    BY <2>5, <2>6, Apart
<1> QED
  BY <1>1, <1>2, <1>3, <1>4, MoveIs DEF Looks

(* The text of an answer. *)
LEMMA InText ==
  ASSUME NEW C, Known(C), NEW k, NEW x, Asks(k, x), HasAnswer(C, k, x), NEW s, s = Source(mem, C, k, x),
         NEW d, d = mem[s].val.addr
  PROVE  /\ ValueAt(s) = d /\ d \in Blks
         /\ Read(d, "h1") = mem[d].h1 /\ Read(d, "h2") = mem[d].h1 /\ mem[d].h1 = AnswerIn(C.kv, k, x)
<1>1. PICK t : t = AnswerIn(C.kv, k, x)
  OBVIOUS
<1>2. PICK tag : StrLive(mem, C.own, s, k, tag, t)
  <2>1. \E tag : tag # FREE /\ StrLive(mem, C.own, Source(mem, C, k, x), k, tag, AnswerIn(C.kv, k, x))
    BY SourceIs DEF Known
  <2> QED
    BY <1>1, <2>1
<1>3. /\ s \in Blks /\ s[1] = "pair" /\ s \in DOMAIN mem
      /\ d \in Blks /\ d[1] \in TextClasses /\ d \in DOMAIN mem /\ mem[d].h1 = t /\ mem[d].h2 = t
  BY <1>2 DEF StrLive, Has
<1>4. s \in Addr /\ "val" \in Fields(s[1]) /\ d \in Addr /\ "h1" \in Fields(d[1]) /\ "h2" \in Fields(d[1])
  BY <1>3, Apart DEF Fields, TextClasses
<1>5. ValueAt(s) = d
  BY <1>3, <1>4, ValueAtIs DEF Known
<1>6. Read(d, "h1") = mem[d].h1 /\ Read(d, "h2") = mem[d].h2
  BY <1>3, <1>4, ReadIs DEF Known
<1> QED
  BY <1>1, <1>3, <1>5, <1>6

(* It reads where the text of the string is. *)
LEMMA StrData ==
  ASSUME NEW C, NEW r, Looks(C, r), str_data(r)
  PROVE  Sought(mem, C, r)
<1>1. PICK q, k, b : q = rd[r] /\ k = q.key /\ b = ValueAt(q.at)
  OBVIOUS
<1>2. q.pc = "str" /\ Move(r, "first", b)
  BY <1>1 DEF str_data, At
<1>3. Asks(k, q.idx) /\ "first" \in SeekPcs
  BY <1>1 DEF Looks, Known, Seeking, SeekRec, SeekPcs
<1>4. ASSUME r \notin disturbed
      PROVE  /\ b # WILD /\ b # NIL
             /\ \A q2 : Placed(q, q2, "first", b) => OnWay(mem, C, q2)
  <2>1. HasAnswer(C, k, q.idx) /\ q.at = Source(mem, C, k, q.idx)
    BY <1>1, <1>2, <1>4 DEF Looks, Seeking, OnWay, SeeksText
  <2>2. PICK s, d : s = Source(mem, C, k, q.idx) /\ d = mem[s].val.addr
    OBVIOUS
  <2>3. ValueAt(s) = d /\ d \in Blks
    BY <1>3, <2>1, <2>2, InText DEF Looks
  <2>4. b = d
    BY <1>1, <2>1, <2>2, <2>3
  <2>5. ASSUME NEW q2, Placed(q, q2, "first", b) PROVE OnWay(mem, C, q2)
    <3>1. q2.pc = "first" /\ q2.at = b /\ q2.key = k /\ q2.idx = q.idx
      BY <1>1, <2>5 DEF Placed
    <3> QED
      BY <2>1, <2>2, <2>4, <3>1 DEF OnWay, SeeksEntry, SeeksValue, SeeksText
  <2> QED
    BY <2>3, <2>4, <2>5, Apart
<1> QED
  BY <1>1, <1>2, <1>3, <1>4, MoveIs DEF Looks

(* It reads the first half of the text. *)
LEMMA FirstHalf ==
  ASSUME NEW C, NEW r, Looks(C, r), first_half(r)
  PROVE  Sought(mem, C, r)
<1>1. PICK q, k, h, q2 : q = rd[r] /\ k = q.key /\ h = Read(q.at, "h1")
                         /\ q2 = [pc |-> "second", key |-> k, idx |-> q.idx, at |-> q.at, i |-> q.i, half |-> h]
  OBVIOUS
<1>2. /\ q.pc = "first" /\ rd' = [rd EXCEPT ![r].pc = "second", ![r].half = h]
      /\ UNCHANGED <<seen, disturbed>>
  BY <1>1 DEF first_half, At
<1>3. /\ Asks(k, q.idx) /\ OneEach /\ r \in Readers /\ SeekRec(q)
      /\ AnswerIn(C.kv, k, q.idx) \in seen[r]
  BY <1>1 DEF Looks, Known, Seeking, SeekRec
<1>4. DOMAIN rd = Readers
  BY <1>3 DEF OneEach
<1>5. rd' = [rd EXCEPT ![r] = q2]
  <2>1. q = [pc |-> q.pc, key |-> k, idx |-> q.idx, at |-> q.at, i |-> q.i, half |-> q.half]
    BY <1>1, <1>3 DEF SeekRec
  <2>2. rd' = [[rd EXCEPT ![r].pc = "second"] EXCEPT ![r].half = h]
    BY <1>2, <1>3, <1>4
  <2>3. rd'[r] = [[q EXCEPT !.pc = "second"] EXCEPT !.half = h]
    BY <1>1, <1>3, <1>4, <2>2
  <2>4. rd'[r] = q2
    BY <1>1, <2>1, <2>3
  <2>5. DOMAIN rd' = Readers /\ \A o \in Readers \ {r} : rd'[o] = rd[o]
    BY <1>4, <2>2
  <2>6. rd' = [o \in Readers |-> rd'[o]]
    BY <1>4, <2>2
  <2> QED
    BY <1>4, <2>4, <2>5, <2>6
<1>6. Others(r) /\ rd'[r] = q2 /\ seen'[r] = seen[r] /\ (r \in disturbed' <=> r \in disturbed)
  BY <1>2, <1>3, <1>5, ChangeIs
<1>7. q2.pc = "second" /\ q2.key = k /\ q2.idx = q.idx /\ q2.at = q.at /\ q2.half = h
  BY <1>1
<1>8. SeekRec(q2)
  <2>1. q2 = [pc |-> q2.pc, key |-> q2.key, idx |-> q2.idx, at |-> q2.at, i |-> q2.i, half |-> q2.half]
    BY Zenon, <1>1
  <2> QED
    BY <1>3, <1>7, <2>1 DEF SeekRec, SeekPcs
<1>9. r \in disturbed \/ OnWay(mem, C, q2)
  <2> SUFFICES ASSUME r \notin disturbed PROVE OnWay(mem, C, q2)
    OBVIOUS
  <2>1. HasAnswer(C, k, q.idx) /\ q.at = mem[Source(mem, C, k, q.idx)].val.addr
    BY <1>1, <1>2 DEF Looks, Seeking, OnWay, SeeksText
  <2>2. PICK s, d : s = Source(mem, C, k, q.idx) /\ d = mem[s].val.addr
    OBVIOUS
  <2>3. Read(d, "h1") = mem[d].h1
    BY <1>3, <2>1, <2>2, InText DEF Looks
  <2> QED
    BY Zenon, <1>1, <1>7, <2>1, <2>2, <2>3 DEF OnWay, SeeksEntry, SeeksValue, SeeksText
<1>10. Seeking(mem, C, q2, seen'[r], r \in disturbed')
  BY <1>3, <1>6, <1>7, <1>8, <1>9 DEF Seeking
<1> QED
  BY <1>1, <1>6, <1>7, <1>10 DEF Sought

(* It reads the second half, and returns. *)
LEMMA SecondHalf ==
  ASSUME NEW C, NEW r, Looks(C, r), second_half(r)
  PROVE  Sought(mem, C, r)
<1>1. PICK q, k, h, t : q = rd[r] /\ k = q.key /\ h = Read(q.at, "h2") /\ t = IF h = q.half THEN h ELSE WILD
  OBVIOUS
<1>2. q.pc = "second" /\ ReturnText(r, t)
  BY <1>1 DEF second_half, At
<1>3. /\ Asks(k, q.idx) /\ OneEach /\ r \in Readers /\ AnswerIn(C.kv, k, q.idx) \in seen[r]
  BY Zenon, <1>1 DEF Looks, Known, Seeking, SeekRec
<1>4. r \in disturbed \/ t \in seen[r]
  <2> SUFFICES ASSUME r \notin disturbed PROVE t \in seen[r]
    OBVIOUS
  <2>1. /\ HasAnswer(C, k, q.idx) /\ q.at = mem[Source(mem, C, k, q.idx)].val.addr
        /\ q.half = mem[q.at].h1
    BY <1>1, <1>2 DEF Looks, Seeking, OnWay, SeeksText
  <2>2. PICK s, d : s = Source(mem, C, k, q.idx) /\ d = mem[s].val.addr
    OBVIOUS
  <2>3. Read(d, "h2") = mem[d].h1 /\ mem[d].h1 = AnswerIn(C.kv, k, q.idx)
    BY <1>3, <2>1, <2>2, InText DEF Looks
  <2> QED
    BY <1>1, <1>3, <2>1, <2>2, <2>3
<1> QED
  BY <1>2, <1>3, <1>4, ReturnIs DEF Sought

(* A step of a reader that looks for a key. *)
LEMMA SeekStep ==
  ASSUME NEW C, NEW r, Looks(C, r), read(r)
  PROVE  Sought(mem, C, r)
<1>1. rd[r].pc \in SeekPcs
  BY DEF Looks, Seeking, SeekRec
<1>2. ~ (iter_size(r) \/ iter_header(r) \/ iter_entry(r) \/ iter_next(r) \/ iter_ends(r))
  BY <1>1 DEF SeekPcs, iter_size, iter_header, iter_entry, iter_next, iter_ends, At
<1>3. \/ get_bulk(r) \/ get_entry(r) \/ next_entry(r) \/ entry_val(r)
      \/ chain_header(r) \/ next_node(r) \/ node_val(r)
      \/ str_data(r) \/ first_half(r) \/ second_half(r)
  BY <1>2 DEF read
<1> QED
  BY <1>3, GetBulk, GetEntry, NextEntry, EntryVal, ChainHeader, NextNode, NodeVal, StrData, FirstHalf, SecondHalf

(* What a call of a reader begins with. *)
LEMMA AnswerIs ==
  ASSUME NEW C, view = C.kv, NEW k, NEW x
  PROVE  Answer(k, x) = AnswerIn(C.kv, k, x)
BY DEF Answer, AnswerIn

(* The first step of its call. *)
LEMMA StartSeeks ==
  ASSUME NEW C, view = C.kv, OneEach, NEW r \in Readers, NEW c \in Calls, start(r, c[1], c[2])
  PROVE  Others(r) /\ Seeking(mem, C, rd'[r], seen'[r], r \in disturbed') /\ rd'[r].key = c[1]
<1>1. PICK k, x, q : k = c[1] /\ x = c[2]
                     /\ q = [pc |-> "bulk", key |-> k, idx |-> x, at |-> bulk(k), i |-> 1, half |-> None]
  OBVIOUS
<1>2. /\ rd' = [rd EXCEPT ![r] = q] /\ seen' = [seen EXCEPT ![r] = {Answer(k, x)}]
      /\ disturbed' = disturbed \cup {r} \/ disturbed' = disturbed
  BY <1>1 DEF start
<1>3. Others(r) /\ rd'[r] = q /\ seen'[r] = {Answer(k, x)}
  BY <1>2 DEF OneEach, Others
<1>4. q.pc = "bulk" /\ q.key = k /\ q.idx = x /\ q.at = bulk(k) /\ q.i = 1
  BY <1>1
<1>5. Asks(k, x)
  BY <1>1 DEF Calls, Asks
<1>6. SeekRec(q)
  <2>1. q = [pc |-> q.pc, key |-> q.key, idx |-> q.idx, at |-> q.at, i |-> q.i, half |-> q.half]
    BY <1>1
  <2> QED
    BY <1>4, <1>5, <2>1 DEF SeekRec, SeekPcs
<1>7. OnWay(mem, C, q)
  BY <1>4 DEF OnWay, SeeksEntry, SeeksValue, SeeksText
<1>8. AnswerIn(C.kv, q.key, q.idx) \in seen'[r]
  BY <1>3, <1>4, AnswerIs
<1> QED
  BY <1>1, <1>3, <1>4, <1>6, <1>7, <1>8 DEF Seeking

-----------------------------------------------------------------------------
(* touchdb_iter. *)

IterPcs == {"size", "header", "pass", "step"}

IterRec(q) ==
  /\ q = [pc |-> q.pc, idx |-> q.idx, at |-> q.at, passed |-> q.passed]
  /\ q.pc \in IterPcs /\ q.idx \in 0 .. BUCKETS /\ q.passed \in Seq(Keys)
  /\ q.pc # "size" => q.idx \in Slots

Passed(p, k) == \E i \in 1 .. Len(p) : p[i] = k

(* What the iterator has passed: keys that are there, each once, and all    *)
(* that it has to pass in the buckets behind it.                           *)
PassedOK(C, q, s, put) ==
  /\ \A i, j \in 1 .. Len(q.passed) : q.passed[i] = q.passed[j] => i = j
  /\ \A i \in 1 .. Len(q.passed) :
       /\ C.ent[q.passed[i]] # NIL /\ slot(q.passed[i]) <= q.idx
       /\ q.pc \in {"size", "header"} => slot(q.passed[i]) < q.idx
  /\ \A k \in s : /\ k \in Keys /\ C.ent[k] # NIL /\ k \notin put
                  /\ slot(k) < q.idx => Passed(q.passed, k)

(* And where it is in its bucket, of the entries of the keys s. *)
PlaceOK(C, q, s) ==
  /\ q.pc = "header" => s # <<>>
  /\ q.pc \in {"pass", "step"} =>
       \E j \in 1 .. Len(s) : /\ q.at = C.ent[s[j]]
                              /\ \A l \in 1 .. Len(s) :
                                   Passed(q.passed, s[l]) <=> (l < j \/ (q.pc = "step" /\ l = j))

Iterating(C, q, s, put) == IterRec(q) /\ PassedOK(C, q, s, put) /\ PlaceOK(C, q, C.es[q.idx])

(* The size of a bucket, which the code reads before it walks along it. *)
LEMMA SizeIs ==
  ASSUME NEW C, NEW N, NEW fin, NEW n, Sound(C, N, fin, n), NEW i \in Slots
  PROVE  /\ mem[Bulk(i)].size # 0 => C.es[i] # <<>>
         /\ mem[Bulk(i)].size = 0 => \A j \in 1 .. Len(C.es[i]) : C.es[i][j] \in BeingPut
<1>1. PICK s, z : s = C.es[i] /\ z = mem[Bulk(i)].size
  BY Zenon
<1>2. s \in Seq(Keys)
  BY <1>1 DEF Sound, Base, LiveIn, Live, BucketLive
<1>3. CASE z = Len(s)
  <2>1. z # 0 => s # <<>>
    BY <1>2, <1>3
  <2>2. z = 0 => \A j \in 1 .. Len(s) : s[j] \in BeingPut
    BY <1>3
  <2> QED
    BY <1>1, <2>1, <2>2
<1>4. CASE z # Len(s)
  <2>1. C = N /\ Linked(mem, todo, call.op, call.key, N)
    BY <1>1, <1>4 DEF Sound, Ahead
  <2>2. call.op \in {"put_str", "list_new"} /\ s # <<>> /\ s[Len(s)] = call.key /\ z = Len(s) - 1
    BY <1>1, <1>4, <2>1 DEF Linked
  <2>3. todo # <<>>
    <3> SUFFICES ASSUME todo = <<>> PROVE FALSE
      OBVIOUS
    <3>1. Pending(mem, todo, fin) /\ EndsOK(fin, N) /\ Shaped(mem)
      BY DEF Sound, Base
    <3>2. Bulk(i) \in DOMAIN mem /\ "size" \in Fields(Bulk(i)[1])
      BY <3>1 DEF Shaped, Bulks, Bulk, Fields
    <3>3. Len(todo) = 0
      OBVIOUS
    <3>4. mem[Bulk(i)]["size"] = fin[Bulk(i)]["size"]
      BY <3>1, <3>2, <3>3 DEF Pending
    <3>5. fin[Bulk(i)].size = Len(s)
      BY <1>1, <2>1, <3>1 DEF EndsOK
    <3> QED
      BY <1>1, <1>4, <3>4, <3>5
  <2>4. BeingPut = {call.key}
    BY <2>2, <2>3 DEF BeingPut
  <2>5. z = 0 => \A j \in 1 .. Len(s) : s[j] \in BeingPut
    <3>1. ASSUME z = 0, NEW j \in 1 .. Len(s) PROVE j = Len(s)
      <4>1. Len(s) \in Nat
        BY ONLY <1>2
      <4>2. PICK e : e = Len(s) /\ z = e - 1
        BY <2>2
      <4>3. e \in Nat /\ j \in 1 .. e /\ e - 1 = 0
        BY <3>1, <4>1, <4>2
      <4>4. j = e
        BY ONLY <4>3
      <4> QED
        BY <4>2, <4>4
    <3> QED
      BY <2>2, <2>4, <3>1
  <2> QED
    BY <1>1, <2>2, <2>5
<1> QED
  BY <1>3, <1>4

(* A call of the writer leaves an iterator where it is. *)
LEMMA IteratingKept ==
  ASSUME NEW m, NEW C, LiveIn(m, C), NEW C2, C2 = C \/ \E op, j : Grown(C, C2, op, j),
         NEW q, NEW s, NEW put, NEW put2, Iterating(C, q, s, put), \A k \in s : k \notin put2
  PROVE  Iterating(C2, q, s, put2)
<1>1. /\ \A k \in Keys : C.ent[k] # NIL => C2.ent[k] = C.ent[k]
      /\ \A i \in Slots : C2.es[i] = C.es[i] \/ \E k \in Keys : C.ent[k] = NIL /\ C2.es[i] = Append(C.es[i], k)
  BY EntriesKept
<1>2. PICK p : p = q.passed
  OBVIOUS
<1>3. p \in Seq(Keys) /\ \A i \in 1 .. Len(p) : p[i] \in Keys /\ C.ent[p[i]] # NIL
  BY <1>2 DEF Iterating, IterRec, PassedOK
<1>4. PassedOK(C2, q, s, put2)
  BY <1>1, <1>2, <1>3 DEF Iterating, PassedOK
<1>5. PlaceOK(C2, q, C2.es[q.idx])
  <2>1. CASE q.pc = "size"
    BY <2>1 DEF PlaceOK
  <2>2. CASE q.pc # "size"
    <3>1. q.idx \in Slots
      BY <2>2 DEF Iterating, IterRec
    <3>2. PICK u, v, n : u = C.es[q.idx] /\ v = C2.es[q.idx] /\ n = Len(u)
      OBVIOUS
    <3>3. u \in Seq(Keys) /\ n \in Nat /\ \A j \in 1 .. n : u[j] \in Keys /\ C.ent[u[j]] # NIL
      BY <3>1, <3>2 DEF LiveIn, Live, BucketLive
    <3>4. v = u \/ \E k \in Keys : C.ent[k] = NIL /\ v = Append(u, k)
      BY <1>1, <3>1, <3>2
    <3>5. /\ Len(v) \in {n, n + 1} /\ \A j \in 1 .. n : v[j] = u[j]
          /\ Len(v) = n + 1 => C.ent[v[n + 1]] = NIL
      BY SMTT(30), <3>2, <3>3, <3>4
    <3>6. q.pc = "header" => v # <<>>
      BY <3>2, <3>3, <3>4, <3>5 DEF Iterating, PlaceOK
    <3>7. ASSUME q.pc \in {"pass", "step"}
          PROVE  \E j \in 1 .. Len(v) : /\ q.at = C2.ent[v[j]]
                                        /\ \A l \in 1 .. Len(v) :
                                             Passed(q.passed, v[l]) <=> (l < j \/ (q.pc = "step" /\ l = j))
      <4>1. PICK j \in 1 .. n : /\ q.at = C.ent[u[j]]
                                /\ \A l \in 1 .. n :
                                     Passed(q.passed, u[l]) <=> (l < j \/ (q.pc = "step" /\ l = j))
        BY <3>2, <3>7 DEF Iterating, PlaceOK
      <4>2. v[j] = u[j] /\ C2.ent[v[j]] = C.ent[u[j]] /\ j \in 1 .. Len(v)
        BY <1>1, <3>3, <3>5
      <4>3. ASSUME NEW l \in 1 .. Len(v)
            PROVE  Passed(q.passed, v[l]) <=> (l < j \/ (q.pc = "step" /\ l = j))
        <5>1. CASE l \in 1 .. n
          BY <3>5, <4>1, <5>1
        <5>2. CASE l \notin 1 .. n
          <6>1. l = n + 1 /\ C.ent[v[l]] = NIL
            BY <3>3, <3>5, <5>2
          <6>2. ~ Passed(q.passed, v[l])
            BY <1>2, <1>3, <6>1 DEF Passed
          <6> QED
            BY <3>3, <6>1, <6>2
        <5> QED
          BY <5>1, <5>2
      <4> QED
        BY <4>1, <4>2, <4>3
    <3> QED
      BY <3>2, <3>6, <3>7 DEF PlaceOK
  <2> QED
    BY <2>1, <2>2
<1> QED
  BY <1>4, <1>5 DEF Iterating

-----------------------------------------------------------------------------
(* The steps of touchdb_iter. *)

(* A reader r in touchdb_iter. *)
Iters(C, r) ==
  /\ OneEach /\ r \in Readers /\ Known(C) /\ Iterating(C, rd[r], seen[r], BeingPut)
  /\ \E N, fin, n : Sound(C, N, fin, n)

Iterated(C, r) ==
  Others(r) /\ (Finished(rd'[r]) \/ Iterating(C, rd'[r], seen'[r], BeingPut))

(* The record of an iterator at another place. *)
ToPlace(r, pc, i, b, p) ==
  rd' = [rd EXCEPT ![r] = [pc |-> pc, idx |-> i, at |-> b, passed |-> p]] /\ UNCHANGED <<seen, disturbed>>

(* The record of an iterator at its new place. *)
LEMMA IterTo ==
  ASSUME OneEach, NEW r \in Readers, IterRec(rd[r]), NEW pc \in IterPcs, NEW i \in 0 .. BUCKETS, NEW b,
         NEW p \in Seq(Keys), pc # "size" => i \in Slots,
         ToPlace(r, pc, i, b, p)
  PROVE  /\ Others(r) /\ seen'[r] = seen[r] /\ IterRec(rd'[r])
         /\ rd'[r].pc = pc /\ rd'[r].idx = i /\ rd'[r].at = b /\ rd'[r].passed = p
<1>1. PICK q : q = [pc |-> pc, idx |-> i, at |-> b, passed |-> p]
  OBVIOUS
<1>2. Others(r) /\ rd'[r] = q /\ seen'[r] = seen[r]
  BY <1>1, ChangeIs DEF ToPlace
<1>3. q.pc = pc /\ q.idx = i /\ q.at = b /\ q.passed = p
  BY <1>1
<1>4. q = [pc |-> q.pc, idx |-> q.idx, at |-> q.at, passed |-> q.passed]
  BY <1>1
<1> QED
  BY <1>2, <1>3, <1>4 DEF IterRec

(* The buckets that lie behind. *)
LEMMA NextBucket ==
  ASSUME NEW C, NEW q, NEW s, NEW put, IterRec(q), PassedOK(C, q, s, put), q.idx \in Slots,
         NEW q2, IterRec(q2), q2.pc = "size", q2.idx = q.idx + 1, q2.passed = q.passed,
         \A k \in s : slot(k) = q.idx => Passed(q.passed, k)
  PROVE  PassedOK(C, q2, s, put) /\ \A u : PlaceOK(C, q2, u)
<1>1. q.idx \in Nat /\ BUCKETS \in Nat
  BY ShmAssumption DEF Slots
<1>2. \A i \in 1 .. Len(q.passed) : slot(q.passed[i]) < q.idx + 1
  <2> SUFFICES ASSUME NEW i \in 1 .. Len(q.passed) PROVE slot(q.passed[i]) < q.idx + 1
    OBVIOUS
  <2>1. q.passed[i] \in Keys
    BY DEF IterRec
  <2>2. slot(q.passed[i]) \in Nat
    BY <2>1, SlotIs DEF Slots
  <2>3. slot(q.passed[i]) <= q.idx
    BY DEF PassedOK
  <2> QED
    BY <1>1, <2>2, <2>3
<1>3. ASSUME NEW k \in s, slot(k) < q.idx + 1 PROVE Passed(q.passed, k)
  <2>1. k \in Keys /\ (slot(k) < q.idx => Passed(q.passed, k))
    BY DEF PassedOK
  <2>2. slot(k) \in Nat
    BY <2>1, SlotIs DEF Slots
  <2> QED
    BY <1>1, <1>3, <2>1, <2>2
<1>4. \A i \in 1 .. Len(q.passed) : slot(q.passed[i]) <= q.idx + 1
  <2> SUFFICES ASSUME NEW i \in 1 .. Len(q.passed) PROVE slot(q.passed[i]) <= q.idx + 1
    OBVIOUS
  <2>1. q.passed[i] \in Keys
    BY DEF IterRec
  <2>2. slot(q.passed[i]) \in Nat
    BY <2>1, SlotIs DEF Slots
  <2> QED
    BY <1>1, <1>2, <2>2
<1>5. PassedOK(C, q2, s, put)
  BY <1>2, <1>3, <1>4 DEF PassedOK
<1> QED
  BY <1>5 DEF PlaceOK

(* A key that is there is in its bucket. *)
LEMMA InItsBucket ==
  ASSUME NEW C, Known(C), NEW k \in Keys, C.ent[k] # NIL
  PROVE  \E j \in 1 .. Len(C.es[slot(k)]) : C.es[slot(k)][j] = k
BY DEF Known, LiveIn, Live

(* touchdb_iter reads the size of a bucket and may pass by. *)
LEMMA IterSize ==
  ASSUME NEW C, NEW r, Iters(C, r), iter_size(r)
  PROVE  Iterated(C, r)
<1>1. PICK q, i, z : q = rd[r] /\ i = q.idx /\ z = mem[Bulk(i)].size
  OBVIOUS
<1>2. /\ q.pc = "size" /\ i < BUCKETS /\ UNCHANGED <<seen, disturbed>>
      /\ rd' = [rd EXCEPT ![r].pc = IF z # 0 THEN "header" ELSE "size", ![r].idx = IF z # 0 THEN i ELSE i + 1]
  <2>1. OneEach /\ r \in Readers
    BY DEF Iters
  <2>2. DOMAIN rd = Readers
    BY <2>1 DEF OneEach
  <2> QED
    BY <1>1, <2>1, <2>2 DEF iter_size, At, Bulk
<1>3. /\ OneEach /\ r \in Readers /\ Known(C) /\ IterRec(q) /\ PassedOK(C, q, seen[r], BeingPut)
      /\ \E N, fin, n : Sound(C, N, fin, n)
  BY <1>1 DEF Iters, Iterating
<1>4. i \in Slots /\ i \in 0 .. BUCKETS /\ q.passed \in Seq(Keys)
  BY <1>1, <1>2, <1>3, ShmAssumption DEF IterRec, Slots
<1>5. /\ z # 0 => C.es[i] # <<>>
      /\ z = 0 => \A j \in 1 .. Len(C.es[i]) : C.es[i][j] \in BeingPut
  BY <1>1, <1>3, <1>4, SizeIs
<1>6. DOMAIN rd = Readers /\ q = [pc |-> "size", idx |-> i, at |-> q.at, passed |-> q.passed]
  BY <1>1, <1>2, <1>3 DEF OneEach, IterRec
<1>7. CASE z # 0
  <2>1. ToPlace(r, "header", i, q.at, q.passed)
    <3>1. rd' = [[rd EXCEPT ![r].pc = "header"] EXCEPT ![r].idx = i]
      BY <1>2, <1>3, <1>6, <1>7
    <3>2. rd'[r] = [[q EXCEPT !.pc = "header"] EXCEPT !.idx = i]
      BY <1>1, <1>3, <1>6, <3>1
    <3>3. rd'[r] = [pc |-> "header", idx |-> i, at |-> q.at, passed |-> q.passed]
      BY <1>6, <3>2
    <3>4. /\ DOMAIN rd' = Readers /\ \A o \in Readers \ {r} : rd'[o] = rd[o]
          /\ rd' = [o \in Readers |-> rd'[o]]
      BY <1>6, <3>1
    <3> QED
      BY Zenon, <1>2, <1>6, <3>3, <3>4 DEF ToPlace
  <2>2. PICK q2 : q2 = rd'[r]
    OBVIOUS
  <2>3. /\ Others(r) /\ seen'[r] = seen[r] /\ IterRec(q2)
        /\ q2.pc = "header" /\ q2.idx = i /\ q2.passed = q.passed
    <3>1. PICK c, a, p : c = "header" /\ a = q.at /\ p = q.passed
      OBVIOUS
    <3>2. ToPlace(r, c, i, a, p)
      BY <2>1, <3>1
    <3>3. c \in IterPcs /\ i \in 0 .. BUCKETS /\ p \in Seq(Keys) /\ (c # "size" => i \in Slots)
      BY <1>2, <1>4, <3>1, ShmAssumption DEF IterPcs
    <3>4. OneEach /\ r \in Readers /\ IterRec(rd[r])
      BY <1>1, <1>3
    <3>5. /\ Others(r) /\ seen'[r] = seen[r] /\ IterRec(rd'[r])
          /\ rd'[r].pc = c /\ rd'[r].idx = i /\ rd'[r].at = a /\ rd'[r].passed = p
      BY ONLY <3>2, <3>3, <3>4, IterTo
    <3> QED
      BY <2>2, <3>1, <3>5
  <2>4. PassedOK(C, q2, seen[r], BeingPut)
    BY <1>1, <1>2, <1>3, <2>3 DEF PassedOK
  <2>5. PlaceOK(C, q2, C.es[i])
    BY <1>5, <1>7, <2>3 DEF PlaceOK
  <2> QED
    BY <2>2, <2>3, <2>4, <2>5 DEF Iterated, Iterating
<1>8. CASE z = 0
  <2>0. PICK v : v = i + 1
    OBVIOUS
  <2>1. ToPlace(r, "size", v, q.at, q.passed)
    <3>1. rd' = [[rd EXCEPT ![r].pc = "size"] EXCEPT ![r].idx = v]
      BY <1>2, <1>3, <1>6, <1>8, <2>0
    <3>2. rd'[r] = [[q EXCEPT !.pc = "size"] EXCEPT !.idx = v]
      BY <1>1, <1>3, <1>6, <3>1
    <3>3. rd'[r] = [pc |-> "size", idx |-> v, at |-> q.at, passed |-> q.passed]
      BY <1>6, <3>2
    <3>4. /\ DOMAIN rd' = Readers /\ \A o \in Readers \ {r} : rd'[o] = rd[o]
          /\ rd' = [o \in Readers |-> rd'[o]]
      BY <1>6, <3>1
    <3> QED
      BY <1>2, <1>6, <3>3, <3>4 DEF ToPlace
  <2>2. PICK q2 : q2 = rd'[r]
    OBVIOUS
  <2>3. /\ Others(r) /\ seen'[r] = seen[r] /\ IterRec(q2)
        /\ q2.pc = "size" /\ q2.idx = v /\ q2.passed = q.passed
    <3>1. PICK c, a, p : c = "size" /\ a = q.at /\ p = q.passed
      OBVIOUS
    <3>2. ToPlace(r, c, v, a, p)
      BY <2>1, <3>1
    <3>3. c \in IterPcs /\ v \in 0 .. BUCKETS /\ p \in Seq(Keys) /\ (c # "size" => v \in Slots)
      BY <1>2, <1>4, <2>0, <3>1, ShmAssumption DEF IterPcs
    <3>4. OneEach /\ r \in Readers /\ IterRec(rd[r])
      BY <1>1, <1>3
    <3>5. /\ Others(r) /\ seen'[r] = seen[r] /\ IterRec(rd'[r])
          /\ rd'[r].pc = c /\ rd'[r].idx = v /\ rd'[r].at = a /\ rd'[r].passed = p
      BY ONLY <3>2, <3>3, <3>4, IterTo
    <3> QED
      BY <2>2, <3>1, <3>5
  <2>4. \A k \in seen[r] : slot(k) = i => Passed(q.passed, k)
    <3> SUFFICES ASSUME NEW k \in seen[r], slot(k) = i PROVE FALSE
      OBVIOUS
    <3>1. k \in Keys /\ C.ent[k] # NIL /\ k \notin BeingPut
      BY <1>3 DEF PassedOK
    <3>2. \E j \in 1 .. Len(C.es[i]) : C.es[i][j] = k
      BY <1>3, <3>1, InItsBucket
    <3> QED
      BY <1>5, <1>8, <3>1, <3>2
  <2>5. PassedOK(C, q2, seen[r], BeingPut) /\ \A u : PlaceOK(C, q2, u)
    BY <1>1, <1>3, <1>4, <2>0, <2>3, <2>4, NextBucket
  <2> QED
    BY <2>2, <2>3, <2>5 DEF Iterated, Iterating
<1> QED
  BY <1>7, <1>8

(* An iterator that goes to a block changes its place only. *)
LEMMA GotoPlace ==
  ASSUME OneEach, NEW r \in Readers, IterRec(rd[r]), NEW pc, NEW b, Goto(r, pc, b)
  PROVE  ToPlace(r, pc, rd[r].idx, b, rd[r].passed)
<1>1. PICK q, i, p : q = rd[r] /\ i = q.idx /\ p = q.passed
  OBVIOUS
<1>2. DOMAIN rd = Readers /\ q = [pc |-> q.pc, idx |-> i, at |-> q.at, passed |-> p]
  BY <1>1 DEF OneEach, IterRec
<1>3. rd' = [[rd EXCEPT ![r].pc = pc] EXCEPT ![r].at = b] /\ UNCHANGED <<seen, disturbed>>
  BY <1>2 DEF Goto
<1>4. rd'[r] = [[q EXCEPT !.pc = pc] EXCEPT !.at = b]
  BY <1>1, <1>2, <1>3
<1>5. rd'[r] = [pc |-> pc, idx |-> i, at |-> b, passed |-> p]
  <2>1. PICK c, a, q3 : c = q.pc /\ a = q.at /\ q3 = [q EXCEPT !.pc = pc]
    OBVIOUS
  <2>2. q = [pc |-> c, idx |-> i, at |-> a, passed |-> p]
    BY <1>2, <2>1
  <2>3. q3 = [pc |-> pc, idx |-> i, at |-> a, passed |-> p]
    BY ONLY <2>1, <2>2
  <2>4. [q3 EXCEPT !.at = b] = [pc |-> pc, idx |-> i, at |-> b, passed |-> p]
    BY ONLY <2>3
  <2> QED
    BY <1>4, <2>1, <2>4
<1>6. /\ DOMAIN rd' = Readers /\ \A o \in Readers \ {r} : rd'[o] = rd[o]
      /\ rd' = [o \in Readers |-> rd'[o]]
  BY <1>2, <1>3
<1> QED
  BY <1>1, <1>2, <1>3, <1>5, <1>6 DEF ToPlace

(* It reads the header of the bucket. *)
LEMMA IterHeader ==
  ASSUME NEW C, NEW r, Iters(C, r), iter_header(r)
  PROVE  Iterated(C, r)
<1>1. PICK q, i, p, b, s, c : q = rd[r] /\ i = q.idx /\ p = q.passed /\ b = mem[Bulk(i)].header /\ s = C.es[i] /\ c = "pass"
  OBVIOUS
<1>2. q.pc = "header" /\ Goto(r, c, b)
  BY <1>1 DEF iter_header, At, Bulk
<1>3. /\ OneEach /\ r \in Readers /\ Known(C) /\ IterRec(q) /\ PassedOK(C, q, seen[r], BeingPut)
      /\ PlaceOK(C, q, s)
  BY <1>1 DEF Iters, Iterating
<1>4. ToPlace(r, c, i, b, p)
  BY <1>1, <1>2, <1>3, GotoPlace
<1>5. i \in Slots /\ i \in 0 .. BUCKETS /\ p \in Seq(Keys) /\ c \in IterPcs
  BY <1>1, <1>2, <1>3 DEF IterRec, IterPcs
<1>6. PICK q2 : q2 = rd'[r]
  OBVIOUS
<1>7. /\ Others(r) /\ seen'[r] = seen[r] /\ IterRec(q2)
      /\ q2.pc = c /\ q2.idx = i /\ q2.at = b /\ q2.passed = p
  <2>1. IterRec(rd[r]) /\ (c # "size" => i \in Slots)
    BY <1>1, <1>3, <1>5
  <2>2. /\ Others(r) /\ seen'[r] = seen[r] /\ IterRec(rd'[r])
        /\ rd'[r].pc = c /\ rd'[r].idx = i /\ rd'[r].at = b /\ rd'[r].passed = p
    BY ONLY <1>3, <1>4, <1>5, <2>1, IterTo
  <2> QED
    BY <1>6, <2>2
<1>8. PassedOK(C, q2, seen[r], BeingPut)
  BY Zenon, <1>1, <1>3, <1>7 DEF PassedOK
<1>9. /\ s \in Seq(Keys) /\ s # <<>>
      /\ b = C.ent[s[1]]
      /\ \A l \in 1 .. Len(s) : slot(s[l]) = i
  <2>1. s # <<>>
    BY <1>2, <1>3 DEF PlaceOK
  <2>2. /\ s \in Seq(Keys)
        /\ mem[Bulk(i)].header = IF s = <<>> THEN NIL ELSE C.ent[s[1]]
        /\ \A l \in 1 .. Len(s) : slot(s[l]) = i
    <3>1. ReadsAlong(C, i, s)
      BY <1>1, <1>3, <1>5, AlongBucket
    <3> QED
      BY <3>1 DEF ReadsAlong
  <2> QED
    BY <1>1, <2>1, <2>2
<1>10. \A l \in 1 .. Len(s) : ~ Passed(p, s[l])
  <2> SUFFICES ASSUME NEW l \in 1 .. Len(s), NEW j \in 1 .. Len(p), p[j] = s[l] PROVE FALSE
    BY DEF Passed
  <2>1. slot(p[j]) < i
    BY Zenon, <1>1, <1>2, <1>3 DEF PassedOK
  <2> QED
    BY <1>5, <1>9, <2>1 DEF Slots
<1>11. PlaceOK(C, q2, s)
  <2>1. 1 \in 1 .. Len(s)
    BY <1>9
  <2>2. \A l \in 1 .. Len(s) : Passed(q2.passed, s[l]) <=> (l < 1 \/ (q2.pc = "step" /\ l = 1))
    BY <1>1, <1>7, <1>10
  <2> QED
    BY Zenon, <1>1, <1>7, <1>9, <2>1, <2>2 DEF PlaceOK
<1> QED
  BY <1>1, <1>6, <1>7, <1>8, <1>11 DEF Iterated, Iterating

(* It passes an entry to the callback. *)
LEMMA IterEntry ==
  ASSUME NEW C, NEW r, Iters(C, r), iter_entry(r)
  PROVE  Iterated(C, r)
<1>1. PICK q, i, p, b, s, c, w : /\ q = rd[r] /\ i = q.idx /\ p = q.passed /\ b = q.at /\ s = C.es[i]
                                 /\ c = "step" /\ w = Whole(Read(b, "key"))
  OBVIOUS
<1>2. /\ q.pc = "pass"
      /\ b[1] = "entry" => /\ rd' = [rd EXCEPT ![r].passed = Append(p, w), ![r].pc = c]
                           /\ UNCHANGED <<seen, disturbed>>
  <2>1. OneEach /\ r \in Readers
    BY DEF Iters
  <2>2. DOMAIN rd = Readers
    BY <2>1 DEF OneEach
  <2> QED
    BY <1>1, <2>1, <2>2 DEF iter_entry, At
<1>3. /\ OneEach /\ r \in Readers /\ Known(C) /\ IterRec(q) /\ PassedOK(C, q, seen[r], BeingPut)
      /\ PlaceOK(C, q, s)
  BY <1>1 DEF Iters, Iterating
<1>4. i \in Slots /\ i \in 0 .. BUCKETS /\ p \in Seq(Keys) /\ c \in IterPcs
  BY <1>1, <1>2, <1>3 DEF IterRec, IterPcs
<1>5. PICK j \in 1 .. Len(s) : b = C.ent[s[j]] /\ \A l \in 1 .. Len(s) : Passed(p, s[l]) <=> l < j
  BY Zenon, <1>1, <1>2, <1>3 DEF PlaceOK
<1>6. /\ s \in Seq(Keys)
      /\ \A l \in 1 .. Len(s) : s[l] \in Keys /\ C.ent[s[l]] # NIL /\ slot(s[l]) = i /\ EntryLive(mem, C.own, C.ent[s[l]], s[l])
      /\ \A l, g \in 1 .. Len(s) : s[l] = s[g] => l = g
  <2>1. ReadsAlong(C, i, s)
    BY <1>1, <1>3, <1>4, AlongBucket
  <2> QED
    BY <2>1 DEF ReadsAlong
<1>7. b[1] = "entry" /\ w = s[j] /\ w \in Keys
  <2>1. EntryLive(mem, C.own, b, s[j])
    BY <1>5, <1>6
  <2>2. PICK d : d = mem[b].key
    OBVIOUS
  <2>3. /\ b \in Blks /\ b[1] = "entry" /\ b \in DOMAIN mem
        /\ d \in Blks /\ d[1] = "text" /\ d \in DOMAIN mem /\ mem[d].h1 = s[j] /\ mem[d].h2 = s[j]
    BY <2>1, <2>2 DEF EntryLive, Has
  <2>4. b \in Addr /\ "key" \in Fields(b[1]) /\ d \in Addr /\ "h1" \in Fields(d[1]) /\ "h2" \in Fields(d[1])
    BY <2>3, Apart DEF Fields
  <2>5. Read(b, "key") = d
    BY <1>3, <2>2, <2>3, <2>4, ReadIs DEF Known
  <2>6. Read(d, "h1") = s[j] /\ Read(d, "h2") = s[j]
    BY <1>3, <2>3, <2>4, ReadIs DEF Known
  <2> QED
    BY <1>1, <1>6, <2>3, <2>5, <2>6 DEF Whole
<1>8. PICK p2 : p2 = Append(p, w)
  OBVIOUS
<1>9. /\ p2 \in Seq(Keys) /\ Len(p2) = Len(p) + 1 /\ Len(p) \in Nat
      /\ p2[Len(p) + 1] = w /\ \A l \in 1 .. Len(p) : p2[l] = p[l]
  BY <1>4, <1>7, <1>8
<1>10. \A k : Passed(p2, k) <=> (Passed(p, k) \/ k = w)
  BY <1>9 DEF Passed
<1>11. ToPlace(r, c, i, b, p2)
  <2>1. DOMAIN rd = Readers /\ q = [pc |-> "pass", idx |-> i, at |-> b, passed |-> p]
    BY <1>1, <1>2, <1>3 DEF OneEach, IterRec
  <2>2. rd' = [[rd EXCEPT ![r].passed = p2] EXCEPT ![r].pc = c] /\ UNCHANGED <<seen, disturbed>>
    BY <1>2, <1>7, <1>8, <2>1
  <2>3. rd'[r] = [[q EXCEPT !.passed = p2] EXCEPT !.pc = c]
    BY <1>1, <1>3, <2>1, <2>2
  <2>4. rd'[r] = [pc |-> c, idx |-> i, at |-> b, passed |-> p2]
    BY ONLY <2>1, <2>3
  <2>5. /\ DOMAIN rd' = Readers /\ \A o \in Readers \ {r} : rd'[o] = rd[o]
        /\ rd' = [o \in Readers |-> rd'[o]]
    BY <2>1, <2>2
  <2> QED
    BY <2>1, <2>2, <2>4, <2>5 DEF ToPlace
<1>12. PICK q2 : q2 = rd'[r]
  OBVIOUS
<1>13. /\ Others(r) /\ seen'[r] = seen[r] /\ IterRec(q2)
       /\ q2.pc = c /\ q2.idx = i /\ q2.at = b /\ q2.passed = p2
  <2>1. IterRec(rd[r]) /\ (c # "size" => i \in Slots) /\ p2 \in Seq(Keys)
    BY <1>1, <1>3, <1>4, <1>9
  <2>2. /\ Others(r) /\ seen'[r] = seen[r] /\ IterRec(rd'[r])
        /\ rd'[r].pc = c /\ rd'[r].idx = i /\ rd'[r].at = b /\ rd'[r].passed = p2
    BY ONLY <1>3, <1>4, <1>11, <2>1, IterTo
  <2> QED
    BY <1>12, <2>2
<1>14. PassedOK(C, q2, seen[r], BeingPut)
  <2>1. ~ Passed(p, w)
    BY <1>5, <1>7
  <2>2. ASSUME NEW l \in 1 .. Len(p2), NEW g \in 1 .. Len(p2), p2[l] = p2[g] PROVE l = g
    <3>1. CASE l \in 1 .. Len(p) /\ g \in 1 .. Len(p)
      BY <1>1, <1>3, <1>9, <2>2, <3>1 DEF PassedOK
    <3>2. CASE l = Len(p) + 1 /\ g = Len(p) + 1
      BY <3>2
    <3>3. CASE l \in 1 .. Len(p) /\ g = Len(p) + 1
      BY <1>9, <2>1, <2>2, <3>3 DEF Passed
    <3>4. CASE l = Len(p) + 1 /\ g \in 1 .. Len(p)
      BY <1>9, <2>1, <2>2, <3>4 DEF Passed
    <3> QED
      BY <1>9, <3>1, <3>2, <3>3, <3>4
  <2>3. ASSUME NEW l \in 1 .. Len(p2) PROVE C.ent[p2[l]] # NIL /\ slot(p2[l]) <= i
    <3>1. CASE l \in 1 .. Len(p)
      BY <1>1, <1>3, <1>9, <3>1 DEF PassedOK
    <3>2. CASE l = Len(p) + 1
      <4>1. p2[l] = s[j] /\ C.ent[s[j]] # NIL /\ slot(s[j]) = i
        BY <1>6, <1>7, <1>9, <3>2
      <4>2. i <= i
        BY <1>4 DEF Slots
      <4> QED
        BY <4>1, <4>2
    <3> QED
      BY <1>9, <3>1, <3>2
  <2>4. \A k \in seen[r] : /\ k \in Keys /\ C.ent[k] # NIL /\ k \notin BeingPut
                           /\ slot(k) < i => Passed(p2, k)
    BY Zenon, <1>1, <1>3, <1>10 DEF PassedOK
  <2> QED
    BY <1>1, <1>13, <2>2, <2>3, <2>4 DEF PassedOK
<1>15. PlaceOK(C, q2, s)
  <2>1. ASSUME NEW l \in 1 .. Len(s) PROVE Passed(p2, s[l]) <=> (l < j \/ l = j)
    <3>1. s[l] = w <=> l = j
      BY <1>6, <1>7
    <3> QED
      BY <1>5, <1>10, <3>1
  <2> QED
    BY Zenon, <1>1, <1>5, <1>13, <2>1 DEF PlaceOK
<1> QED
  BY <1>1, <1>12, <1>13, <1>14, <1>15 DEF Iterated, Iterating

(* It reads the next link of the entry. *)
LEMMA IterNext ==
  ASSUME NEW C, NEW r, Iters(C, r), iter_next(r)
  PROVE  Iterated(C, r)
<1>1. PICK q, i, p, s, b, v : /\ q = rd[r] /\ i = q.idx /\ p = q.passed /\ s = C.es[i] /\ b = Read(q.at, "next")
                              /\ v = i + 1
  OBVIOUS
<1>2. /\ q.pc = "step"
      /\ IF b = NIL THEN /\ rd' = [rd EXCEPT ![r].pc = "size", ![r].idx = v]
                         /\ UNCHANGED <<seen, disturbed>>
                    ELSE Goto(r, "pass", b)
  <2>1. OneEach /\ r \in Readers
    BY DEF Iters
  <2>2. DOMAIN rd = Readers
    BY <2>1 DEF OneEach
  <2> QED
    BY <1>1, <2>1, <2>2 DEF iter_next, At
<1>3. /\ OneEach /\ r \in Readers /\ Known(C) /\ IterRec(q) /\ PassedOK(C, q, seen[r], BeingPut)
      /\ PlaceOK(C, q, s)
  BY <1>1 DEF Iters, Iterating
<1>4. i \in Slots /\ i \in 0 .. BUCKETS /\ p \in Seq(Keys)
  BY <1>1, <1>2, <1>3 DEF IterRec
<1>5. PICK j \in 1 .. Len(s) : q.at = C.ent[s[j]] /\ \A l \in 1 .. Len(s) : Passed(p, s[l]) <=> (l < j \/ l = j)
  BY <1>1, <1>2, <1>3 DEF PlaceOK
<1>6. /\ s \in Seq(Keys) /\ b = IF j < Len(s) THEN C.ent[s[j + 1]] ELSE NIL
      /\ \A l \in 1 .. Len(s) : C.ent[s[l]] # NIL
  <2>1. /\ s \in Seq(Keys)
        /\ \A l \in 1 .. Len(s) :
              /\ s[l] \in Keys /\ C.ent[s[l]] # NIL /\ C.ent[s[l]] # WILD /\ EntryLive(mem, C.own, C.ent[s[l]], s[l])
              /\ Read(C.ent[s[l]], "next") = IF l < Len(s) THEN C.ent[s[l + 1]] ELSE NIL
              /\ slot(s[l]) = i
        /\ \A l, g \in 1 .. Len(s) : s[l] = s[g] => l = g
    <3>1. Known(C) /\ i \in Slots /\ s = C.es[i]
      BY <1>1, <1>3, <1>4
    <3>2. ReadsAlong(C, i, C.es[i])
      BY ONLY Zenon, <3>1, AlongBucket
    <3> QED
      BY ONLY <3>1, <3>2 DEF ReadsAlong
  <2>2. b = Read(C.ent[s[j]], "next")
    BY <1>1, <1>5
  <2>3. Read(C.ent[s[j]], "next") = IF j < Len(s) THEN C.ent[s[j + 1]] ELSE NIL
    BY <2>1
  <2> QED
    BY <2>1, <2>2, <2>3
<1>7. PICK n : n = Len(s)
  OBVIOUS
<1>8. n \in Nat /\ j \in 1 .. n
  BY <1>6, <1>7
<1>9. \A l \in 1 .. n : C.ent[s[l]] # NIL
  BY <1>6, <1>7
<1>10. PICK q2 : q2 = rd'[r]
  OBVIOUS
<1>11. CASE b # NIL
  <2>1. j < n
    BY <1>6, <1>7, <1>11
  <2>2. PICK g, c : g = j + 1 /\ c = "pass"
    OBVIOUS
  <2>3. g \in 1 .. n /\ b = C.ent[s[g]]
    BY <1>6, <1>7, <1>8, <2>1, <2>2
  <2>4. ToPlace(r, c, i, b, p)
    BY <1>1, <1>2, <1>3, <1>11, <2>2, GotoPlace
  <2>5. /\ Others(r) /\ seen'[r] = seen[r] /\ IterRec(q2)
        /\ q2.pc = c /\ q2.idx = i /\ q2.at = b /\ q2.passed = p
    <3>1. IterRec(rd[r]) /\ (c # "size" => i \in Slots) /\ c \in IterPcs
      BY <1>1, <1>3, <1>4, <2>2 DEF IterPcs
    <3>2. /\ Others(r) /\ seen'[r] = seen[r] /\ IterRec(rd'[r])
          /\ rd'[r].pc = c /\ rd'[r].idx = i /\ rd'[r].at = b /\ rd'[r].passed = p
      BY ONLY <1>3, <1>4, <2>4, <3>1, IterTo
    <3> QED
      BY <1>10, <3>2
  <2>6. PassedOK(C, q2, seen[r], BeingPut)
    BY <1>1, <1>3, <2>2, <2>5 DEF PassedOK
  <2>7. PlaceOK(C, q2, s)
    <3>1. \A l \in 1 .. n : (l < j \/ l = j) <=> l < g
      BY <1>8, <2>2
    <3>2. \A l \in 1 .. n : Passed(q2.passed, s[l]) <=> (l < g \/ (q2.pc = "step" /\ l = g))
      BY <1>5, <1>7, <2>2, <2>5, <3>1
    <3> QED
      BY <1>7, <2>2, <2>3, <2>5, <3>2 DEF PlaceOK
  <2> QED
    BY <1>1, <1>10, <2>5, <2>6, <2>7 DEF Iterated, Iterating
<1>12. CASE b = NIL
  <2>1. j = n
    <3> SUFFICES ASSUME j # n PROVE FALSE
      OBVIOUS
    <3>1. PICK g : g = j + 1
      OBVIOUS
    <3>2. j < n /\ g \in 1 .. n
      BY <1>8, <3>1
    <3>3. b = C.ent[s[g]]
      BY <1>6, <1>7, <3>1, <3>2
    <3> QED
      BY <1>9, <1>12, <3>2, <3>3
  <2>2. ToPlace(r, "size", v, q.at, p)
    <3>1. DOMAIN rd = Readers /\ q = [pc |-> "step", idx |-> i, at |-> q.at, passed |-> p]
      BY <1>1, <1>2, <1>3 DEF OneEach, IterRec
    <3>2. rd' = [[rd EXCEPT ![r].pc = "size"] EXCEPT ![r].idx = v] /\ UNCHANGED <<seen, disturbed>>
      BY <1>2, <1>12, <3>1
    <3>3. rd'[r] = [[q EXCEPT !.pc = "size"] EXCEPT !.idx = v]
      BY <1>1, <1>3, <3>1, <3>2
    <3>4. rd'[r] = [pc |-> "size", idx |-> v, at |-> q.at, passed |-> p]
      <4>1. PICK q3 : q3 = [q EXCEPT !.pc = "size"]
        OBVIOUS
      <4>2. q3 = [pc |-> "size", idx |-> i, at |-> q.at, passed |-> p]
        BY ONLY <3>1, <4>1
      <4>3. [q3 EXCEPT !.idx = v] = [pc |-> "size", idx |-> v, at |-> q.at, passed |-> p]
        BY ONLY <4>2
      <4> QED
        BY <3>3, <4>1, <4>3
    <3>5. /\ DOMAIN rd' = Readers /\ \A o \in Readers \ {r} : rd'[o] = rd[o]
          /\ rd' = [o \in Readers |-> rd'[o]]
      BY <3>1, <3>2
    <3> QED
      BY <3>1, <3>2, <3>4, <3>5 DEF ToPlace
  <2>3. /\ Others(r) /\ seen'[r] = seen[r] /\ IterRec(q2)
        /\ q2.pc = "size" /\ q2.idx = v /\ q2.passed = p
    <3>1. PICK c, a : c = "size" /\ a = q.at
      OBVIOUS
    <3>2. ToPlace(r, c, v, a, p)
      BY <2>2, <3>1
    <3>3. c \in IterPcs /\ v \in 0 .. BUCKETS /\ (c # "size" => v \in Slots)
      BY <1>1, <1>4, <3>1, ShmAssumption DEF IterPcs, Slots
    <3>4. IterRec(rd[r])
      BY <1>1, <1>3
    <3>5. /\ Others(r) /\ seen'[r] = seen[r] /\ IterRec(rd'[r])
          /\ rd'[r].pc = c /\ rd'[r].idx = v /\ rd'[r].at = a /\ rd'[r].passed = p
      BY ONLY <1>3, <1>4, <3>2, <3>3, <3>4, IterTo
    <3> QED
      BY <1>10, <3>1, <3>5
  <2>4. \A k \in seen[r] : slot(k) = i => Passed(p, k)
    <3> SUFFICES ASSUME NEW k \in seen[r], slot(k) = i PROVE Passed(p, k)
      OBVIOUS
    <3>1. k \in Keys /\ C.ent[k] # NIL
      BY <1>3 DEF PassedOK
    <3>2. PICK l \in 1 .. n : s[l] = k
      BY <1>1, <1>3, <1>7, <3>1, InItsBucket
    <3>3. l < j \/ l = j
      BY <1>8, <2>1
    <3> QED
      BY <1>5, <1>7, <3>2, <3>3
  <2>5. PassedOK(C, q2, seen[r], BeingPut) /\ \A u : PlaceOK(C, q2, u)
    BY <1>1, <1>3, <1>4, <2>3, <2>4, NextBucket
  <2> QED
    BY <1>10, <2>3, <2>5 DEF Iterated, Iterating
<1> QED
  BY <1>11, <1>12

(* What touchdb_iter has passed in the end. *)
LEMMA IterEnds ==
  ASSUME NEW C, NEW r, Iters(C, r), iter_ends(r)
  PROVE  Iterated(C, r)
<1>1. PICK q, p, x : /\ q = rd[r] /\ p = q.passed
                     /\ x = (/\ IsInjective(p) /\ seen[r] \subseteq ToSet(p)
                             /\ ToSet(p) \subseteq {k \in Keys : view[k].kind # "absent"})
  OBVIOUS
<1>2. /\ q.pc = "size" /\ q.idx = BUCKETS
      /\ rd' = [rd EXCEPT ![r] = [pc |-> "iterated", right |-> x]]
      /\ seen' = [seen EXCEPT ![r] = {}] /\ disturbed' = disturbed \ {r}
  BY <1>1 DEF iter_ends, At, Return
<1>3. /\ OneEach /\ r \in Readers /\ Known(C) /\ IterRec(q) /\ PassedOK(C, q, seen[r], BeingPut)
      /\ view = C.kv
  BY <1>1 DEF Iters, Iterating, Sound
<1>4. p \in Seq(Keys)
  BY <1>1, <1>3 DEF IterRec
<1>5. x
  <2>1. IsInjective(p)
    BY <1>1, <1>3, <1>4 DEF IsInjective, PassedOK
  <2>2. ASSUME NEW k \in seen[r] PROVE k \in ToSet(p)
    <3>1. k \in Keys /\ (slot(k) < BUCKETS => Passed(p, k))
      BY <1>1, <1>2, <1>3 DEF PassedOK
    <3>2. slot(k) < BUCKETS
      BY <3>1, SlotIs, ShmAssumption DEF Slots
    <3> QED
      BY <1>4, <3>1, <3>2 DEF Passed, ToSet
  <2>3. ASSUME NEW k \in ToSet(p) PROVE k \in Keys /\ view[k].kind # "absent"
    <3>1. PICK j \in 1 .. Len(p) : p[j] = k
      BY <1>4 DEF ToSet
    <3>2. k \in Keys /\ C.ent[k] # NIL
      BY <1>1, <1>3, <1>4, <3>1 DEF PassedOK
    <3>3. ValueLive(mem, C.own, C.ent[k], C.ns[k], k, C.kv[k])
      BY <1>3, <3>2 DEF Known, LiveIn, Live, KeyLive
    <3>4. CASE k \in StrKeys
      <4>1. C.kv[k] = [kind |-> "text", text |-> C.kv[k].text]
        BY <3>3, <3>4 DEF ValueLive
      <4>2. C.kv[k].kind = "text"
        BY <4>1
      <4> QED
        BY <1>3, <3>2, <4>2
    <3>5. CASE k \in ListKeys
      <4>1. C.kv[k] = [kind |-> "list", texts |-> C.kv[k].texts]
        BY <3>3, <3>5 DEF ValueLive
      <4>2. C.kv[k].kind = "list"
        BY <4>1
      <4> QED
        BY <1>3, <3>2, <4>2
    <3> QED
      BY <3>2, <3>4, <3>5 DEF Keys
  <2> QED
    BY <1>1, <2>1, <2>2, <2>3, Zenon
<1>6. Others(r)
  BY <1>2, <1>3 DEF OneEach, Others
<1>7. Finished(rd'[r])
  <2>1. rd'[r] = [pc |-> "iterated", right |-> x]
    BY <1>2, <1>3 DEF OneEach
  <2>2. rd'[r].pc = "iterated" /\ "key" \notin DOMAIN rd'[r] /\ rd'[r].right = x
    BY <2>1
  <2>3. rd'[r].right
    BY <1>5, <2>2, Zenon
  <2> QED
    BY <2>2, <2>3 DEF Finished
<1> QED
  BY <1>6, <1>7 DEF Iterated

(* A step of an iterator. *)
LEMMA IterStep ==
  ASSUME NEW C, NEW r, Iters(C, r), read(r)
  PROVE  Iterated(C, r)
<1>1. rd[r].pc \in IterPcs
  BY DEF Iters, Iterating, IterRec
<1>2. ~ (\/ get_bulk(r) \/ get_entry(r) \/ next_entry(r) \/ entry_val(r)
         \/ chain_header(r) \/ next_node(r) \/ node_val(r)
         \/ str_data(r) \/ first_half(r) \/ second_half(r))
  BY <1>1 DEF IterPcs, get_bulk, get_entry, next_entry, entry_val, chain_header, next_node, node_val, str_data,
              first_half, second_half, At
<1>3. iter_size(r) \/ iter_header(r) \/ iter_entry(r) \/ iter_next(r) \/ iter_ends(r)
  BY <1>2 DEF read
<1> QED
  BY <1>3, IterSize, IterHeader, IterEntry, IterNext, IterEnds

(* The first step of its call. *)
LEMMA StartIters ==
  ASSUME NEW C, LiveIn(mem, C), view = C.kv, OneEach, NEW r \in Readers, start_iter(r)
  PROVE  Others(r) /\ Iterating(C, rd'[r], seen'[r], BeingPut)
<1>1. PICK q, s : /\ q = [pc |-> "size", idx |-> 0, at |-> NIL, passed |-> <<>>]
                  /\ s = {k \in Keys : view[k].kind # "absent"} \ BeingPut
  OBVIOUS
<1>2. /\ rd' = [rd EXCEPT ![r] = q] /\ seen' = [seen EXCEPT ![r] = s] /\ disturbed' = disturbed
  BY <1>1 DEF start_iter
<1>3. Others(r) /\ rd'[r] = q /\ seen'[r] = s
  BY <1>2 DEF OneEach, Others
<1>4. q.pc = "size" /\ q.idx = 0 /\ q.at = NIL /\ q.passed = <<>>
  BY <1>1
<1>5. IterRec(q)
  <2>1. q = [pc |-> q.pc, idx |-> q.idx, at |-> q.at, passed |-> q.passed]
    BY <1>1
  <2>2. <<>> \in Seq(Keys) /\ 0 \in 0 .. BUCKETS
    BY ShmAssumption
  <2> QED
    BY <1>4, <2>1, <2>2 DEF IterRec, IterPcs
<1>6. ASSUME NEW k \in s PROVE k \in Keys /\ C.ent[k] # NIL /\ k \notin BeingPut /\ ~(slot(k) < 0)
  <2>1. k \in Keys /\ view[k].kind # "absent" /\ k \notin BeingPut
    BY <1>1
  <2>2. C.ent[k] # NIL
    <3> SUFFICES ASSUME C.ent[k] = NIL PROVE FALSE
      OBVIOUS
    <3>1. C.kv[k] = [kind |-> "absent"]
      BY <2>1 DEF LiveIn, Live, KeyLive
    <3> QED
      BY <2>1, <3>1
  <2>3. slot(k) \in Nat
    BY <2>1, SlotIs DEF Slots
  <2> QED
    BY <2>1, <2>2, <2>3
<1>7. PassedOK(C, q, s, BeingPut)
  <2>1. Len(q.passed) = 0
    BY <1>4
  <2> QED
    BY <1>4, <1>6, <2>1 DEF PassedOK
<1> QED
  BY <1>3, <1>4, <1>5, <1>7 DEF Iterating, PlaceOK

-----------------------------------------------------------------------------
(* The invariant of the readers. *)

(* A reader with the record q has ended its call, is on its way to an      *)
(* answer that was right since the call began, or has passed what it had to *)
(* pass so far.                                                            *)
Minds(m, C, q, s, free, put) ==
  Finished(q) \/ Seeking(m, C, q, s, free) \/ Iterating(C, q, s, put)

(* While a list is popped, those that look for it are marked. *)
PopMarks ==
  todo # <<>> /\ call.op = "list_pop" =>
    /\ call = [op |-> "list_pop", key |-> call.key]
    /\ \A r \in Readers : Seeks(r) /\ rd[r].key = call.key => r \in disturbed

AllMind(C) == \A r \in Readers : Minds(mem, C, rd[r], seen[r], r \in disturbed, BeingPut)

ReaderOK ==
  /\ OneEach /\ PopMarks
  /\ kills # 0 => \A r \in Readers : Finished(rd[r]) /\ rd[r].pc = "idle"
  /\ kills = 0 => \E C, N, fin, n : Sound(C, N, fin, n) /\ AllMind(C)

(* An iterator, and who has ended its call, looks for no key. *)
LEMMA NoKey ==
  ASSUME NEW C, NEW q, NEW s, NEW put, Finished(q) \/ Iterating(C, q, s, put)
  PROVE  "key" \notin DOMAIN q
<1>1. CASE Iterating(C, q, s, put)
  <2>1. q = [pc |-> q.pc, idx |-> q.idx, at |-> q.at, passed |-> q.passed]
    BY <1>1 DEF Iterating, IterRec
  <2> QED
    BY <2>1
<1> QED
  BY <1>1 DEF Finished

(* A reader that looks for a key has one. *)
LEMMA HasKey ==
  ASSUME NEW q, SeekRec(q)
  PROVE  "key" \in DOMAIN q
<1>1. q = [pc |-> q.pc, key |-> q.key, idx |-> q.idx, at |-> q.at, i |-> q.i, half |-> q.half]
  BY DEF SeekRec
<1> QED
  BY <1>1

(* The invariant holds at first. *)
LEMMA ReaderInit ==
  ASSUME ShmInit
  PROVE  ReaderOK
<1>1. /\ kills = 0 /\ todo = <<>> /\ rd = [r \in Readers |-> [pc |-> "idle"]] /\ seen = [r \in Readers |-> {}]
  BY DEF ShmInit
<1>2. \A r \in Readers : Finished(rd[r])
  BY <1>1 DEF Finished
<1>3. OneEach
  BY <1>1 DEF OneEach
<1>4. Sound(NoTables, NoTables, mem, 0)
  BY SoundFirst
<1> QED
  BY <1>1, <1>2, <1>3, <1>4 DEF ReaderOK, PopMarks, AllMind, Minds

(* The marks stay right. *)
LEMMA MarksStay ==
  ASSUME PopMarks, WriterNext
  PROVE  PopMarks'
<1>1. rd' = rd
  BY DEF WriterNext
<1>2. CASE \E k \in ListKeys : touchdb_list_pop(k)
  <2>1. PICK k \in ListKeys : touchdb_list_pop(k)
    BY <1>2
  <2>2. /\ call' = [op |-> "list_pop", key |-> k]
        /\ disturbed' = disturbed \cup {r \in Readers : Seeks(r) /\ rd[r].key = k}
    BY <2>1 DEF touchdb_list_pop, Begin
  <2>3. call'.key = k
    BY <2>2
  <2> QED
    BY <1>1, <2>2, <2>3 DEF PopMarks, Seeks
<1>3. CASE \/ \E k \in StrKeys, t \in Texts : touchdb_put_str(k, t)
           \/ \E k \in ListKeys, t \in Texts : touchdb_list_push_new(k, t) \/ touchdb_list_push(k, t)
  <2>1. PICK op, k : op # "list_pop" /\ call' = [op |-> op, key |-> k]
    BY Zenon, <1>3 DEF touchdb_put_str, touchdb_list_push_new, touchdb_list_push, Begin
  <2>2. call'.op # "list_pop"
    BY <2>1
  <2> QED
    BY Zenon, <2>2 DEF PopMarks
<1>4. CASE Write
  BY <1>1, <1>4 DEF Write, PopMarks, Seeks
<1>5. CASE kill \/ crash
  <2>1. todo' = <<>>
    BY <1>5 DEF kill, crash, CutShort
  <2> QED
    BY <2>1 DEF PopMarks
<1> QED
  BY <1>2, <1>3, <1>4, <1>5 DEF WriterNext

(* A call for a new key begins only when it is not there. *)
LEMMA NotBeingPut ==
  ASSUME NEW C, NEW N, NEW fin, NEW n, Sound(C, N, fin, n), WriterNext, ~kill,
         NEW k \in Keys, C.ent[k] # NIL, k \notin BeingPut
  PROVE  k \notin BeingPut'
<1>1. CASE Between /\ \/ \E j \in StrKeys, t \in Texts : touchdb_put_str(j, t)
                      \/ \E j \in ListKeys, t \in Texts : touchdb_list_push_new(j, t) \/ touchdb_list_push(j, t)
                      \/ \E j \in ListKeys : touchdb_list_pop(j)
  <2>1. todo = <<>>
    BY <1>1 DEF Between
  <2>2. Ready(C)
    BY ONLY <2>1, Sound(C, N, fin, n), RestNow DEF Ready
  <2>3. CASE \/ \E j \in StrKeys, t \in Texts : touchdb_put_str(j, t)
             \/ \E j \in ListKeys, t \in Texts : touchdb_list_push_new(j, t)
    <3>1. PICK j \in Keys : call'.key = j /\ (EntryOf(j) = NIL \/ mem[bulk(j)].size = 0)
      <4>1. CASE \E j \in StrKeys, t \in Texts : touchdb_put_str(j, t)
        <5>1. PICK j \in StrKeys, t \in Texts : touchdb_put_str(j, t)
          BY <4>1
        <5>2. call' = [op |-> "put_str", key |-> j]
          BY <5>1 DEF touchdb_put_str, Begin
        <5>3. j \in Keys /\ (EntryOf(j) = NIL \/ mem[bulk(j)].size = 0)
          BY <5>1 DEF touchdb_put_str, Keys
        <5>4. call'.key = j
          BY <5>2
        <5> QED
          BY <5>3, <5>4
      <4>2. CASE \E j \in ListKeys, t \in Texts : touchdb_list_push_new(j, t)
        <5>1. PICK j \in ListKeys, t \in Texts : touchdb_list_push_new(j, t)
          BY <4>2
        <5>2. call' = [op |-> "list_new", key |-> j]
          BY <5>1 DEF touchdb_list_push_new, Begin
        <5>3. j \in Keys /\ (EntryOf(j) = NIL \/ mem[bulk(j)].size = 0)
          BY <5>1 DEF touchdb_list_push_new, Keys
        <5>4. call'.key = j
          BY <5>2
        <5> QED
          BY <5>3, <5>4
      <4> QED
        BY <2>3, <4>1, <4>2
    <3>2. C.ent[j] = NIL
      BY <2>2, <3>1, FoundIs
    <3> QED
      BY <3>1, <3>2 DEF BeingPut
  <2>4. CASE \/ \E j \in ListKeys, t \in Texts : touchdb_list_push(j, t)
             \/ \E j \in ListKeys : touchdb_list_pop(j)
    <3>1. PICK op, j : op \notin {"put_str", "list_new"} /\ call' = [op |-> op, key |-> j]
      BY <2>4 DEF touchdb_list_push, touchdb_list_pop, Begin
    <3>2. call'.op = op
      BY <3>1
    <3> QED
      BY <3>1, <3>2 DEF BeingPut
  <2> QED
    BY <1>1, <2>3, <2>4
<1>2. CASE Write
  BY <1>2 DEF Write, BeingPut
<1>3. CASE crash
  <2>1. todo' = <<>>
    BY <1>3 DEF crash, CutShort
  <2> QED
    BY <2>1 DEF BeingPut
<1> QED
  BY <1>1, <1>2, <1>3 DEF WriterNext

(* A step of the writer leaves every reader on its way. *)
LEMMA MindsKept ==
  ASSUME NEW C, NEW N, NEW fin, NEW n, Sound(C, N, fin, n), WriterNext, ~kill, PopMarks,
         NEW C2, view' = C2.kv, Effect(C, C2), Steady(mem, mem', C.own),
         NEW r \in Readers, Minds(mem, C, rd[r], seen[r], r \in disturbed, BeingPut)
  PROVE  Minds(mem', C2, rd'[r], seen'[r], r \in disturbed', BeingPut')
<1>1. PICK q, s : q = rd[r] /\ s = seen[r]
  OBVIOUS
<1>2. /\ rd' = rd /\ LiveIn(mem, C)
      /\ seen'[r] = IF "key" \in DOMAIN q THEN s \cup {Answer(q.key, q.idx)'} ELSE s
  BY <1>1 DEF WriterNext, Seeks, Sound, Base
<1>3. C2 = C \/ (todo # <<>> /\ Grown(C, C2, call.op, call.key))
  BY Zenon DEF Effect
<1>4. r \in disturbed => r \in disturbed'
  BY Zenon DEF WriterNext, touchdb_put_str, touchdb_list_push_new, touchdb_list_push, touchdb_list_pop, Write, crash, CutShort
<1>5. CASE Finished(q)
  BY <1>1, <1>2, <1>5 DEF Minds
<1>6. CASE Seeking(mem, C, q, s, r \in disturbed)
  <2>1. SeekRec(q) /\ Asks(q.key, q.idx)
    BY <1>6 DEF Seeking, SeekRec
  <2>2. seen'[r] = s \cup {Answer(q.key, q.idx)'}
    BY <1>2, <2>1, HasKey
  <2>3. Answer(q.key, q.idx)' = AnswerIn(C2.kv, q.key, q.idx)
    BY DEF Answer, AnswerIn
  <2>4. r \in disturbed' \/ OnWay(mem', C2, q)
    <3> SUFFICES ASSUME r \notin disturbed' PROVE OnWay(mem', C2, q)
      OBVIOUS
    <3>1. r \notin disturbed /\ OnWay(mem, C, q)
      BY <1>4, <1>6 DEF Seeking
    <3>2. Moves(C, C2, q.key)
      <4>1. CASE C2 = C
        BY <4>1 DEF Moves
      <4>2. CASE todo # <<>> /\ Grown(C, C2, call.op, call.key)
        <5>1. call.op = "list_pop" => call.key # q.key
          <6> SUFFICES ASSUME call.op = "list_pop", call.key = q.key PROVE FALSE
            OBVIOUS
          <6>1. Seeks(r)
            BY <1>1, <2>1, HasKey DEF Seeks
          <6> QED
            BY <1>1, <3>1, <4>2, <6>1 DEF PopMarks
        <5> QED
          BY <4>2, <5>1 DEF Moves
      <4> QED
        BY <1>3, <4>1, <4>2
    <3>3. PICK m2 : m2 = mem'
      OBVIOUS
    <3>4. Steady(mem, m2, C.own)
      BY <3>3
    <3>5. OnWay(m2, C2, q)
      BY <1>2, <2>1, <3>1, <3>2, <3>4, OnWayKept
    <3> QED
      BY <3>3, <3>5
  <2>5. AnswerIn(C2.kv, q.key, q.idx) \in seen'[r]
    BY <2>2, <2>3
  <2>6. Seeking(mem', C2, q, seen'[r], r \in disturbed')
    BY <2>1, <2>4, <2>5 DEF Seeking
  <2> QED
    BY <1>1, <1>2, <2>6 DEF Minds
<1>7. CASE Iterating(C, q, s, BeingPut)
  <2>1. seen'[r] = s
    BY <1>2, <1>7, NoKey
  <2>2. \A k \in s : k \notin BeingPut'
    <3> SUFFICES ASSUME NEW k \in s PROVE k \notin BeingPut'
      OBVIOUS
    <3>1. k \in Keys /\ C.ent[k] # NIL /\ k \notin BeingPut
      BY <1>7 DEF Iterating, PassedOK
    <3> QED
      BY <3>1, NotBeingPut
  <2>3. PICK p, p2 : p = BeingPut /\ p2 = BeingPut'
    OBVIOUS
  <2>4. C2 = C \/ \E op, j : Grown(C, C2, op, j)
    BY <1>3
  <2>5. Iterating(C, q, s, p) /\ \A k \in s : k \notin p2
    BY <1>7, <2>2, <2>3
  <2>6. Iterating(C2, q, s, p2)
    BY ONLY <1>2, <2>4, <2>5, IteratingKept
  <2> QED
    BY <1>1, <1>2, <2>1, <2>3, <2>6 DEF Minds
<1> QED
  BY <1>1, <1>5, <1>6, <1>7 DEF Minds

(* What a step of the reader r leaves true. *)
Moved(C, r) ==
  /\ Others(r) /\ Minds(mem, C, rd'[r], seen'[r], r \in disturbed', BeingPut)
  /\ todo # <<>> /\ call.op = "list_pop" /\ "key" \in DOMAIN rd'[r] /\ rd'[r].key = call.key => r \in disturbed'

(* Who has ended its call, or not begun it, reads nothing. *)
LEMMA NoneRead ==
  ASSUME NEW r, Finished(rd[r])
  PROVE  ~ read(r)
BY DEF Finished, read, get_bulk, get_entry, next_entry, entry_val, chain_header, next_node, node_val, str_data,
       first_half, second_half, iter_size, iter_header, iter_entry, iter_next, iter_ends, At

(* A read of any reader. *)
LEMMA ReadMoves ==
  ASSUME NEW C, NEW N, NEW fin, NEW n, Sound(C, N, fin, n), OneEach, PopMarks, ListTextClass = "text",
         NEW r \in Readers, Minds(mem, C, rd[r], seen[r], r \in disturbed, BeingPut), read(r)
  PROVE  Moved(C, r)
<1>1. Known(C)
  BY DEF Known, Sound, Base
<1>2. ~ Finished(rd[r])
  BY NoneRead
<1>3. CASE Seeking(mem, C, rd[r], seen[r], r \in disturbed)
  <2>1. Looks(C, r)
    BY <1>1, <1>3 DEF Looks
  <2>2. Sought(mem, C, r)
    BY <2>1, SeekStep
  <2>3. CASE Finished(rd'[r])
    <3>1. "key" \notin DOMAIN rd'[r]
      BY <2>3 DEF Finished
    <3> QED
      BY <2>2, <2>3, <3>1 DEF Moved, Minds, Sought
  <2>4. CASE ~ Finished(rd'[r])
    <3>1. /\ Others(r) /\ Seeking(mem, C, rd'[r], seen'[r], r \in disturbed')
          /\ rd'[r].key = rd[r].key /\ (r \in disturbed' <=> r \in disturbed)
      BY <2>2, <2>4 DEF Sought
    <3>2. Seeks(r)
      BY <1>3, HasKey DEF Seeking, Seeks
    <3>3. todo # <<>> /\ call.op = "list_pop" /\ rd[r].key = call.key => r \in disturbed
      BY <3>2 DEF PopMarks
    <3> QED
      BY <3>1, <3>3 DEF Moved, Minds
  <2> QED
    BY <2>3, <2>4
<1>4. CASE Iterating(C, rd[r], seen[r], BeingPut)
  <2>1. Iters(C, r)
    BY <1>1, <1>4 DEF Iters
  <2>2. Others(r) /\ (Finished(rd'[r]) \/ Iterating(C, rd'[r], seen'[r], BeingPut))
    BY <2>1, IterStep DEF Iterated
  <2>3. "key" \notin DOMAIN rd'[r]
    BY <2>2, NoKey
  <2> QED
    BY <2>2, <2>3 DEF Moved, Minds
<1> QED
  BY <1>2, <1>3, <1>4 DEF Minds

(* The beginning of a call of any reader. *)
LEMMA StartMoves ==
  ASSUME NEW C, NEW N, NEW fin, NEW n, Sound(C, N, fin, n), OneEach, PopMarks,
         NEW r \in Readers, (\E c \in Calls : start(r, c[1], c[2])) \/ start_iter(r)
  PROVE  Moved(C, r)
<1>1. view = C.kv /\ LiveIn(mem, C)
  BY DEF Sound, Base
<1>2. CASE \E c \in Calls : start(r, c[1], c[2])
  <2>1. PICK c \in Calls : start(r, c[1], c[2])
    BY <1>2
  <2>2. Others(r) /\ Seeking(mem, C, rd'[r], seen'[r], r \in disturbed') /\ rd'[r].key = c[1]
    BY <1>1, <2>1, StartSeeks
  <2>3. todo # <<>> /\ call = [op |-> "list_pop", key |-> c[1]] => r \in disturbed'
    BY <2>1 DEF start
  <2>4. todo # <<>> /\ call.op = "list_pop" /\ rd'[r].key = call.key => r \in disturbed'
    BY <2>2, <2>3 DEF PopMarks
  <2> QED
    BY <2>2, <2>4 DEF Moved, Minds
<1>3. CASE start_iter(r)
  <2>1. Others(r) /\ Iterating(C, rd'[r], seen'[r], BeingPut)
    BY <1>1, <1>3, StartIters
  <2>2. "key" \notin DOMAIN rd'[r]
    BY <2>1, NoKey
  <2> QED
    BY <2>1, <2>2 DEF Moved, Minds
<1> QED
  BY <1>2, <1>3

(* A step of a reader. *)
LEMMA ReaderMoves ==
  ASSUME ListTextClass = "text", ReaderOK, NEW r \in Readers,
         read(r) \/ (\E c \in Calls : start(r, c[1], c[2])) \/ start_iter(r)
  PROVE  ReaderOK'
<1>1. UNCHANGED writerVars
  BY ReaderStep
<1>2. mem' = mem /\ todo' = todo /\ call' = call /\ kills' = kills
  BY <1>1 DEF writerVars
<1>3. OneEach /\ PopMarks
  BY DEF ReaderOK
<1>4. kills = 0
  <2>1. CASE read(r)
    BY <2>1, NoneRead DEF ReaderOK
  <2>2. CASE (\E c \in Calls : start(r, c[1], c[2])) \/ start_iter(r)
    BY <2>2 DEF start, start_iter
  <2> QED
    BY <2>1, <2>2
<1>5. PICK C, N, fin, n : Sound(C, N, fin, n) /\ AllMind(C)
  BY <1>4 DEF ReaderOK
<1>6. Moved(C, r)
  <2>1. CASE read(r)
    BY <1>3, <1>5, <2>1, ReadMoves DEF AllMind
  <2>2. CASE (\E c \in Calls : start(r, c[1], c[2])) \/ start_iter(r)
    BY <1>3, <1>5, <2>2, StartMoves
  <2> QED
    BY <2>1, <2>2
<1>7. OneEach' /\ \A o \in Readers \ {r} : rd'[o] = rd[o] /\ seen'[o] = seen[o] /\ (o \in disturbed' <=> o \in disturbed)
  BY <1>6 DEF Moved, Others
<1>8. PopMarks'
  <2> SUFFICES ASSUME todo # <<>>, call.op = "list_pop"
               PROVE  /\ call = [op |-> "list_pop", key |-> call.key]
                      /\ \A o \in Readers : Seeks(o)' /\ rd'[o].key = call.key => o \in disturbed'
    BY <1>2 DEF PopMarks
  <2>1. call = [op |-> "list_pop", key |-> call.key]
    BY <1>3 DEF PopMarks
  <2>2. ASSUME NEW o \in Readers, Seeks(o)', rd'[o].key = call.key PROVE o \in disturbed'
    <3>1. CASE o = r
      BY <1>6, <2>2, <3>1 DEF Moved, Seeks
    <3>2. CASE o # r
      BY <1>3, <1>7, <2>2, <3>2 DEF PopMarks, Seeks
    <3> QED
      BY <3>1, <3>2
  <2> QED
    BY <2>1, <2>2
<1>9. Sound(C, N, fin, n)'
  BY <1>1, <1>5, SoundStays DEF writerVars, tables
<1>10. AllMind(C)'
  <2>1. BeingPut' = BeingPut
    BY <1>2 DEF BeingPut
  <2>2. ASSUME NEW o \in Readers
        PROVE  Minds(mem', C, rd'[o], seen'[o], o \in disturbed', BeingPut')
    <3>1. CASE o = r
      BY <1>2, <1>6, <2>1, <3>1 DEF Moved
    <3>2. CASE o # r
      <4>1. Minds(mem, C, rd[o], seen[o], o \in disturbed, BeingPut)
        BY <1>5 DEF AllMind
      <4>2. rd'[o] = rd[o] /\ seen'[o] = seen[o] /\ (o \in disturbed' <=> o \in disturbed)
        BY <1>7, <3>2
      <4> QED
        BY <1>2, <2>1, <4>1, <4>2 DEF Minds, Seeking
    <3> QED
      BY <3>1, <3>2
  <2> QED
    BY <2>2 DEF AllMind
<1> QED
  BY <1>2, <1>4, <1>7, <1>8, <1>9, <1>10 DEF ReaderOK

(* A step of the writer. *)
LEMMA WriterMoves ==
  ASSUME WriterOK, ReaderOK, WriterNext
  PROVE  ReaderOK'
<1>1. rd' = rd /\ seen' = [r \in Readers |-> seen'[r]] /\ OneEach /\ PopMarks
  BY DEF WriterNext, ReaderOK
<1>2. OneEach'
  BY <1>1 DEF OneEach
<1>3. PopMarks'
  BY <1>1, MarksStay
<1>4. ASSUME kills' # 0, NEW r \in Readers PROVE Finished(rd'[r]) /\ rd'[r].pc = "idle"
  <2>1. CASE kills # 0
    BY <1>1, <2>1 DEF ReaderOK
  <2>2. CASE kills = 0
    <3>1. kill
      BY Zenon, <1>4, <2>2 DEF WriterNext, crash, Write, touchdb_put_str, touchdb_list_push_new, touchdb_list_push,
                        touchdb_list_pop
    <3>2. rd[r].pc = "idle"
      BY <3>1 DEF kill
    <3>3. PICK C, N, fin, n : Sound(C, N, fin, n) /\ AllMind(C)
      BY <2>2 DEF ReaderOK
    <3>4. Minds(mem, C, rd[r], seen[r], r \in disturbed, BeingPut)
      BY <3>3 DEF AllMind
    <3>5. Finished(rd[r])
      BY <3>2, <3>4 DEF Minds, Seeking, SeekRec, SeekPcs, Iterating, IterRec, IterPcs
    <3> QED
      BY Zenon, <1>1, <3>2, <3>5
  <2> QED
    BY <2>1, <2>2
<1>5. ASSUME kills' = 0 PROVE \E C, N, fin, n : Sound(C, N, fin, n)' /\ AllMind(C)'
  <2>1. ~kill /\ kills = 0 /\ lost = <<>>
    BY <1>5, WriterUnkilled
  <2>2. PICK C, N, fin, n : Sound(C, N, fin, n) /\ AllMind(C)
    BY <2>1 DEF ReaderOK
  <2>3. WriterDoes(C)
    BY <2>1, <2>2, WriterStep
  <2>4. PICK C2, M, fin2, n2 : Sound(C2, M, fin2, n2)' /\ Effect(C, C2)
    BY <2>3 DEF WriterDoes
  <2>5. view' = C2.kv /\ Steady(mem, mem', C.own)
    BY <2>3, <2>4 DEF Sound, WriterDoes
  <2>6. ASSUME NEW r \in Readers
        PROVE  Minds(mem', C2, rd'[r], seen'[r], r \in disturbed', BeingPut')
    BY <1>1, <2>1, <2>2, <2>4, <2>5, MindsKept DEF AllMind
  <2>7. AllMind(C2)'
    BY <2>6 DEF AllMind
  <2> QED
    BY <2>4, <2>7
<1> QED
  BY <1>2, <1>3, <1>4, <1>5 DEF ReaderOK

(* Every step keeps the invariant of the readers. *)
LEMMA ReaderOKStep ==
  ASSUME ListTextClass = "text", WriterOK, ReaderOK, [ShmNext]_shmVars
  PROVE  ReaderOK'
<1>1. CASE WriterNext
  BY <1>1, WriterMoves
<1>2. CASE \E r \in Readers : read(r) \/ (\E c \in Calls : start(r, c[1], c[2])) \/ start_iter(r)
  <2>1. PICK r \in Readers : read(r) \/ (\E c \in Calls : start(r, c[1], c[2])) \/ start_iter(r)
    BY <1>2
  <2> QED
    BY <2>1, ReaderMoves
<1>3. CASE use_nil_offset \/ UNCHANGED shmVars
  <2>1. /\ mem' = mem /\ todo' = todo /\ call' = call /\ kills' = kills
        /\ rd' = rd /\ seen' = seen /\ disturbed' = disturbed /\ UNCHANGED tables
    BY <1>3 DEF use_nil_offset, shmVars, writerVars, tables
  <2>2. OneEach' /\ PopMarks' /\ (kills' # 0 => \A r \in Readers : Finished(rd'[r]) /\ rd'[r].pc = "idle")
    BY <2>1 DEF ReaderOK, OneEach, PopMarks, Seeks
  <2>3. ASSUME kills = 0 PROVE \E C, N, fin, n : Sound(C, N, fin, n)' /\ AllMind(C)'
    <3>1. PICK C, N, fin, n : Sound(C, N, fin, n) /\ AllMind(C)
      BY <2>3 DEF ReaderOK
    <3>2. Sound(C, N, fin, n)'
      BY <2>1, <3>1, SoundStays
    <3>3. AllMind(C)'
      BY <2>1, <3>1 DEF AllMind, BeingPut
    <3> QED
      BY <3>2, <3>3
  <2> QED
    BY <2>1, <2>2, <2>3 DEF ReaderOK
<1> QED
  BY <1>1, <1>2, <1>3 DEF ShmNext

(* The invariant of the readers, for every number of readers, calls and    *)
(* kills, when texts take blocks of their own class: nobody is ever on a   *)
(* block that its call may not meet, although the writer links, counts and *)
(* frees under it without a lock.                                          *)
THEOREM ReadersAlwaysOK ==
  ASSUME ListTextClass = "text"
  PROVE  ShmSpec => []ReaderOK
<1>1. ShmInit => ReaderOK
  BY ReaderInit
<1>2. WriterOK /\ ReaderOK /\ [ShmNext]_shmVars => ReaderOK'
  BY ReaderOKStep
<1> QED
  BY <1>1, <1>2, WriterAlwaysOK, PTL DEF ShmSpec

(* Who has ended its call has a right answer. *)
LEMMA EndedRight ==
  ASSUME ReaderOK
  PROVE  \A r \in Readers : rd[r].pc \in {"answered", "iterated"} => rd[r].right
<1> SUFFICES ASSUME NEW r \in Readers, rd[r].pc \in {"answered", "iterated"} PROVE rd[r].right
  OBVIOUS
<1>1. CASE kills # 0
  BY <1>1 DEF ReaderOK
<1>2. CASE kills = 0
  <2>1. PICK C : AllMind(C)
    BY <1>2 DEF ReaderOK
  <2>2. Minds(mem, C, rd[r], seen[r], r \in disturbed, BeingPut)
    BY <2>1 DEF AllMind
  <2>3. Finished(rd[r])
    BY <2>2 DEF Minds, Seeking, SeekRec, SeekPcs, Iterating, IterRec, IterPcs
  <2>4. rd[r].pc # "idle"
    OBVIOUS
  <2> QED
    BY <2>3, <2>4, Zenon DEF Finished
<1> QED
  BY <1>1, <1>2

(* touchdb_get_str and touchdb_list_node_idx never return a torn text, a   *)
(* wrong text or a wrong NULL while a process writes: the answer was right *)
(* at some moment during the call, unless its own list was popped          *)
(* meanwhile.                                                              *)
THEOREM ReadersAnswerRight ==
  ASSUME ListTextClass = "text"
  PROVE  ShmSpec => []ReadsCurrent
<1>1. ReaderOK => ReadsCurrent
  BY EndedRight, Zenon DEF ReadsCurrent
<1> QED
  BY <1>1, ReadersAlwaysOK, PTL

(* touchdb_iter passes every key that was put before it began, no key      *)
(* twice and none that is not there, although touchdb_map_put2 counts an   *)
(* entry in its bucket only after it has linked it.                        *)
THEOREM IterationIsComplete ==
  ASSUME ListTextClass = "text"
  PROVE  ShmSpec => []IteratesAll
<1>1. ReaderOK => IteratesAll
  BY EndedRight, Zenon DEF IteratesAll
<1> QED
  BY <1>1, ReadersAlwaysOK, PTL
=============================================================================
