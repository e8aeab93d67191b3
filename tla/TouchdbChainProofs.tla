------------------------- MODULE TouchdbChainProofs -------------------------
(***************************************************************************)
(* Proofs about TouchdbChain for any number of blocks and values, in each  *)
(* of the three disciplines.                                               *)
(*                                                                         *)
(* ChainInv names the sequence s of nodes that the links thread.  What a   *)
(* recursive loop visits follows from s: a function that satisfies the     *)
(* recursion of Walk exists, since there is no least length for which it   *)
(* does not, and it agrees with s, since there is no least step at which   *)
(* it does not.  So the values of the chain are those of the nodes of s,   *)
(* and each call does to them what AbsList says.                           *)
(***************************************************************************)
EXTENDS TouchdbChain, FiniteSetTheorems, SequenceTheorems, TLAPS

Threads(s) ==
  /\ s \in Listings
  /\ LinkedBackward(s)
  /\ chain.header = IF chain.size = 0 THEN NIL ELSE s[1]
  /\ \A i \in DOMAIN s : i # chain.size => node[s[i]].next = s[i + 1]
  /\ discipline # "stack" => LinkedForward(s)
  /\ discipline # "queue" /\ chain.size # 0 => node[s[1]].prev = NIL
  /\ discipline = "queue" => alloc = {s[i] : i \in 1 .. chain.size}

Threaded == \E s \in Listings : Threads(s)

ChainInv ==
  /\ ChainTypeOK
  /\ ~fault
  /\ discipline \in {"queue", "stack", "edit"}
  /\ ~gone => Threaded
  /\ gone => discipline # "stack"
  /\ gone /\ discipline = "queue" => alloc = {}

-----------------------------------------------------------------------------
(* The loops over the chain. *)

(* A set of natural numbers that is not empty has a least element. *)
LEMMA LeastElement ==
  ASSUME NEW n \in Nat, NEW T \in SUBSET (0 .. n), T # {}
  PROVE  \E x \in T : \A y \in T : x <= y
<1>1. PICK R : R = OpToRel(<, Nat)
  OBVIOUS
<1>2. \A x, y \in Nat : x < y => <<x, y>> \in R
  BY <1>1 DEF OpToRel
<1>3. IsWellFoundedOn(R, Nat)
  BY <1>1, NatLessThanWellFounded
<1>4. PICK x \in T : \A y \in T : ~(<<y, x>> \in R)
  <2>1. T \subseteq Nat
    OBVIOUS
  <2> QED
    BY ONLY <1>3, <2>1, T # {}, WFMin
<1>5. ASSUME NEW y \in T PROVE x <= y
  <2>1. x \in Nat /\ y \in Nat
    OBVIOUS
  <2>2. ~(y < x)
    BY ONLY <1>2, <1>4, <2>1, y \in T
  <2> QED
    BY ONLY <2>1, <2>2
<1> QED
  BY ONLY <1>5, x \in T

(* A list of different allocated nodes is no longer than there are nodes. *)
LEMMA ListingSize ==
  ASSUME ChainTypeOK, NEW s \in Listings
  PROVE  /\ Cardinality(Nodes) \in Nat /\ chain.size \in 0 .. Cardinality(Nodes)
         /\ \A n \in Nodes \ alloc : chain.size < Cardinality(Nodes)
<1>1. IsFiniteSet(Nodes) /\ Cardinality(Nodes) \in Nat
  BY ChainAssumption, FS_CardinalityType
<1>2. chain.size \in 0 .. Cardinality(Nodes) /\ chain.size \in Nat
  BY <1>1 DEF ChainTypeOK
<1>3. ASSUME NEW n \in Nodes \ alloc PROVE chain.size < Cardinality(Nodes)
  <2>1. IsFiniteSet(alloc) /\ Cardinality(alloc) < Cardinality(Nodes)
    BY <1>1, <1>3, FS_Subset, FS_CardinalityType DEF ChainTypeOK
  <2>2. s \in Injection(1 .. chain.size, alloc)
    BY DEF Listings, Injection, IsInjective
  <2>3. Cardinality(1 .. chain.size) <= Cardinality(alloc)
    BY <2>1, <2>2, FS_Injection
  <2>4. Cardinality(1 .. chain.size) = chain.size
    BY <1>2, FS_Interval
  <2> QED
    BY <1>1, <1>2, <2>1, <2>3, <2>4, FS_CardinalityType
<1> QED
  BY <1>1, <1>2, <1>3

(* f does what Walk does, for n steps. *)
IsWalk(f, n) ==
  f = [k \in 0 .. n |-> IF k = 0 THEN chain.header
                        ELSE IF f[k - 1] = NIL THEN NIL ELSE node[f[k - 1]].next]

(* The function that follows the next links from the header exists. *)
LEMMA WalkExists ==
  ASSUME ChainTypeOK
  PROVE  IsWalk(Walk, Cardinality(Nodes))
<1> DEFINE D == 0 .. Cardinality(Nodes)
           After(x) == IF x = NIL THEN NIL ELSE node[x].next
<1>1. Cardinality(Nodes) \in Nat
  BY ChainAssumption, FS_CardinalityType
<1>2. ASSUME NEW f, NEW n \in D, n # 0, IsWalk(f, n - 1)
      PROVE  \E g : IsWalk(g, n)
  <2> PICK g : g = [k \in 0 .. n |-> IF k = n THEN After(f[n - 1]) ELSE f[k]]
    OBVIOUS
  <2>1. n \in Nat /\ n - 1 \in 0 .. n - 1 /\ n - 1 \in 0 .. n /\ 0 \in 0 .. n - 1 /\ 0 \in 0 .. n
    BY <1>1, <1>2
  <2>2. g[0] = chain.header /\ g[n - 1] = f[n - 1]
    BY <1>2, <2>1 DEF IsWalk
  <2>3. ASSUME NEW k \in 0 .. n, k # 0 PROVE g[k] = After(g[k - 1])
    <3>1. CASE k = n
      BY <2>1, <2>2, <3>1
    <3>2. CASE k # n
      <4>1. k \in 0 .. n - 1 /\ k - 1 \in 0 .. n /\ k - 1 # n
        BY <2>1, <2>3, <3>2
      <4>2. g[k] = f[k] /\ g[k - 1] = f[k - 1]
        BY <3>2, <4>1
      <4>3. f[k] = After(f[k - 1])
        BY <1>2, <2>3, <4>1 DEF IsWalk
      <4> QED
        BY <4>2, <4>3
    <3> QED
      BY <3>1, <3>2
  <2>4. g = [k \in 0 .. n |-> g[k]]
    OBVIOUS
  <2>5. ASSUME NEW k \in 0 .. n
        PROVE  g[k] = IF k = 0 THEN chain.header
                      ELSE IF g[k - 1] = NIL THEN NIL ELSE node[g[k - 1]].next
    BY <2>2, <2>3
  <2>6. IsWalk(g, n)
    BY <2>4, <2>5, Zenon DEF IsWalk
  <2> QED
    BY <2>6
<1> DEFINE T == {n \in D : ~\E f : IsWalk(f, n)}
<1>3. T = {}
  <2> SUFFICES ASSUME T # {} PROVE FALSE
    OBVIOUS
  <2>1. PICK n \in T : \A y \in T : n <= y
    BY <1>1, LeastElement
  <2>2. n # 0
    <3>1. IsWalk([k \in 0 .. 0 |-> chain.header], 0)
      BY DEF IsWalk
    <3> QED
      BY <2>1, <3>1
  <2>3. n - 1 \in D /\ ~(n <= n - 1)
    BY <1>1, <2>1, <2>2
  <2>4. \E f : IsWalk(f, n - 1)
    BY <2>1, <2>3
  <2> QED
    BY <1>2, <2>1, <2>2, <2>4
<1>4. \E f : IsWalk(f, Cardinality(Nodes))
  BY <1>1, <1>3
<1> QED
  BY <1>4, Zenon DEF IsWalk, Walk

(* Step k of a loop is the node at place k + 1.  Behind the last, where the *)
(* tail of a stack may have a stale link, others find NIL.                 *)
LEMMA WalkFollows ==
  ASSUME ChainTypeOK, NEW s \in Listings, Threads(s)
  PROVE  /\ DOMAIN Walk = 0 .. Cardinality(Nodes)
         /\ \A k \in 0 .. Cardinality(Nodes) : k < chain.size => Walk[k] = s[k + 1]
         /\ discipline # "stack" =>
              \A k \in 0 .. Cardinality(Nodes) : ~(k < chain.size) => Walk[k] = NIL
<1> DEFINE D == 0 .. Cardinality(Nodes)
           m == chain.size
           w == [k \in D |-> IF k < m THEN s[k + 1] ELSE NIL]
<1>1. Cardinality(Nodes) \in Nat /\ m \in Nat
  BY ListingSize
<1>2. /\ DOMAIN Walk = D /\ Walk[0] = chain.header
      /\ \A k \in D : k # 0 =>
           Walk[k] = IF Walk[k - 1] = NIL THEN NIL ELSE node[Walk[k - 1]].next
  <2>1. Walk = [k \in D |-> IF k = 0 THEN chain.header
                            ELSE IF Walk[k - 1] = NIL THEN NIL ELSE node[Walk[k - 1]].next]
    BY WalkExists, Zenon DEF IsWalk
  <2> QED
    BY <1>1, <2>1
<1>3. /\ \A i \in 1 .. m : s[i] # NIL /\ i \in DOMAIN s
      /\ chain.header = IF m = 0 THEN NIL ELSE s[1]
      /\ \A i \in 1 .. m : i # m => node[s[i]].next = s[i + 1]
      /\ discipline # "stack" => \A i \in 1 .. m : i = m => node[s[i]].next = NIL
  <2>1. \A i \in 1 .. m : s[i] \in Nodes /\ i \in DOMAIN s
    BY DEF Listings, ChainTypeOK
  <2> QED
    BY <2>1, ChainAssumption DEF Threads, LinkedForward
<1>4. ASSUME NEW j \in D, Walk[j] # w[j], j < m \/ discipline # "stack" PROVE FALSE
  <2> DEFINE T == {k \in D : Walk[k] # w[k]}
  <2>1. PICK k \in T : \A y \in T : k <= y
    BY <1>1, <1>4, LeastElement
  <2>2. k < m \/ discipline # "stack"
    BY <1>1, <1>4, <2>1
  <2>3. k # 0
    BY <1>1, <1>2, <1>3, <2>1
  <2>4. k - 1 \in D /\ k - 1 \notin T /\ k \in Nat /\ (k - 1) + 1 = k
    BY <1>1, <2>1, <2>3
  <2>5. Walk[k - 1] = w[k - 1] /\ Walk[k] # w[k]
    BY <2>1, <2>4
  <2>6. Walk[k] = IF w[k - 1] = NIL THEN NIL ELSE node[w[k - 1]].next
    <3> HIDE DEF w
    <3> QED
      BY <1>2, <2>1, <2>3, <2>5
  <2>7. CASE k - 1 < m
    <3>1. w[k - 1] = s[k] /\ k \in 1 .. m /\ s[k] # NIL
      BY <1>1, <1>3, <2>3, <2>4, <2>7
    <3>2. Walk[k] = node[s[k]].next
      BY <2>6, <3>1
    <3>3. CASE k < m
      BY <1>1, <1>3, <2>1, <2>5, <3>1, <3>2, <3>3
    <3>4. CASE ~(k < m)
      <4>1. k = m /\ w[k] = NIL
        BY <1>1, <2>1, <3>1, <3>4
      <4> QED
        BY <1>3, <2>2, <2>5, <3>1, <3>2, <3>4, <4>1
    <3> QED
      BY <3>3, <3>4
  <2>8. CASE ~(k - 1 < m)
    <3>1. w[k - 1] = NIL /\ w[k] = NIL
      BY <1>1, <2>1, <2>4, <2>8
    <3> QED
      BY <2>5, <2>6, <3>1
  <2> QED
    BY <2>7, <2>8
<1>5. ASSUME NEW k \in D, k < m PROVE Walk[k] = s[k + 1]
  BY <1>4, <1>5
<1>6. ASSUME NEW k \in D, ~(k < m), discipline # "stack" PROVE Walk[k] = NIL
  BY <1>4, <1>6
<1> QED
  BY <1>2, <1>5, <1>6

(* The values of a chain are those of the nodes at its places. *)
ContentsByPlace ==
  ChainTypeOK =>
    \A s \in Listings : Threads(s) => Contents = [i \in 1 .. chain.size |-> node[s[i]].val]

(* The values of the chain are those of the nodes that the loop visits, in *)
(* their order.                                                            *)
LEMMA ContentsFollow == ContentsByPlace
<1> SUFFICES ASSUME ChainTypeOK, NEW s \in Listings, Threads(s)
             PROVE  Contents = [i \in 1 .. chain.size |-> node[s[i]].val]
  BY DEF ContentsByPlace
<1>1. /\ Cardinality(Nodes) \in Nat /\ chain.size \in 0 .. Cardinality(Nodes)
      /\ DOMAIN Walk = 0 .. Cardinality(Nodes)
      /\ \A k \in 0 .. Cardinality(Nodes) : k < chain.size => Walk[k] = s[k + 1]
  BY ListingSize, WalkFollows
<1>2. ASSUME NEW i \in 1 .. chain.size
      PROVE  touchdb_chain_node_idx(i) = s[i] /\ s[i] # NIL
  <2>1. /\ i - 1 \in 0 .. Cardinality(Nodes) /\ i - 1 < chain.size /\ (i - 1) + 1 = i
        /\ i >= 1
    BY <1>1
  <2>2. touchdb_chain_node_idx(i) = s[i]
    BY <1>1, <2>1 DEF touchdb_chain_node_idx
  <2>3. s[i] \in Nodes
    BY DEF Listings, ChainTypeOK
  <2> QED
    BY <2>2, <2>3, ChainAssumption
<1> QED
  BY <1>2 DEF Contents

-----------------------------------------------------------------------------
(* The operations of AbsList on a sequence given as a function. *)

(* A function on 1 .. m is a sequence of length m. *)
LEMMA Listed ==
  ASSUME NEW V, NEW m \in Nat, NEW f \in [1 .. m -> V]
  PROVE  f \in Seq(V) /\ Len(f) = m
OBVIOUS

(* A function on 1 .. 0 is the empty sequence. *)
LEMMA NoneListed ==
  ASSUME NEW V, NEW f \in [1 .. 0 -> V]
  PROVE  f = <<>>
<1>1. f \in Seq(V) /\ Len(f) = 0
  BY Listed
<1> QED
  BY <1>1, EmptySeq

(* Append, place by place. *)
LEMMA AppendListed ==
  ASSUME NEW V, NEW m \in Nat, NEW f \in [1 .. m -> V], NEW v \in V
  PROVE  Append(f, v) = [i \in 1 .. m + 1 |-> IF i = m + 1 THEN v ELSE f[i]]
<1> DEFINE g == [i \in 1 .. m + 1 |-> IF i = m + 1 THEN v ELSE f[i]]
<1>1. f \in Seq(V) /\ Len(f) = m
  BY Listed
<1>2. /\ Append(f, v) \in Seq(V) /\ Len(Append(f, v)) = m + 1
      /\ \A i \in 1 .. m : Append(f, v)[i] = f[i]
      /\ Append(f, v)[m + 1] = v
  BY <1>1, AppendProperties
<1>3. g \in [1 .. m + 1 -> V] /\ m + 1 \in Nat
  OBVIOUS
<1>4. g \in Seq(V) /\ Len(g) = m + 1
  BY <1>3, Listed
<1>5. \A i \in 1 .. m + 1 : Append(f, v)[i] = g[i]
  <2>1. \A i \in 1 .. m + 1 : i \in 1 .. m \/ i = m + 1
    OBVIOUS
  <2>2. \A i \in 1 .. m : i # m + 1 /\ g[i] = f[i]
    OBVIOUS
  <2>3. g[m + 1] = v
    OBVIOUS
  <2> HIDE DEF g
  <2> QED
    BY <1>2, <2>1, <2>2, <2>3
<1>6. Append(f, v) = g
  <2> HIDE DEF g
  <2> QED
    BY <1>2, <1>4, <1>5, SeqEqual
<1> QED
  BY <1>6

(* A sequence without its last element, place by place. *)
LEMMA FrontListed ==
  ASSUME NEW V, NEW m \in Nat, m # 0, NEW f \in [1 .. m -> V]
  PROVE  /\ f # <<>> /\ Len(f) = m
         /\ SubSeq(f, 1, Len(f) - 1) = [i \in 1 .. m - 1 |-> f[i]]
<1>1. f \in Seq(V) /\ Len(f) = m /\ f # <<>>
  BY Listed, EmptySeq
<1> QED
  BY <1>1

(* Head and Tail, place by place. *)
LEMMA TailListed ==
  ASSUME NEW V, NEW m \in Nat, m # 0, NEW f \in [1 .. m -> V]
  PROVE  f # <<>> /\ Head(f) = f[1] /\ Tail(f) = [i \in 1 .. m - 1 |-> f[i + 1]]
<1>1. f \in Seq(V) /\ Len(f) = m /\ f # <<>>
  BY Listed, EmptySeq
<1>2. /\ Tail(f) \in Seq(V) /\ Len(Tail(f)) = m - 1
      /\ \A i \in 1 .. m - 1 : Tail(f)[i] = f[i + 1]
  BY <1>1, HeadTailProperties
<1> DEFINE g == [i \in 1 .. m - 1 |-> f[i + 1]]
<1>3. g \in [1 .. m - 1 -> V] /\ m - 1 \in Nat
  OBVIOUS
<1>4. g \in Seq(V) /\ Len(g) = m - 1
  BY <1>3, Listed
<1>5. Tail(f) = g
  BY <1>2, <1>4, SeqEqual
<1> QED
  BY <1>1, <1>5

(* A sequence with an element put behind place k, place by place. *)
LEMMA InsertListed ==
  ASSUME NEW V, NEW m \in Nat, NEW f \in [1 .. m -> V], NEW k \in 1 .. m, NEW v \in V
  PROVE  SubSeq(f, 1, k) \o <<v>> \o SubSeq(f, k + 1, Len(f)) =
           [i \in 1 .. m + 1 |-> IF i <= k THEN f[i] ELSE IF i = k + 1 THEN v ELSE f[i - 1]]
<1> DEFINE a == SubSeq(f, 1, k)
           b == SubSeq(f, k + 1, m)
           g == [i \in 1 .. m + 1 |-> IF i <= k THEN f[i] ELSE IF i = k + 1 THEN v ELSE f[i - 1]]
<1>1. /\ a \in Seq(V) /\ Len(a) = k
      /\ \A i \in 1 .. k : a[i] = f[i]
  <2>1. /\ a \in Seq(V) /\ Len(a) = IF 1 <= k THEN k - 1 + 1 ELSE 0
        /\ \A i \in 1 .. k - 1 + 1 : a[i] = f[1 + i - 1]
    BY SubSeqProperties
  <2> HIDE DEF a
  <2> QED
    BY <2>1
<1>2. /\ b \in Seq(V) /\ Len(b) = m - k
      /\ \A i \in 1 .. m - k : b[i] = f[k + i]
  <2>1. /\ b \in Seq(V) /\ Len(b) = IF k + 1 <= m THEN m - (k + 1) + 1 ELSE 0
        /\ \A i \in 1 .. m - (k + 1) + 1 : b[i] = f[(k + 1) + i - 1]
    BY SubSeqProperties
  <2> HIDE DEF b
  <2>2. m - (k + 1) + 1 = m - k /\ \A i \in 1 .. m - k : (k + 1) + i - 1 = k + i
    OBVIOUS
  <2> QED
    BY <2>1, <2>2
<1> HIDE DEF a, b
<1>3. <<v>> \in Seq(V) /\ Len(<<v>>) = 1 /\ <<v>>[1] = v
  OBVIOUS
<1> PICK c : c = a \o <<v>>
  OBVIOUS
<1>4. /\ c \in Seq(V) /\ Len(c) = k + 1
      /\ \A i \in 1 .. k + 1 : c[i] = IF i <= k THEN f[i] ELSE v
  <2>1. /\ c \in Seq(V) /\ Len(c) = k + 1
        /\ \A i \in 1 .. k + 1 : c[i] = IF i <= k THEN a[i] ELSE <<v>>[i - k]
    BY <1>1, <1>3, ConcatProperties
  <2> QED
    BY <1>1, <1>3, <2>1
<1> PICK d : d = c \o b
  OBVIOUS
<1>5. /\ d \in Seq(V) /\ Len(d) = m + 1
      /\ \A i \in 1 .. m + 1 : d[i] = IF i <= k + 1 THEN c[i] ELSE b[i - (k + 1)]
  <2>1. (k + 1) + (m - k) = m + 1
    OBVIOUS
  <2> QED
    BY <1>2, <1>4, <2>1, ConcatProperties
<1>6. ASSUME NEW i \in 1 .. m + 1 PROVE d[i] = g[i]
  <2>1. CASE i <= k + 1
    BY <1>4, <1>5, <2>1
  <2>2. CASE ~(i <= k + 1)
    <3>1. i - (k + 1) \in 1 .. m - k /\ k + (i - (k + 1)) = i - 1
      BY <2>2
    <3>2. g[i] = f[i - 1]
      BY <2>2
    <3> HIDE DEF g
    <3>3. d[i] = b[i - (k + 1)]
      BY <1>5, <2>2
    <3>4. b[i - (k + 1)] = f[i - 1]
      BY <1>2, <3>1
    <3> QED
      BY <3>2, <3>3, <3>4
  <2> QED
    BY <2>1, <2>2
<1>7. g \in [1 .. m + 1 -> V]
  OBVIOUS
<1>8. d = g
  <2> HIDE DEF g
  <2>1. g \in Seq(V) /\ Len(g) = m + 1
    BY <1>7, Listed
  <2> QED
    BY <1>5, <1>6, <2>1, SeqEqual
<1>9. Len(f) = m
  BY Listed
<1>10. SubSeq(f, 1, k) \o <<v>> \o SubSeq(f, k + 1, Len(f)) = d
  BY <1>9, Zenon DEF a, b
<1> QED
  BY <1>8, <1>10

(* g is f, of length m, without its k-th element. *)
Without(f, m, k, g) ==
  /\ m \in Nat /\ k \in 1 .. m
  /\ f \in [1 .. m -> Vals \cup {None}] /\ g \in [1 .. m - 1 -> Vals \cup {None}]
  /\ \A i \in 1 .. m - 1 : g[i] = IF i < k THEN f[i] ELSE f[i + 1]

(* A sequence without the element at place k. *)
LEMMA RemoveListed ==
  ASSUME NEW f, NEW m, NEW k, NEW g, Without(f, m, k, g)
  PROVE  g = SubSeq(f, 1, k - 1) \o SubSeq(f, k + 1, Len(f))
<1> PICK V : V = Vals \cup {None}
  OBVIOUS
<1>0. /\ m \in Nat /\ k \in 1 .. m /\ f \in [1 .. m -> V] /\ g \in [1 .. m - 1 -> V]
      /\ \A i \in 1 .. m - 1 : g[i] = IF i < k THEN f[i] ELSE f[i + 1]
  BY DEF Without
<1>00. f \in Seq(V) /\ Len(f) = m /\ g \in Seq(V) /\ m - 1 \in Nat /\ Len(g) = m - 1
  BY <1>0, Listed
<1> DEFINE a == SubSeq(f, 1, k - 1)
           b == SubSeq(f, k + 1, m)
<1>1. /\ a \in Seq(V) /\ Len(a) = k - 1
      /\ \A i \in 1 .. k - 1 : a[i] = f[i]
  <2>1. /\ a \in Seq(V) /\ Len(a) = IF 1 <= k - 1 THEN (k - 1) - 1 + 1 ELSE 0
        /\ \A i \in 1 .. (k - 1) - 1 + 1 : a[i] = f[1 + i - 1]
    BY <1>0, <1>00, SubSeqProperties
  <2> HIDE DEF a
  <2> QED
    BY <1>0, <2>1
<1>2. /\ b \in Seq(V) /\ Len(b) = m - k
      /\ \A i \in 1 .. m - k : b[i] = f[k + i]
  <2>1. /\ b \in Seq(V) /\ Len(b) = IF k + 1 <= m THEN m - (k + 1) + 1 ELSE 0
        /\ \A i \in 1 .. m - (k + 1) + 1 : b[i] = f[(k + 1) + i - 1]
    BY <1>0, <1>00, SubSeqProperties
  <2> HIDE DEF b
  <2>2. m - (k + 1) + 1 = m - k /\ \A i \in 1 .. m - k : (k + 1) + i - 1 = k + i
    BY <1>0
  <2> QED
    BY <1>0, <2>1, <2>2
<1> HIDE DEF a, b
<1> PICK d : d = a \o b
  OBVIOUS
<1>3. /\ d \in Seq(V) /\ Len(d) = m - 1
      /\ \A i \in 1 .. m - 1 : d[i] = IF i <= k - 1 THEN a[i] ELSE b[i - (k - 1)]
  <2>1. /\ d \in Seq(V) /\ Len(d) = Len(a) + Len(b)
        /\ \A i \in 1 .. Len(a) + Len(b) : d[i] = IF i <= Len(a) THEN a[i] ELSE b[i - Len(a)]
    BY <1>1, <1>2, ConcatProperties, Zenon
  <2>2. Len(a) + Len(b) = m - 1
    BY <1>0, <1>1, <1>2
  <2> QED
    BY <1>0, <1>1, <2>1, <2>2
<1>4. ASSUME NEW i \in 1 .. m - 1 PROVE d[i] = g[i]
  <2>1. CASE i < k
    BY <1>0, <1>1, <1>3, <2>1
  <2>2. CASE ~(i < k)
    <3>1. i - (k - 1) \in 1 .. m - k /\ k + (i - (k - 1)) = i + 1 /\ ~(i <= k - 1)
      BY <1>0, <2>2
    <3>2. g[i] = f[i + 1]
      BY <1>0, <2>2
    <3>3. d[i] = b[i - (k - 1)]
      BY <1>0, <1>3, <3>1
    <3>4. b[i - (k - 1)] = f[i + 1]
      BY <1>0, <1>2, <3>1
    <3> QED
      BY <3>2, <3>3, <3>4
  <2> QED
    BY <2>1, <2>2
<1>5. d = g
  BY <1>00, <1>3, <1>4, SeqEqual
<1>6. SubSeq(f, 1, k - 1) \o SubSeq(f, k + 1, Len(f)) = d
  BY <1>00, Zenon DEF a, b
<1> QED
  BY <1>5, <1>6

-----------------------------------------------------------------------------
(* One lemma for each call.  Each gives the sequence that is threaded       *)
(* afterwards.                                                             *)

Cells == [prev : Nodes \cup {NIL}, next : Nodes \cup {NIL}, val : Vals \cup {None}]

Heads == [header : Nodes \cup {NIL}, tail : Nodes \cup {NIL}, size : 0 .. Cardinality(Nodes)]

(* What the links of a chain that threads s say of each node of s. *)
LEMMA ThreadsFacts ==
  ASSUME ChainTypeOK, NEW s \in Listings, Threads(s)
  PROVE  /\ Cardinality(Nodes) \in Nat /\ chain.size \in 0 .. Cardinality(Nodes)
         /\ s \in [1 .. chain.size -> alloc] /\ alloc \subseteq Nodes /\ NIL \notin Nodes
         /\ \A i, j \in 1 .. chain.size : s[i] = s[j] => i = j
         /\ chain.size = 0 => chain.header = NIL /\ chain.tail = NIL
         /\ chain.size # 0 => chain.header = s[1] /\ chain.tail = s[chain.size]
         /\ \A i \in 1 .. chain.size : i # 1 => node[s[i]].prev = s[i - 1]
         /\ \A i \in 1 .. chain.size : i # chain.size => node[s[i]].next = s[i + 1]
         /\ discipline # "stack" =>
              \A i \in 1 .. chain.size :
                node[s[i]].next = IF i = chain.size THEN NIL ELSE s[i + 1]
<1>1. s \in [1 .. chain.size -> alloc] /\ \A i, j \in DOMAIN s : s[i] = s[j] => i = j
  BY DEF Listings
<1> QED
  BY <1>1, ListingSize, ChainAssumption
     DEF Threads, LinkedForward, LinkedBackward, ChainTypeOK

(* What makes t, of l nodes, the sequence after a step. *)
ThreadedBy(t, l) ==
  /\ chain'.size = l
  /\ t \in [1 .. l -> alloc'] /\ \A i, j \in 1 .. l : t[i] = t[j] => i = j
  /\ chain'.header = IF l = 0 THEN NIL ELSE t[1]
  /\ chain'.tail = IF l = 0 THEN NIL ELSE t[l]
  /\ \A i \in 1 .. l : i # 1 => node'[t[i]].prev = t[i - 1]
  /\ \A i \in 1 .. l : i # l => node'[t[i]].next = t[i + 1]
  /\ discipline' # "stack" =>
       \A i \in 1 .. l : node'[t[i]].next = IF i = l THEN NIL ELSE t[i + 1]
  /\ discipline' # "queue" /\ l # 0 => node'[t[1]].prev = NIL
  /\ discipline' = "queue" => alloc' = {t[i] : i \in 1 .. l}

(* The values after that step. *)
ListedBy(t, l) == Contents' = [i \in 1 .. l |-> node'[t[i]].val]

(* When the links after a call thread t, the chain is threaded, and its    *)
(* values are those of t.                                                  *)
LEMMA ThreadsAfter ==
  ASSUME ChainTypeOK', NEW t, NEW l \in Nat, ThreadedBy(t, l)
  PROVE  Threaded' /\ ListedBy(t, l)
<1> USE DEF ThreadedBy
<1>1. DOMAIN t = 1 .. l
  OBVIOUS
<1>2. t \in Listings'
  BY <1>1, Zenon DEF Listings
<1>3. LinkedBackward(t)'
  BY <1>1, Zenon DEF LinkedBackward
<1>4. discipline' # "stack" => LinkedForward(t)'
  BY <1>1, Zenon DEF LinkedForward
<1>5. Threads(t)'
  BY <1>1, <1>2, <1>3, <1>4, Zenon DEF Threads
<1>6. Threaded'
  BY <1>2, <1>5, Zenon DEF Threaded
<1>7. ContentsByPlace'
  BY ContentsFollow, PTL
<1>8. Contents' = [i \in 1 .. chain'.size |-> node'[t[i]].val]
  BY <1>2, <1>5, <1>7, Zenon DEF ContentsByPlace
<1> QED
  BY <1>6, <1>8 DEF ListedBy

(* The values of the sequence s. *)
LEMMA ContentsBefore ==
  ASSUME ChainTypeOK, NEW s \in Listings, Threads(s)
  PROVE  /\ Contents = [i \in 1 .. chain.size |-> node[s[i]].val]
         /\ Contents \in [1 .. chain.size -> Vals \cup {None}]
<1>1. Contents = [i \in 1 .. chain.size |-> node[s[i]].val]
  BY ContentsFollow DEF ContentsByPlace
<1>2. \A i \in 1 .. chain.size : node[s[i]].val \in Vals \cup {None}
  BY DEF Listings, ChainTypeOK
<1> QED
  BY <1>1, <1>2

(* A call that writes no node leaves the values. *)
LEMMA ContentsUnchanged ==
  ASSUME UNCHANGED <<chain, node>>
  PROVE  Contents' = Contents
<1>1. chain' = chain /\ node' = node
  OBVIOUS
<1> QED
  BY <1>1 DEF Contents, touchdb_chain_node_idx, Walk

(* touchdb_chain_push_tail appends the value. *)
LEMMA PushTail ==
  ASSUME ChainTypeOK, NEW s \in Listings, Threads(s), NEW v \in Vals,
         touchdb_chain_push_tail(v), UNCHANGED discipline
  PROVE  ChainTypeOK' /\ Threaded' /\ UNCHANGED <<gone, fault>> /\ Abs!PushTail(v)
<1> DEFINE m == chain.size
<1>1. /\ Cardinality(Nodes) \in Nat /\ m \in 0 .. Cardinality(Nodes)
      /\ s \in [1 .. m -> alloc] /\ alloc \subseteq Nodes /\ NIL \notin Nodes
      /\ \A i, j \in 1 .. m : s[i] = s[j] => i = j
      /\ m = 0 => chain.header = NIL /\ chain.tail = NIL
      /\ m # 0 => chain.header = s[1] /\ chain.tail = s[m]
  BY ThreadsFacts
<1>2. PICK n \in Nodes \ alloc :
        /\ node' = linked_after(n, chain.tail, v)
        /\ chain' = [header |-> IF chain.size = 0 THEN n ELSE chain.header,
                     tail   |-> n,
                     size   |-> chain.size + 1]
        /\ alloc' = alloc \cup {n}
        /\ UNCHANGED <<ret, gone, fault>>
  BY DEF touchdb_chain_push_tail
<1> PICK t : t = [i \in 1 .. m + 1 |-> IF i = m + 1 THEN n ELSE s[i]]
  OBVIOUS
<1>3. m \in Nat /\ m + 1 \in Nat /\ m + 1 \in 0 .. Cardinality(Nodes)
  BY <1>1, <1>2, ListingSize
<1>4. /\ node'[n].prev = chain.tail /\ node'[n].next = NIL
      /\ \A x \in Nodes \ {n} :
           /\ node'[x].prev = node[x].prev
           /\ node'[x].next = IF m # 0 /\ x = chain.tail THEN n ELSE node[x].next
           /\ node'[x].val = node[x].val
      /\ node'[n].val = v
  BY <1>2 DEF linked_after, touchdb_chain_node_new, ChainTypeOK
<1>5. /\ \A i \in 1 .. m : s[i] # n /\ s[i] \in Nodes /\ (m # 0 /\ s[i] = chain.tail <=> i = m)
      /\ \A i \in 1 .. m : t[i] = s[i]
      /\ t[m + 1] = n
      /\ \A i \in 1 .. m + 1 : i \in 1 .. m \/ i = m + 1
  <2>1. \A i \in 1 .. m + 1 : i \in 1 .. m \/ i = m + 1
    BY <1>3
  <2>2. \A i \in 1 .. m : i # m + 1 /\ i \in 1 .. m + 1
    BY <1>3
  <2>3. m + 1 \in 1 .. m + 1
    BY <1>3
  <2>4. \A i \in 1 .. m : s[i] \in alloc
    <3>1. s \in [1 .. m -> alloc]
      BY <1>1, Zenon
    <3> QED
      BY <3>1
  <2>5. \A i \in 1 .. m : s[i] # n /\ s[i] \in Nodes
    BY <1>1, <1>2, <2>4, Zenon
  <2>6. \A i \in 1 .. m : m # 0 /\ s[i] = chain.tail <=> i = m
    BY <1>1, <1>3
  <2> QED
    BY <2>1, <2>2, <2>3, <2>5, <2>6
<1>6. t \in [1 .. m + 1 -> alloc'] /\ \A i, j \in 1 .. m + 1 : t[i] = t[j] => i = j
  <2>1. t \in [1 .. m + 1 -> alloc']
    BY <1>1, <1>2, <1>3
  <2> QED
    BY <1>1, <1>5, <2>1
<1>7. \A i \in 1 .. m + 1 : i # 1 => node'[t[i]].prev = t[i - 1]
  <2>1. \A i \in 1 .. m : i # 1 => node'[s[i]].prev = s[i - 1]
    BY <1>4, <1>5, ThreadsFacts
  <2>2. m + 1 # 1 => node'[n].prev = t[m]
    BY <1>1, <1>3, <1>4, <1>5
  <2> QED
    BY <1>3, <1>5, <2>1, <2>2
<1>8. \A i \in 1 .. m + 1 : node'[t[i]].next = IF i = m + 1 THEN NIL ELSE t[i + 1]
  <2>1. \A i \in 1 .. m : i # m => node[s[i]].next = s[i + 1] /\ i + 1 \in 1 .. m
    BY <1>3, ThreadsFacts
  <2>2. \A i \in 1 .. m : node'[s[i]].next = t[i + 1]
    BY <1>3, <1>4, <1>5, <2>1
  <2> QED
    BY <1>3, <1>4, <1>5, <2>2
<1>9. discipline # "queue" => node'[t[1]].prev = NIL
  BY <1>1, <1>3, <1>4, <1>5 DEF Threads
<1>10. discipline = "queue" => alloc' = {t[i] : i \in 1 .. m + 1}
  BY <1>1, <1>2, <1>3 DEF Threads
<1>11. /\ chain'.size = m + 1 /\ m + 1 # 0 /\ discipline' = discipline
       /\ chain'.header = IF m + 1 = 0 THEN NIL ELSE t[1]
       /\ chain'.tail = IF m + 1 = 0 THEN NIL ELSE t[m + 1]
  BY <1>1, <1>2, <1>3, <1>5
<1>12. ThreadedBy(t, m + 1)
  BY <1>6, <1>7, <1>8, <1>9, <1>10, <1>11, Zenon DEF ThreadedBy
<1>13. ChainTypeOK'
  <2>1. chain' \in Heads
    BY <1>1, <1>2, <1>3 DEF Heads, ChainTypeOK
  <2>2. node' \in [Nodes -> Cells]
    <3> DEFINE new == [prev |-> chain.tail, next |-> NIL, val |-> v]
               nodes == touchdb_chain_node_new(n, NIL, chain.tail, v)
    <3>1. new \in Cells /\ node \in [Nodes -> Cells]
      BY DEF Cells, ChainTypeOK
    <3>2. nodes \in [Nodes -> Cells]
      BY <3>1 DEF touchdb_chain_node_new
    <3>3. CASE m = 0
      BY <1>2, <3>2, <3>3 DEF linked_after
    <3>4. CASE m # 0
      <4>1. node' = [nodes EXCEPT ![chain.tail] = [nodes[chain.tail] EXCEPT !.next = n]]
        BY <1>2, <3>4 DEF linked_after
      <4>2. chain.tail \in Nodes /\ nodes[chain.tail] \in Cells
        BY <1>1, <1>3, <3>2, <3>4
      <4> HIDE DEF nodes
      <4>3. [nodes[chain.tail] EXCEPT !.next = n] \in Cells
        BY <4>2, Zenon DEF Cells
      <4> QED
        BY <3>2, <4>1, <4>3
    <3> QED
      BY <3>3, <3>4
  <2> QED
    BY <1>2, <2>1, <2>2 DEF ChainTypeOK, Heads, Cells
<1>14. Threaded' /\ ListedBy(t, m + 1)
  BY <1>3, <1>12, <1>13, ThreadsAfter
<1>15. Contents' = Append(Contents, v)
  <2> PICK c : c = Contents
    OBVIOUS
  <2>1. c = [i \in 1 .. m |-> node[s[i]].val] /\ c \in [1 .. m -> Vals \cup {None}]
    BY ContentsBefore
  <2>2. Append(c, v) = [i \in 1 .. m + 1 |-> IF i = m + 1 THEN v ELSE c[i]]
    BY <1>3, <2>1, AppendListed
  <2>3. \A i \in 1 .. m + 1 : node'[t[i]].val = IF i = m + 1 THEN v ELSE c[i]
    BY <1>4, <1>5, <2>1
  <2> QED
    BY <1>14, <2>2, <2>3 DEF ListedBy
<1> QED
  BY <1>2, <1>13, <1>14, <1>15 DEF Abs!PushTail

(* A call that writes no node leaves the links. *)
LEMMA ThreadedUnchanged ==
  ASSUME UNCHANGED <<chain, node, alloc, discipline>>
  PROVE  Threaded' <=> Threaded
<1>1. chain' = chain /\ node' = node /\ alloc' = alloc /\ discipline' = discipline
  OBVIOUS
<1>2. Listings' = Listings
  BY <1>1 DEF Listings
<1>3. ASSUME NEW s PROVE Threads(s)' <=> Threads(s)
  BY <1>1, <1>2 DEF Threads, LinkedForward, LinkedBackward
<1> QED
  BY <1>2, <1>3 DEF Threaded

(* touchdb_chain_pull_head takes the first value, or returns nothing. *)
LEMMA PullHead ==
  ASSUME ChainTypeOK, NEW s \in Listings, Threads(s), discipline = "queue",
         touchdb_chain_pull_head, ~fault, UNCHANGED discipline
  PROVE  /\ ChainTypeOK' /\ Threaded' /\ fault' = FALSE /\ UNCHANGED gone
         /\ Abs!PullHead \/ Abs!PullNothing
<1> DEFINE m == chain.size
           next == IF m = 1 THEN NIL ELSE s[2]
<1>1. /\ Cardinality(Nodes) \in Nat /\ m \in 0 .. Cardinality(Nodes)
      /\ s \in [1 .. m -> alloc] /\ alloc \subseteq Nodes /\ NIL \notin Nodes
      /\ \A i, j \in 1 .. m : s[i] = s[j] => i = j
      /\ m = 0 => chain.header = NIL /\ chain.tail = NIL
      /\ m # 0 => chain.header = s[1] /\ chain.tail = s[m]
      /\ \A i \in 1 .. m : i # 1 => node[s[i]].prev = s[i - 1]
      /\ \A i \in 1 .. m : node[s[i]].next = IF i = m THEN NIL ELSE s[i + 1]
  BY ThreadsFacts
<1>2. CASE m = 0
  <2>1. ret' = None /\ UNCHANGED <<chain, node, alloc, gone, fault, discipline>>
    BY <1>1, <1>2 DEF touchdb_chain_pull_head, pull
  <2>2. Threaded'
    BY <2>1, ThreadedUnchanged, Zenon DEF Threaded
  <2>3. ChainTypeOK'
    BY <2>1 DEF ChainTypeOK
  <2>4. Abs!PullNothing
    <3>1. Contents = <<>>
      BY <1>2, ContentsBefore, NoneListed
    <3>2. Contents' = Contents
      BY <2>1, ContentsUnchanged
    <3> QED
      BY <2>1, <3>1, <3>2 DEF Abs!PullNothing
  <2> QED
    BY <2>1, <2>2, <2>3, <2>4
<1>3. CASE m # 0
  <2> PICK t : t = [i \in 1 .. m - 1 |-> s[i + 1]]
    OBVIOUS
  <2>0. chain.header = s[1] /\ s[1] \in alloc /\ s[1] \in Nodes /\ s[1] # NIL
    BY <1>1, <1>3
  <2>1. /\ chain' = without_header(node[s[1]].next) /\ ret' = node[s[1]].val
        /\ alloc' = alloc \ {s[1]} /\ fault' = FALSE /\ UNCHANGED <<node, gone>>
    BY <2>0 DEF touchdb_chain_pull_head, pull
  <2>2. m \in Nat /\ m - 1 \in Nat /\ 1 \in 1 .. m /\ node[s[1]].next = next /\ next \in Nodes \cup {NIL}
    BY <1>1, <1>3
  <2>3. chain' = [header |-> next, tail |-> IF next = NIL THEN NIL ELSE chain.tail, size |-> m - 1]
    BY <2>1, <2>2 DEF without_header
  <2>4. /\ \A i \in 1 .. m - 1 : t[i] = s[i + 1] /\ i + 1 \in 1 .. m /\ i + 1 # 1
        /\ \A i \in 1 .. m - 1 : i # 1 => t[i - 1] = s[i]
        /\ \A i \in 1 .. m - 1 : i # m - 1 => i + 1 # m /\ t[i + 1] = s[(i + 1) + 1]
        /\ m # 1 => t[m - 1] = s[m] /\ t[1] = s[2]
    BY <2>2
  <2>45. \A i \in 1 .. m - 1 : t[i] # s[1] /\ t[i] \in alloc
    BY <1>1, <2>2, <2>4
  <2>5. ThreadedBy(t, m - 1)
    <3>1. chain'.size = m - 1
      BY <2>3
    <3>2. t \in [1 .. m - 1 -> alloc'] /\ \A i, j \in 1 .. m - 1 : t[i] = t[j] => i = j
      <4>1. t \in [1 .. m - 1 -> alloc']
        BY <2>1, <2>45
      <4>2. ASSUME NEW i \in 1 .. m - 1, NEW j \in 1 .. m - 1, t[i] = t[j] PROVE i = j
        <5>1. i + 1 = j + 1
          BY <1>1, <2>4, <4>2
        <5> QED
          BY <2>2, <5>1
      <4> QED
        BY <4>1, <4>2
    <3>3. /\ chain'.header = IF m - 1 = 0 THEN NIL ELSE t[1]
          /\ chain'.tail = IF m - 1 = 0 THEN NIL ELSE t[m - 1]
      <4>1. m # 1 => next # NIL /\ m - 1 # 0
        BY <1>1, <1>3, <2>2
      <4> QED
        BY <1>1, <1>3, <2>2, <2>3, <2>4, <4>1
    <3>4. ASSUME NEW i \in 1 .. m - 1
          PROVE  /\ i # 1 => node'[t[i]].prev = t[i - 1]
                 /\ node'[t[i]].next = IF i = m - 1 THEN NIL ELSE t[i + 1]
      <4>1. /\ i + 1 \in 1 .. m /\ i + 1 # 1 /\ (i + 1) - 1 = i /\ node' = node
            /\ i + 1 = m <=> i = m - 1
        BY <2>1, <2>2
      <4>2. node[s[i + 1]].prev = s[i]
        BY <1>1, <4>1
      <4>3. node[s[i + 1]].next = IF i + 1 = m THEN NIL ELSE s[(i + 1) + 1]
        BY <1>1, <4>1
      <4> QED
        BY <2>4, <4>1, <4>2, <4>3
    <3>5. alloc' = {t[i] : i \in 1 .. m - 1}
      <4>1. alloc = {s[i] : i \in 1 .. m}
        BY DEF Threads
      <4>2. ASSUME NEW x \in alloc' PROVE \E i \in 1 .. m - 1 : x = t[i]
        <5>1. PICK i \in 1 .. m : x = s[i] /\ i # 1
          BY <2>1, <4>1, <4>2
        <5>2. i - 1 \in 1 .. m - 1 /\ t[i - 1] = s[i]
          BY <2>2, <5>1
        <5> QED
          BY <5>1, <5>2
      <4>3. \A i \in 1 .. m - 1 : t[i] \in alloc'
        BY <2>1, <2>45
      <4> QED
        BY <4>2, <4>3
    <3>6. \A i \in 1 .. m - 1 : i # m - 1 => node'[t[i]].next = t[i + 1]
      BY <3>4
    <3>7. discipline' = "queue"
      OBVIOUS
    <3> QED
      BY <3>1, <3>2, <3>3, <3>4, <3>5, <3>6, <3>7, Zenon DEF ThreadedBy
  <2>6. ChainTypeOK'
    <3>1. m - 1 \in 0 .. Cardinality(Nodes)
      BY <1>1, <2>2
    <3>2. chain' \in Heads
      BY <2>2, <2>3, <3>1 DEF ChainTypeOK, Heads
    <3>3. ret' \in Vals \cup {None}
      BY <2>0, <2>1 DEF ChainTypeOK
    <3> QED
      BY <2>1, <3>2, <3>3 DEF ChainTypeOK, Heads
  <2>7. Threaded' /\ ListedBy(t, m - 1)
    BY <2>2, <2>5, <2>6, ThreadsAfter
  <2>8. Abs!PullHead
    <3> PICK c : c = Contents
      OBVIOUS
    <3>1. c = [i \in 1 .. m |-> node[s[i]].val] /\ c \in [1 .. m -> Vals \cup {None}]
      BY ContentsBefore
    <3>2. c # <<>> /\ Head(c) = c[1] /\ Tail(c) = [i \in 1 .. m - 1 |-> c[i + 1]]
      BY <1>3, <2>2, <3>1, TailListed
    <3>3. \A i \in 1 .. m - 1 : node'[t[i]].val = c[i + 1]
      BY <2>1, <2>4, <3>1
    <3>4. ret' = c[1]
      BY <2>1, <2>2, <3>1
    <3> QED
      BY <2>7, <3>2, <3>3, <3>4 DEF ListedBy, Abs!PullHead
  <2> QED
    BY <2>1, <2>6, <2>7, <2>8
<1> QED
  BY <1>2, <1>3

(* touchdb_chain_pull_tail, on a chain filled by push_head, takes the last *)
(* value, or returns nothing.                                              *)
LEMMA PullTail ==
  ASSUME ChainTypeOK, NEW s \in Listings, Threads(s), discipline = "stack",
         touchdb_chain_pull_tail, ~fault, UNCHANGED discipline
  PROVE  /\ ChainTypeOK' /\ Threaded' /\ fault' = FALSE /\ UNCHANGED gone
         /\ Abs!PullTail \/ Abs!PullNothing
<1> DEFINE m == chain.size
           prev == IF m = 1 THEN NIL ELSE s[m - 1]
<1>1. /\ Cardinality(Nodes) \in Nat /\ m \in 0 .. Cardinality(Nodes)
      /\ s \in [1 .. m -> alloc] /\ alloc \subseteq Nodes /\ NIL \notin Nodes
      /\ \A i, j \in 1 .. m : s[i] = s[j] => i = j
      /\ m = 0 => chain.header = NIL /\ chain.tail = NIL
      /\ m # 0 => chain.header = s[1] /\ chain.tail = s[m] /\ node[s[1]].prev = NIL
      /\ \A i \in 1 .. m : i # 1 => node[s[i]].prev = s[i - 1]
      /\ \A i \in 1 .. m : i # m => node[s[i]].next = s[i + 1]
  BY ThreadsFacts DEF Threads
<1>2. CASE m = 0
  <2>1. ret' = None /\ UNCHANGED <<chain, node, alloc, gone, fault, discipline>>
    BY <1>1, <1>2 DEF touchdb_chain_pull_tail, pull
  <2>2. Threaded'
    BY <2>1, ThreadedUnchanged, Zenon DEF Threaded
  <2>3. ChainTypeOK'
    BY <2>1 DEF ChainTypeOK
  <2>4. Abs!PullNothing
    <3>1. Contents = <<>>
      BY <1>2, ContentsBefore, NoneListed
    <3>2. Contents' = Contents
      BY <2>1, ContentsUnchanged
    <3> QED
      BY <2>1, <3>1, <3>2 DEF Abs!PullNothing
  <2> QED
    BY <2>1, <2>2, <2>3, <2>4
<1>3. CASE m # 0
  <2> PICK t : t = [i \in 1 .. m - 1 |-> s[i]]
    OBVIOUS
  <2>0. chain.tail = s[m] /\ s[m] \in alloc /\ s[m] \in Nodes /\ s[m] # NIL
    BY <1>1, <1>3
  <2>1. /\ chain' = without_tail(node[s[m]].prev) /\ ret' = node[s[m]].val
        /\ alloc' = alloc \ {s[m]} /\ fault' = FALSE /\ UNCHANGED <<node, gone>>
    BY <2>0 DEF touchdb_chain_pull_tail, pull
  <2>2. /\ m \in Nat /\ m - 1 \in Nat /\ m \in 1 .. m
        /\ node[s[m]].prev = prev /\ prev \in Nodes \cup {NIL}
    BY <1>1, <1>3
  <2>3. chain' = [header |-> IF prev = NIL THEN NIL ELSE chain.header, tail |-> prev, size |-> m - 1]
    BY <2>1, <2>2 DEF without_tail
  <2>4. \A i \in 1 .. m - 1 : t[i] = s[i] /\ i \in 1 .. m /\ t[i] # s[m] /\ t[i] \in alloc
    <3>1. \A i \in 1 .. m - 1 : t[i] = s[i] /\ i \in 1 .. m /\ i # m
      BY <2>2
    <3>2. s \in [1 .. m -> alloc] /\ \A i, j \in 1 .. m : s[i] = s[j] => i = j
      BY <1>1, Zenon
    <3> QED
      BY <2>2, <3>1, <3>2
  <2>5. ThreadedBy(t, m - 1)
    <3>1. chain'.size = m - 1 /\ discipline' = "stack"
      BY <2>3
    <3>2. t \in [1 .. m - 1 -> alloc'] /\ \A i, j \in 1 .. m - 1 : t[i] = t[j] => i = j
      BY <1>1, <2>1, <2>2, <2>4
    <3>3. /\ chain'.header = IF m - 1 = 0 THEN NIL ELSE t[1]
          /\ chain'.tail = IF m - 1 = 0 THEN NIL ELSE t[m - 1]
      BY <1>1, <1>3, <2>2, <2>3, <2>4
    <3>4. \A i \in 1 .. m - 1 : i # 1 => node'[t[i]].prev = t[i - 1]
      BY <1>1, <2>1, <2>2, <2>4
    <3>5. m - 1 # 0 => node'[t[1]].prev = NIL
      BY <1>1, <1>3, <2>1, <2>2, <2>4
    <3>6. \A i \in 1 .. m - 1 : i # m - 1 => node'[t[i]].next = t[i + 1]
      <4>1. \A i \in 1 .. m - 1 : i # m - 1 => i # m /\ t[i + 1] = s[i + 1]
        BY <2>2, <2>4
      <4> QED
        BY <1>1, <2>1, <2>4, <4>1
    <3> QED
      BY <3>1, <3>2, <3>3, <3>4, <3>5, <3>6, Zenon DEF ThreadedBy
  <2>6. ChainTypeOK'
    <3>1. m - 1 \in 0 .. Cardinality(Nodes)
      BY <1>1, <2>2
    <3>2. chain' \in Heads
      BY <2>2, <2>3, <3>1 DEF ChainTypeOK, Heads
    <3>3. ret' \in Vals \cup {None}
      BY <2>0, <2>1 DEF ChainTypeOK
    <3> QED
      BY <2>1, <3>2, <3>3 DEF ChainTypeOK, Heads
  <2>7. Threaded' /\ ListedBy(t, m - 1)
    BY <2>2, <2>5, <2>6, ThreadsAfter
  <2>8. Abs!PullTail
    <3> PICK c : c = Contents
      OBVIOUS
    <3>1. c = [i \in 1 .. m |-> node[s[i]].val] /\ c \in [1 .. m -> Vals \cup {None}]
      BY ContentsBefore
    <3>2. c # <<>> /\ Len(c) = m /\ SubSeq(c, 1, Len(c) - 1) = [i \in 1 .. m - 1 |-> c[i]]
      BY <1>3, <2>2, <3>1, FrontListed
    <3>3. \A i \in 1 .. m - 1 : node'[t[i]].val = c[i]
      BY <2>1, <2>4, <3>1
    <3>4. ret' = c[m]
      BY <2>1, <2>2, <3>1
    <3> QED
      BY <2>7, <3>2, <3>3, <3>4 DEF ListedBy, Abs!PullTail, Abs!Front, Abs!Last
  <2> QED
    BY <2>1, <2>6, <2>7, <2>8
<1> QED
  BY <1>2, <1>3

(* In an edited list the nodes a caller can know are the places of s. *)
LEMMA WalkedPlaces ==
  ASSUME ChainTypeOK, NEW s \in Listings, Threads(s), discipline # "stack"
  PROVE  /\ WalkEnds
         /\ Walked = {s[i] : i \in 1 .. chain.size}
         /\ Walked \subseteq alloc
<1> DEFINE m == chain.size
<1>1. /\ Cardinality(Nodes) \in Nat /\ m \in 0 .. Cardinality(Nodes)
      /\ s \in [1 .. m -> alloc] /\ alloc \subseteq Nodes /\ NIL \notin Nodes
  BY ThreadsFacts
<1>2. /\ DOMAIN Walk = 0 .. Cardinality(Nodes)
      /\ \A k \in 0 .. Cardinality(Nodes) : k < m => Walk[k] = s[k + 1]
      /\ \A k \in 0 .. Cardinality(Nodes) : ~(k < m) => Walk[k] = NIL
  BY WalkFollows
<1>3. /\ DOMAIN Walk = 0 .. Cardinality(Nodes)
      /\ \A k \in 0 .. Cardinality(Nodes) : Walk[k] = IF k < m THEN s[k + 1] ELSE NIL
  BY <1>2, WalkFollows
<1>4. WalkEnds
  <2>1. m \in DOMAIN Walk /\ ~(m < m)
    BY <1>1, <1>3
  <2> QED
    BY <1>1, <1>3, <2>1 DEF WalkEnds
<1>5. ASSUME NEW x \in Walked PROVE x \in {s[i] : i \in 1 .. m}
  <2>1. PICK k \in DOMAIN Walk : x = Walk[k] /\ x # NIL
    BY <1>5 DEF Walked
  <2>2. k < m /\ x = s[k + 1] /\ k + 1 \in 1 .. m
    BY <1>1, <1>3, <2>1
  <2> QED
    BY <2>2
<1>6. ASSUME NEW i \in 1 .. m PROVE s[i] \in Walked
  <2>1. i - 1 \in 0 .. Cardinality(Nodes) /\ i - 1 < m /\ (i - 1) + 1 = i
    BY <1>1
  <2>2. i - 1 \in DOMAIN Walk /\ Walk[i - 1] = s[i] /\ s[i] # NIL
    BY <1>1, <1>3, <2>1
  <2> QED
    BY <2>2 DEF Walked
<1>7. Walked = {s[i] : i \in 1 .. m}
  BY <1>5, <1>6
<1> QED
  BY <1>1, <1>4, <1>7

(* The place behind one that is not the last. *)
LEMMA NextPlace ==
  ASSUME NEW m \in Nat, NEW i \in 1 .. m + 1, i # m + 1
  PROVE  i + 1 \in 1 .. m + 1
OBVIOUS

(* touchdb_chain_insert puts the value behind the node it is given. *)
LEMMA Insert ==
  ASSUME ChainTypeOK, NEW s \in Listings, Threads(s), discipline = "edit",
         NEW n \in Reached \ {chain.tail}, NEW v \in Vals,
         touchdb_chain_insert(n, v), ~fault, UNCHANGED discipline
  PROVE  /\ ChainTypeOK' /\ Threaded' /\ fault' = FALSE /\ UNCHANGED gone
         /\ \E i \in DOMAIN Contents : Abs!InsertAfter(i, v)
<1> DEFINE m == chain.size
<1>1. /\ Cardinality(Nodes) \in Nat /\ m \in 0 .. Cardinality(Nodes)
      /\ s \in [1 .. m -> alloc] /\ alloc \subseteq Nodes /\ NIL \notin Nodes
      /\ \A i, j \in 1 .. m : s[i] = s[j] => i = j
      /\ m # 0 => chain.header = s[1] /\ chain.tail = s[m] /\ node[s[1]].prev = NIL
      /\ \A i \in 1 .. m : i # 1 => node[s[i]].prev = s[i - 1]
      /\ \A i \in 1 .. m : node[s[i]].next = IF i = m THEN NIL ELSE s[i + 1]
  BY ThreadsFacts DEF Threads
<1>2. PICK k \in 1 .. m : n = s[k]
  BY WalkedPlaces DEF Reached
<1>3. /\ m \in Nat /\ k \in Nat /\ k + 1 \in 1 .. m /\ m # 0
      /\ node[n].next = s[k + 1] /\ s[k + 1] # NIL
      /\ n \in Nodes /\ s[k + 1] \in Nodes /\ s[k + 1] # n
  BY <1>1, <1>2
<1>4. PICK new \in Nodes \ alloc :
        /\ node' = inserted(new, n, v)
        /\ alloc' = alloc \cup {new}
        /\ chain' = [chain EXCEPT !.size = @ + 1]
        /\ UNCHANGED <<ret, gone, fault>>
  BY <1>3 DEF touchdb_chain_insert
<1> PICK t : t = [x \in 1 .. m + 1 |-> IF x <= k THEN s[x]
                                      ELSE IF x = k + 1 THEN new ELSE s[x - 1]]
  OBVIOUS
<1>5. /\ node'[new].prev = n /\ node'[new].next = s[k + 1]
      /\ \A x \in Nodes \ {new} :
           /\ node'[x].prev = IF x = s[k + 1] THEN new ELSE node[x].prev
           /\ node'[x].next = IF x = n THEN new ELSE node[x].next
           /\ node'[x].val = node[x].val
      /\ node'[new].val = v
  <2> DEFINE nodes == touchdb_chain_node_new(new, s[k + 1], n, v)
  <2>1. /\ nodes[new] = [prev |-> n, next |-> s[k + 1], val |-> v]
        /\ \A x \in Nodes \ {new} : nodes[x] = node[x]
        /\ DOMAIN nodes = Nodes
    BY <1>4 DEF touchdb_chain_node_new, ChainTypeOK
  <2>2. node' = [nodes EXCEPT ![s[k + 1]].prev = new, ![n].next = new]
    BY <1>3, <1>4 DEF inserted
  <2>3. new # n /\ new # s[k + 1] /\ new \in Nodes
    BY <1>1, <1>2, <1>3, <1>4
  <2> HIDE DEF nodes
  <2>4. /\ node'[new] = nodes[new]
        /\ \A x \in Nodes \ {new} :
             /\ node'[x].prev = IF x = s[k + 1] THEN new ELSE nodes[x].prev
             /\ node'[x].next = IF x = n THEN new ELSE nodes[x].next
             /\ node'[x].val = nodes[x].val
    BY <1>3, <2>1, <2>2, <2>3 DEF ChainTypeOK
  <2> QED
    BY <2>1, <2>4
<1>6. /\ m + 1 \in Nat /\ m + 1 \in 0 .. Cardinality(Nodes)
      /\ chain' = [header |-> chain.header, tail |-> chain.tail, size |-> m + 1]
  BY <1>1, <1>4, ListingSize DEF ChainTypeOK
<1>7. /\ \A i \in 1 .. m : s[i] \in Nodes /\ s[i] # new
      /\ \A i \in 1 .. m + 1 : i < k + 1 => t[i] = s[i] /\ i \in 1 .. m
      /\ t[k + 1] = new
      /\ \A i \in 1 .. m + 1 : i > k + 1 => t[i] = s[i - 1] /\ i - 1 \in 1 .. m /\ i - 1 > k
      /\ \A i \in 1 .. m + 1 : i < k + 1 \/ i = k + 1 \/ i > k + 1
  BY <1>1, <1>3, <1>4
<1>8. t \in [1 .. m + 1 -> alloc'] /\ \A i, j \in 1 .. m + 1 : t[i] = t[j] => i = j
  <2>1. t \in [1 .. m + 1 -> alloc']
    BY <1>1, <1>3, <1>4, <1>7
  <2>2. ASSUME NEW i \in 1 .. m + 1, NEW j \in 1 .. m + 1, t[i] = t[j] PROVE i = j
    <3>1. i < k + 1 /\ j > k + 1 => FALSE
      BY <1>1, <1>3, <1>7, <2>2
    <3>2. j < k + 1 /\ i > k + 1 => FALSE
      BY <1>1, <1>3, <1>7, <2>2
    <3> QED
      BY <1>1, <1>3, <1>7, <2>2, <3>1, <3>2
  <2> QED
    BY <2>1, <2>2
<1>9. t[1] = s[1] /\ t[m + 1] = s[m] /\ node'[t[1]].prev = NIL
  <2>1. 1 \in 1 .. m /\ 1 \in 1 .. m + 1 /\ 1 < k + 1 /\ m + 1 \in 1 .. m + 1 /\ m + 1 > k + 1
    BY <1>2, <1>3
  <2>2. t[1] = s[1] /\ t[m + 1] = s[m]
    BY <1>3, <1>7, <2>1
  <2>3. s[1] # s[k + 1] /\ s[1] \in Nodes \ {new}
    BY <1>1, <1>3, <1>7, <2>1
  <2> QED
    BY <1>1, <1>3, <1>5, <2>2, <2>3
<1>10. ASSUME NEW i \in 1 .. m + 1, i # 1 PROVE node'[t[i]].prev = t[i - 1]
  <2>1. CASE i < k + 1
    <3>1. /\ i \in 1 .. m /\ t[i] = s[i] /\ t[i - 1] = s[i - 1] /\ s[i] # s[k + 1]
          /\ s[i] \in Nodes \ {new}
      BY <1>1, <1>3, <1>7, <1>10, <2>1
    <3>2. node[s[i]].prev = s[i - 1]
      BY <1>1, <1>10, <3>1
    <3> QED
      BY <1>5, <3>1, <3>2
  <2>2. CASE i = k + 1
    BY <1>2, <1>3, <1>5, <1>7, <2>2
  <2>3. CASE i > k + 1
    <3>1. t[i] = s[i - 1] /\ i - 1 \in 1 .. m /\ i - 1 > k /\ s[i - 1] \in Nodes \ {new}
      BY <1>7, <2>3
    <3>2. CASE i - 1 = k + 1
      BY <1>3, <1>5, <1>7, <3>1, <3>2
    <3>3. CASE i - 1 # k + 1
      <4>1. i - 1 > k + 1 /\ i - 1 # 1 /\ i - 1 \in 1 .. m + 1 /\ s[i - 1] # s[k + 1]
        BY <1>1, <1>3, <3>1, <3>3
      <4>2. node[s[i - 1]].prev = s[(i - 1) - 1]
        BY <1>1, <3>1, <4>1
      <4>3. t[i - 1] = s[(i - 1) - 1]
        BY <1>7, <4>1
      <4> QED
        BY <1>5, <3>1, <4>1, <4>2, <4>3
    <3> QED
      BY <3>2, <3>3
  <2> QED
    BY <1>7, <2>1, <2>2, <2>3
<1>11. ASSUME NEW i \in 1 .. m + 1
       PROVE  node'[t[i]].next = IF i = m + 1 THEN NIL ELSE t[i + 1]
  <2>1. CASE i < k + 1
    <3>1. /\ i \in 1 .. m /\ t[i] = s[i] /\ s[i] \in Nodes \ {new} /\ i # m + 1 /\ i # m
          /\ i + 1 \in 1 .. m + 1 /\ node[s[i]].next = s[i + 1]
      BY <1>1, <1>3, <1>7, <2>1
    <3>2. CASE i = k
      BY <1>2, <1>5, <1>7, <3>1, <3>2
    <3>3. CASE i # k
      <4>1. i + 1 < k + 1 /\ s[i] # n
        BY <1>1, <1>2, <1>3, <2>1, <3>1, <3>3
      <4> QED
        BY <1>5, <1>7, <3>1, <4>1
    <3> QED
      BY <3>2, <3>3
  <2>2. CASE i = k + 1
    <3>1. i # m + 1 /\ i + 1 \in 1 .. m + 1 /\ i + 1 > k + 1 /\ (i + 1) - 1 = k + 1
      BY <1>3, <2>2
    <3> QED
      BY <1>5, <1>7, <2>2, <3>1
  <2>3. CASE i > k + 1
    <3>1. t[i] = s[i - 1] /\ i - 1 \in 1 .. m /\ i - 1 > k /\ s[i - 1] \in Nodes \ {new}
      BY <1>7, <2>3
    <3>2. s[i - 1] # n /\ (i - 1 = m <=> i = m + 1) /\ (i - 1) + 1 = i
      BY <1>1, <1>2, <1>3, <3>1
    <3>3. node[s[i - 1]].next = IF i - 1 = m THEN NIL ELSE s[(i - 1) + 1]
      BY <1>1, <3>1
    <3>4. ASSUME i # m + 1
          PROVE  i + 1 \in 1 .. m + 1 /\ i + 1 > k + 1 /\ (i + 1) - 1 = i
      <4>1. m \in Nat /\ k \in Nat
        BY <1>3
      <4>2. i + 1 > k + 1 /\ (i + 1) - 1 = i
        BY <2>3, <4>1
      <4>3. i + 1 \in 1 .. m + 1
        BY <3>4, <4>1, NextPlace, Zenon
      <4> QED
        BY <4>2, <4>3
    <3> QED
      BY <1>5, <1>7, <3>1, <3>2, <3>3, <3>4
  <2> QED
    BY <1>7, <2>1, <2>2, <2>3
<1>12. /\ chain'.size = m + 1 /\ m + 1 # 0 /\ discipline' = "edit"
       /\ chain'.header = IF m + 1 = 0 THEN NIL ELSE t[1]
       /\ chain'.tail = IF m + 1 = 0 THEN NIL ELSE t[m + 1]
  BY <1>1, <1>3, <1>6, <1>9
<1>13. ThreadedBy(t, m + 1)
  BY <1>8, <1>9, <1>10, <1>11, <1>12, Zenon DEF ThreadedBy
<1>14. ChainTypeOK'
  <2>1. chain' \in Heads
    BY <1>6 DEF Heads, ChainTypeOK
  <2>2. node' \in [Nodes -> Cells]
    <3> DEFINE nodes == touchdb_chain_node_new(new, s[k + 1], n, v)
               back == [nodes EXCEPT ![s[k + 1]] = [nodes[s[k + 1]] EXCEPT !.prev = new]]
    <3>1. nodes \in [Nodes -> Cells]
      <4>1. [prev |-> n, next |-> s[k + 1], val |-> v] \in Cells /\ node \in [Nodes -> Cells]
        BY <1>3 DEF Cells, ChainTypeOK
      <4> QED
        BY <4>1 DEF touchdb_chain_node_new
    <3>2. node' = [back EXCEPT ![n] = [back[n] EXCEPT !.next = new]]
      BY <1>3, <1>4 DEF inserted
    <3>3. back \in [Nodes -> Cells]
      <4>1. nodes[s[k + 1]] \in Cells
        BY <1>3, <3>1
      <4> HIDE DEF nodes
      <4>2. [nodes[s[k + 1]] EXCEPT !.prev = new] \in Cells
        BY <4>1, Zenon DEF Cells
      <4> QED
        BY <3>1, <4>2
    <3> HIDE DEF back
    <3>4. back[n] \in Cells
      BY <1>3, <3>3
    <3>5. [back[n] EXCEPT !.next = new] \in Cells
      BY <3>4, Zenon DEF Cells
    <3> QED
      BY <3>2, <3>3, <3>5
  <2> QED
    BY <1>1, <1>4, <2>1, <2>2 DEF ChainTypeOK, Heads, Cells
<1>15. Threaded' /\ ListedBy(t, m + 1)
  BY <1>6, <1>13, <1>14, ThreadsAfter
<1>16. k \in DOMAIN Contents /\ Abs!InsertAfter(k, v)
  <2> PICK c : c = Contents
    OBVIOUS
  <2>1. c = [i \in 1 .. m |-> node[s[i]].val] /\ c \in [1 .. m -> Vals \cup {None}]
    BY ContentsBefore
  <2>2. SubSeq(c, 1, k) \o <<v>> \o SubSeq(c, k + 1, Len(c)) =
          [i \in 1 .. m + 1 |-> IF i <= k THEN c[i] ELSE IF i = k + 1 THEN v ELSE c[i - 1]]
    BY <1>3, <2>1, InsertListed
  <2>3. ASSUME NEW i \in 1 .. m + 1
        PROVE  node'[t[i]].val = IF i <= k THEN c[i] ELSE IF i = k + 1 THEN v ELSE c[i - 1]
    <3>1. CASE i < k + 1
      BY <1>3, <1>5, <1>7, <2>1, <3>1
    <3>2. CASE i = k + 1
      BY <1>3, <1>5, <1>7, <3>2
    <3>3. CASE i > k + 1
      <4>1. t[i] = s[i - 1] /\ i - 1 \in 1 .. m /\ ~(i <= k) /\ i # k + 1
        BY <1>3, <1>7, <3>3
      <4> QED
        BY <1>5, <1>7, <2>1, <4>1
    <3> QED
      BY <1>7, <3>1, <3>2, <3>3
  <2>4. Contents' = SubSeq(c, 1, k) \o <<v>> \o SubSeq(c, k + 1, Len(c))
    BY <1>15, <2>2, <2>3, Zenon DEF ListedBy
  <2>5. Abs!InsertAt(c, k + 1, v) = SubSeq(c, 1, k) \o <<v>> \o SubSeq(c, k + 1, Len(c))
    <3>1. (k + 1) - 1 = k
      BY <1>3
    <3>2. Abs!InsertAt(c, k + 1, v) =
            SubSeq(c, 1, (k + 1) - 1) \o <<v>> \o SubSeq(c, k + 1, Len(c))
      BY DEF Abs!InsertAt
    <3> QED
      BY <3>1, <3>2
  <2> QED
    BY <1>4, <2>1, <2>4, <2>5 DEF Abs!InsertAfter
<1>17. fault' = FALSE
  BY <1>4 DEF ChainTypeOK
<1> QED
  BY <1>4, <1>14, <1>15, <1>16, <1>17

(* touchdb_chain_del takes the first node with the value out of the chain, *)
(* or does nothing.                                                        *)
LEMMA Del ==
  ASSUME ChainTypeOK, NEW s \in Listings, Threads(s), discipline = "edit",
         NEW v \in Vals, touchdb_chain_del(v), ~fault, UNCHANGED discipline
  PROVE  /\ ChainTypeOK' /\ Threaded' /\ fault' = FALSE /\ UNCHANGED gone
         /\ (\E i \in DOMAIN Contents : Abs!Delete(i)) \/ UNCHANGED <<Contents, ret>>
<1> DEFINE m == chain.size
<1>1. /\ Cardinality(Nodes) \in Nat /\ m \in 0 .. Cardinality(Nodes)
      /\ s \in [1 .. m -> alloc] /\ alloc \subseteq Nodes /\ NIL \notin Nodes
      /\ \A i, j \in 1 .. m : s[i] = s[j] => i = j
      /\ m # 0 => chain.header = s[1] /\ chain.tail = s[m] /\ node[s[1]].prev = NIL
      /\ \A i \in 1 .. m : i # 1 => node[s[i]].prev = s[i - 1]
      /\ \A i \in 1 .. m : node[s[i]].next = IF i = m THEN NIL ELSE s[i + 1]
  BY ThreadsFacts DEF Threads
<1>2. CASE UNCHANGED memVars
  <2>1. UNCHANGED <<chain, node, alloc, ret, gone, fault, discipline>>
    BY <1>2 DEF memVars
  <2>2. Threaded'
    BY <2>1, ThreadedUnchanged, Zenon DEF Threaded
  <2>3. ChainTypeOK'
    BY <2>1 DEF ChainTypeOK
  <2>4. Contents' = Contents
    BY <2>1, ContentsUnchanged
  <2> QED
    BY <2>1, <2>2, <2>3, <2>4
<1>3. CASE ~UNCHANGED memVars
  <2>1. PICK n \in Walked \cup {NIL} :
          IF n = NIL THEN UNCHANGED memVars
          ELSE /\ node' = unlinked(n)
               /\ chain' = [header |-> IF n = chain.header THEN node[n].next ELSE chain.header,
                            tail   |-> IF n = chain.tail THEN node[n].prev ELSE chain.tail,
                            size   |-> chain.size - 1]
               /\ fault' = (node[n].prev \notin alloc \cup {NIL})
               /\ UNCHANGED <<alloc, ret, gone>>
    BY DEF touchdb_chain_del, touchdb_chain_node
  <2>2. PICK k \in 1 .. m : n = s[k]
    BY <1>3, <2>1, WalkedPlaces
  <2> PICK p : p = IF k = 1 THEN NIL ELSE s[k - 1]
    OBVIOUS
  <2> PICK q : q = IF k = m THEN NIL ELSE s[k + 1]
    OBVIOUS
  <2> PICK t : t = [i \in 1 .. m - 1 |-> IF i < k THEN s[i] ELSE s[i + 1]]
    OBVIOUS
  <2>3. /\ m \in Nat /\ k \in Nat /\ m - 1 \in Nat /\ k >= 1 /\ k <= m /\ m # 0
        /\ node[n].prev = p /\ node[n].next = q /\ n # NIL /\ n \in Nodes
        /\ p \in alloc \cup {NIL} /\ q \in alloc \cup {NIL}
    <3>1. m \in Nat /\ k \in Nat /\ m - 1 \in Nat /\ k >= 1 /\ k <= m /\ m # 0
      BY <1>1, <2>2
    <3>2. node[n].prev = p /\ node[n].next = q /\ n # NIL /\ n \in Nodes
      BY <1>1, <2>2, <3>1
    <3>3. k # 1 => s[k - 1] \in alloc
      BY <1>1, <3>1
    <3>4. k # m => s[k + 1] \in alloc
      BY <1>1, <3>1
    <3> QED
      BY <3>1, <3>2, <3>3, <3>4
  <2>4. /\ fault' = FALSE /\ UNCHANGED <<alloc, ret, gone>> /\ node' = unlinked(n)
        /\ chain' = [header |-> IF n = chain.header THEN q ELSE chain.header,
                     tail   |-> IF n = chain.tail THEN p ELSE chain.tail,
                     size   |-> m - 1]
    BY <2>1, <2>3
  <2>5. \A x \in Nodes : /\ node'[x].next = IF x = p THEN q ELSE node[x].next
                         /\ node'[x].prev = IF x = q THEN p ELSE node[x].prev
                         /\ node'[x].val = node[x].val
    <3>1. node' = [x \in Nodes |-> [node[x] EXCEPT !.next = IF x = p THEN q ELSE @,
                                                  !.prev = IF x = q THEN p ELSE @]]
      BY <2>3, <2>4, Zenon DEF unlinked
    <3>2. \A x \in Nodes : node[x] \in Cells
      BY DEF ChainTypeOK, Cells
    <3>3. ASSUME NEW x \in Nodes
          PROVE  node'[x] = [node[x] EXCEPT !.next = IF x = p THEN q ELSE @,
                                            !.prev = IF x = q THEN p ELSE @]
      BY <3>1, Zenon
    <3>4. ASSUME NEW x \in Nodes
          PROVE  /\ node'[x].next = IF x = p THEN q ELSE node[x].next
                 /\ node'[x].prev = IF x = q THEN p ELSE node[x].prev
                 /\ node'[x].val = node[x].val
      <4>1. node[x] \in [prev : Nodes \cup {NIL}, next : Nodes \cup {NIL}, val : Vals \cup {None}]
        BY <3>2, Zenon DEF Cells
      <4> PICK a : a = IF x = p THEN q ELSE node[x].next
        OBVIOUS
      <4> PICK b : b = IF x = q THEN p ELSE node[x].prev
        OBVIOUS
      <4>2. node'[x] = [node[x] EXCEPT !.next = a, !.prev = b]
        BY <3>3, Zenon
      <4>3. node'[x].next = a /\ node'[x].prev = b /\ node'[x].val = node[x].val
        BY <4>1, <4>2
      <4> QED
        BY <4>3
    <3> QED
      BY <3>4, Zenon
  <2>6. /\ \A i \in 1 .. m : s[i] \in Nodes /\ s[i] \in alloc /\ s[i] # NIL
        /\ \A i \in 1 .. m : (s[i] = q <=> k # m /\ i = k + 1)
        /\ \A i \in 1 .. m : (s[i] = p <=> k # 1 /\ i = k - 1)
    <3>1. \A i \in 1 .. m : s[i] \in Nodes /\ s[i] \in alloc /\ s[i] # NIL
      <4>1. s \in [1 .. m -> alloc] /\ alloc \subseteq Nodes /\ NIL \notin Nodes
        BY <1>1, Zenon
      <4> QED
        BY <4>1
    <3>2. k # m => k + 1 \in 1 .. m
      BY <2>3
    <3>3. k # 1 => k - 1 \in 1 .. m
      BY <2>3
    <3> QED
      BY <1>1, <3>1, <3>2, <3>3
  <2>7. /\ \A i \in 1 .. m - 1 : i < k => t[i] = s[i] /\ i \in 1 .. m
        /\ \A i \in 1 .. m - 1 : i >= k => t[i] = s[i + 1] /\ i + 1 \in 1 .. m
        /\ \A i \in 1 .. m - 1 : i \in Nat /\ (i < k \/ i >= k)
    BY <2>3
  <2>8. t \in [1 .. m - 1 -> alloc'] /\ \A i, j \in 1 .. m - 1 : t[i] = t[j] => i = j
    <3>1. \A i \in 1 .. m - 1 : t[i] \in alloc
      BY <2>6, <2>7
    <3>2. t \in [1 .. m - 1 -> alloc']
      BY <2>4, <3>1
    <3>3. ASSUME NEW i \in 1 .. m - 1, NEW j \in 1 .. m - 1, t[i] = t[j] PROVE i = j
      <4>0. \A x, y \in 1 .. m : s[x] = s[y] => x = y
        BY <1>1
      <4>1. CASE i < k /\ j < k
        <5>1. s[i] = s[j] /\ i \in 1 .. m /\ j \in 1 .. m
          BY ONLY <2>7, <3>3, <4>1
        <5> QED
          BY ONLY <4>0, <5>1
      <4>2. CASE i < k /\ j >= k
        <5>1. s[i] = s[j + 1] /\ i \in 1 .. m /\ j + 1 \in 1 .. m
          BY ONLY <2>7, <3>3, <4>2
        <5>2. i = j + 1
          BY ONLY <4>0, <5>1
        <5> QED
          BY ONLY <2>3, <2>7, <3>3, <4>2, <5>2
      <4>3. CASE i >= k /\ j < k
        <5>1. s[j] = s[i + 1] /\ j \in 1 .. m /\ i + 1 \in 1 .. m
          BY ONLY <2>7, <3>3, <4>3
        <5>2. j = i + 1
          BY ONLY <4>0, <5>1
        <5> QED
          BY ONLY <2>3, <2>7, <3>3, <4>3, <5>2
      <4>4. CASE i >= k /\ j >= k
        <5>1. s[i + 1] = s[j + 1] /\ i + 1 \in 1 .. m /\ j + 1 \in 1 .. m
          BY ONLY <2>7, <3>3, <4>4
        <5>2. i + 1 = j + 1
          BY ONLY <4>0, <5>1
        <5> QED
          BY ONLY <2>7, <3>3, <5>2
      <4> QED
        BY <2>7, <4>1, <4>2, <4>3, <4>4
    <3> QED
      BY <3>2, <3>3
  <2>9. ASSUME NEW i \in 1 .. m - 1, i # 1 PROVE node'[t[i]].prev = t[i - 1]
    <3>1. i \in Nat /\ i - 1 \in 1 .. m - 1 /\ i \in 1 .. m /\ i + 1 \in 1 .. m /\ (i + 1) - 1 = i
          /\ (i - 1) + 1 = i /\ i + 1 # 1
      BY <2>3, <2>9
    <3>2. CASE i < k
      <4>1. t[i] = s[i] /\ t[i - 1] = s[i - 1] /\ s[i] # q /\ s[i] \in Nodes
        <5>1. i # k + 1 /\ i - 1 < k
          BY <2>3, <3>1, <3>2
        <5>2. t[i] = s[i] /\ t[i - 1] = s[i - 1]
          BY <2>7, <3>1, <3>2, <5>1
        <5>3. s[i] # q /\ s[i] \in Nodes
          BY <2>6, <3>1, <5>1
        <5> QED
          BY <5>2, <5>3
      <4>2. node[s[i]].prev = s[i - 1]
        BY <1>1, <2>9, <3>1
      <4> QED
        BY <2>5, <4>1, <4>2
    <3>3. CASE i = k
      <4>1. t[i] = s[k + 1] /\ k # m /\ k # 1 /\ s[k + 1] = q /\ s[k + 1] \in Nodes
        BY <2>3, <2>6, <2>7, <2>9, <3>1, <3>3
      <4>2. t[i - 1] = s[k - 1] /\ s[k - 1] = p
        BY <2>3, <2>7, <2>9, <3>1, <3>3
      <4> QED
        BY <2>5, <4>1, <4>2
    <3>4. CASE i > k
      <4>1. t[i] = s[i + 1] /\ t[i - 1] = s[i] /\ s[i + 1] # q /\ s[i + 1] \in Nodes
        <5>1. i >= k /\ i - 1 >= k /\ i + 1 # k + 1
          BY <2>3, <3>1, <3>4
        <5>2. t[i] = s[i + 1]
          BY <2>7, <5>1
        <5>3. t[i - 1] = s[(i - 1) + 1]
          BY <2>7, <3>1, <5>1
        <5>4. s[i + 1] # q /\ s[i + 1] \in Nodes
          BY <2>6, <3>1, <5>1
        <5> QED
          BY <3>1, <5>2, <5>3, <5>4
      <4>2. node[s[i + 1]].prev = s[i]
        BY <1>1, <3>1
      <4> QED
        BY <2>5, <4>1, <4>2
    <3> QED
      BY <2>3, <3>1, <3>2, <3>3, <3>4
  <2>10. ASSUME NEW i \in 1 .. m - 1
         PROVE  node'[t[i]].next = IF i = m - 1 THEN NIL ELSE t[i + 1]
    <3>1. i \in Nat /\ i \in 1 .. m /\ i + 1 \in 1 .. m /\ i # m /\ (i + 1 = m <=> i = m - 1)
          /\ (i # m - 1 => i + 1 \in 1 .. m - 1)
      BY <2>3
    <3>2. CASE i + 1 < k
      <4>1. t[i] = s[i] /\ t[i + 1] = s[i + 1] /\ s[i] # p /\ s[i] \in Nodes /\ i # m - 1
        BY <2>3, <2>6, <2>7, <3>1, <3>2
      <4>2. node[s[i]].next = s[i + 1]
        BY <1>1, <3>1
      <4> QED
        BY <2>5, <4>1, <4>2
    <3>3. CASE i + 1 = k
      <4>1. t[i] = s[i] /\ s[i] = p /\ s[i] \in Nodes
        BY <2>3, <2>6, <2>7, <3>1, <3>3
      <4>2. q = IF i = m - 1 THEN NIL ELSE t[i + 1]
        BY <2>3, <2>7, <3>1, <3>3
      <4> QED
        BY <2>5, <4>1, <4>2
    <3>4. CASE i >= k
      <4>1. t[i] = s[i + 1] /\ s[i + 1] # p /\ s[i + 1] \in Nodes
            /\ (i # m - 1 => t[i + 1] = s[(i + 1) + 1])
        BY <2>3, <2>6, <2>7, <3>1, <3>4
      <4>2. node[s[i + 1]].next = IF i + 1 = m THEN NIL ELSE s[(i + 1) + 1]
        BY <1>1, <3>1
      <4> QED
        BY <2>5, <3>1, <4>1, <4>2
    <3> QED
      BY <2>3, <3>1, <3>2, <3>3, <3>4
  <2>11. /\ (n = chain.header <=> k = 1) /\ (n = chain.tail <=> k = m)
         /\ (m - 1 # 0 => 1 \in 1 .. m - 1 /\ m - 1 \in 1 .. m - 1)
    BY <1>1, <2>2, <2>3
  <2>12. m - 1 # 0 => node'[t[1]].prev = NIL
    <3>1. CASE m - 1 # 0 /\ k = 1
      <4>1. t[1] = q /\ q \in Nodes /\ p = NIL
        BY <2>3, <2>6, <2>7, <2>11, <3>1
      <4> QED
        BY <2>5, <4>1
    <3>2. CASE m - 1 # 0 /\ k # 1
      <4>1. t[1] = s[1] /\ s[1] # q /\ s[1] \in Nodes
        BY <2>3, <2>6, <2>7, <2>11, <3>2
      <4> QED
        BY <1>1, <2>3, <2>5, <4>1
    <3> QED
      BY <3>1, <3>2
  <2>13. /\ chain'.header = IF m - 1 = 0 THEN NIL ELSE t[1]
         /\ chain'.tail = IF m - 1 = 0 THEN NIL ELSE t[m - 1]
    <3>1. chain'.header = IF k = 1 THEN q ELSE s[1]
      BY <1>1, <2>3, <2>4, <2>11
    <3>2. chain'.tail = IF k = m THEN p ELSE s[m]
      BY <1>1, <2>3, <2>4, <2>11
    <3>3. CASE m - 1 = 0
      BY <2>3, <3>1, <3>2, <3>3
    <3>4. CASE m - 1 # 0
      <4>1. t[1] = IF k = 1 THEN s[2] ELSE s[1]
        BY <2>3, <2>7, <2>11, <3>4
      <4>2. k = m => t[m - 1] = s[m - 1]
        BY <2>3, <2>7, <2>11, <3>4
      <4>3. k # m => t[m - 1] = s[m]
        BY <2>3, <2>7, <2>11, <3>4
      <4> QED
        BY <2>3, <3>1, <3>2, <3>4, <4>1, <4>2, <4>3
    <3> QED
      BY <3>3, <3>4
  <2>14. ThreadedBy(t, m - 1)
    <3>1. chain'.size = m - 1 /\ discipline' = "edit"
      BY <2>4
    <3> QED
      BY <2>8, <2>9, <2>10, <2>12, <2>13, <3>1, Zenon DEF ThreadedBy
  <2>15. ChainTypeOK'
    <3>1. chain' \in Heads
      <4>1. m - 1 \in 0 .. Cardinality(Nodes)
        BY <1>1, <2>3
      <4> QED
        BY <1>1, <2>3, <2>4, <4>1 DEF Heads, ChainTypeOK
    <3>2. node' \in [Nodes -> Cells]
      <4> DEFINE cut(x) == [node[x] EXCEPT !.next = IF x = p THEN q ELSE @,
                                          !.prev = IF x = q THEN p ELSE @]
      <4>1. node' = [x \in Nodes |-> cut(x)]
        BY <2>3, <2>4 DEF unlinked
      <4>2. ASSUME NEW x \in Nodes PROVE cut(x) \in Cells
        <5>1. node[x] \in Cells /\ p \in Nodes \cup {NIL} /\ q \in Nodes \cup {NIL}
          BY <1>1, <2>3 DEF Cells, ChainTypeOK
        <5> QED
          BY <5>1 DEF Cells
      <4> HIDE DEF cut
      <4> QED
        BY <4>1, <4>2
    <3> QED
      BY <2>4, <3>1, <3>2 DEF ChainTypeOK, Heads, Cells
  <2>16. Threaded' /\ ListedBy(t, m - 1)
    BY <2>3, <2>14, <2>15, ThreadsAfter
  <2>17. k \in DOMAIN Contents /\ Abs!Delete(k)
    <3> PICK c : c = Contents
      OBVIOUS
    <3>1. c = [i \in 1 .. m |-> node[s[i]].val] /\ c \in [1 .. m -> Vals \cup {None}]
      BY ContentsBefore
    <3>2. ASSUME NEW i \in 1 .. m - 1
          PROVE  node'[t[i]].val = IF i < k THEN c[i] ELSE c[i + 1]
      <4>1. CASE i < k
        <5>1. t[i] = s[i] /\ i \in 1 .. m /\ s[i] \in Nodes
          BY <2>6, <2>7, <4>1
        <5> QED
          BY <2>5, <3>1, <4>1, <5>1
      <4>2. CASE i >= k
        <5>1. t[i] = s[i + 1] /\ i + 1 \in 1 .. m /\ s[i + 1] \in Nodes /\ ~(i < k)
          BY <2>3, <2>6, <2>7, <4>2
        <5> QED
          BY <2>5, <3>1, <4>2, <5>1
      <4> QED
        BY <2>7, <4>1, <4>2
    <3> PICK d : d = [i \in 1 .. m - 1 |-> node'[t[i]].val]
      OBVIOUS
    <3>3. /\ d \in [1 .. m - 1 -> Vals \cup {None}]
          /\ \A i \in 1 .. m - 1 : d[i] = IF i < k THEN c[i] ELSE c[i + 1]
      BY <3>2, <2>15, <2>8, <2>4 DEF ChainTypeOK
    <3>4. d = SubSeq(c, 1, k - 1) \o SubSeq(c, k + 1, Len(c))
      <4>1. Without(c, m, k, d)
        BY <2>3, <3>1, <3>3 DEF Without
      <4> QED
        BY <4>1, RemoveListed
    <3>5. Contents' = Abs!RemoveAt(c, k)
      BY <2>16, <3>4, Zenon DEF Abs!RemoveAt, ListedBy
    <3> QED
      BY <2>4, <3>1, <3>5 DEF Abs!Delete
  <2> QED
    BY <2>4, <2>15, <2>16, <2>17
<1> QED
  BY <1>2, <1>3

(* touchdb_chain_destory frees every node of a chain that is a queue. *)
LEMMA Destory ==
  ASSUME ChainTypeOK, NEW s \in Listings, Threads(s), discipline # "stack",
         touchdb_chain_destory, UNCHANGED discipline
  PROVE  /\ ChainTypeOK' /\ gone' = TRUE /\ fault' = FALSE
         /\ discipline = "queue" => alloc' = {}
         /\ UNCHANGED <<Contents, ret>>
<1>1. WalkEnds /\ Walked = {s[i] : i \in 1 .. chain.size} /\ Walked \subseteq alloc
  BY WalkedPlaces
<1>2. /\ alloc' = alloc \ Walked /\ gone' = TRUE /\ fault' = FALSE
      /\ UNCHANGED <<chain, node, ret>>
  BY <1>1 DEF touchdb_chain_destory
<1>3. discipline = "queue" => alloc' = {}
  BY <1>1, <1>2 DEF Threads
<1>4. ChainTypeOK'
  BY <1>2 DEF ChainTypeOK
<1>5. Contents' = Contents
  BY <1>2, ContentsUnchanged
<1> QED
  BY <1>2, <1>3, <1>4, <1>5

-----------------------------------------------------------------------------
(* The invariant. *)

(* A new chain satisfies the invariant. *)
LEMMA InitChainInv ==
  ASSUME ChainInit({"queue", "stack", "edit"})
  PROVE  ChainInv
<1>1. Cardinality(Nodes) \in Nat
  BY ChainAssumption, FS_CardinalityType
<1>2. ChainTypeOK
  <2>1. chain \in Heads /\ node \in [Nodes -> Cells]
    BY <1>1 DEF ChainInit, Heads, Cells
  <2>2. ret \in Vals \cup {None} /\ gone = FALSE /\ fault = FALSE /\ alloc = {}
    BY DEF ChainInit
  <2> QED
    BY <2>1, <2>2 DEF ChainTypeOK, Heads, Cells
<1> PICK s : s = [i \in 1 .. 0 |-> NIL]
  OBVIOUS
<1>3. chain.size = 0 /\ chain.header = NIL /\ chain.tail = NIL /\ alloc = {}
  BY DEF ChainInit
<1>4. s \in Listings /\ DOMAIN s = {}
  BY <1>3 DEF Listings
<1>5. Threads(s)
  BY <1>3, <1>4 DEF Threads, LinkedForward, LinkedBackward
<1> QED
  BY <1>2, <1>4, <1>5 DEF ChainInit, ChainInv, Threaded

(* What a step shows of the list the chain stands for. *)
ListStep == [Abs!Next]_<<Contents, ret, discipline>>

(* Every call keeps the invariant, and does to the values what AbsList     *)
(* says.                                                                   *)
LEMMA NextChainInv ==
  ASSUME ChainInv, [ChainNext]_chainVars
  PROVE  ChainInv' /\ ListStep
<1>1. ChainTypeOK /\ ~fault /\ discipline \in {"queue", "stack", "edit"}
  BY DEF ChainInv
<1>2. CASE UNCHANGED chainVars
  <2>1. UNCHANGED <<chain, node, alloc, ret, gone, fault, discipline>>
    BY <1>2 DEF chainVars, memVars
  <2>2. Threaded' <=> Threaded
    BY <2>1, ThreadedUnchanged
  <2>3. ChainTypeOK'
    BY <1>1, <2>1 DEF ChainTypeOK
  <2>4. Contents' = Contents
    BY <2>1, ContentsUnchanged
  <2> QED
    BY <2>1, <2>2, <2>3, <2>4 DEF ChainInv, ListStep
<1>3. CASE ChainNext
  <2>1. ~gone /\ UNCHANGED discipline
    BY <1>3 DEF ChainNext, QueueNext, StackNext, EditNext, Use
  <2>2. PICK s \in Listings : Threads(s)
    BY <2>1 DEF ChainInv, Threaded
  <2>3. ASSUME ChainTypeOK', Threaded', fault' = FALSE, gone' = gone PROVE ChainInv'
    BY <1>1, <2>1, <2>3 DEF ChainInv
  <2>4. ASSUME ChainTypeOK', gone' = TRUE, fault' = FALSE, discipline # "stack",
               discipline = "queue" => alloc' = {}
        PROVE  ChainInv'
    BY <1>1, <2>1, <2>4 DEF ChainInv
  <2>5. ASSUME NEW v \in Vals, touchdb_chain_push_tail(v) PROVE ChainInv' /\ ListStep
    <3>1. ChainTypeOK' /\ Threaded' /\ gone' = gone /\ fault' = fault /\ Abs!PushTail(v)
      BY <1>1, <2>1, <2>2, <2>5, PushTail
    <3>2. fault = FALSE
      BY <1>1 DEF ChainTypeOK
    <3>3. ListStep
      BY <2>1, <3>1, Zenon DEF ListStep, Abs!Next
    <3> QED
      BY <2>3, <3>1, <3>2, <3>3
  <2>6. ASSUME discipline = "queue", touchdb_chain_pull_head PROVE ChainInv' /\ ListStep
    <3>1. /\ ChainTypeOK' /\ Threaded' /\ fault' = FALSE /\ gone' = gone
          /\ Abs!PullHead \/ Abs!PullNothing
      BY <1>1, <2>1, <2>2, <2>6, PullHead
    <3>2. ListStep
      BY <2>1, <2>6, <3>1, Zenon DEF ListStep, Abs!Next, Abs!QueueNext
    <3> QED
      BY <2>3, <3>1, <3>2
  <2>7. ASSUME discipline # "stack", touchdb_chain_destory PROVE ChainInv' /\ ListStep
    <3>1. /\ ChainTypeOK' /\ gone' = TRUE /\ fault' = FALSE
          /\ discipline = "queue" => alloc' = {}
          /\ UNCHANGED <<Contents, ret>>
      BY <1>1, <2>1, <2>2, <2>7, Destory
    <3> QED
      BY <2>1, <2>4, <2>7, <3>1 DEF ListStep
  <2>8. ASSUME discipline = "stack", touchdb_chain_pull_tail PROVE ChainInv' /\ ListStep
    <3>1. /\ ChainTypeOK' /\ Threaded' /\ fault' = FALSE /\ gone' = gone
          /\ Abs!PullTail \/ Abs!PullNothing
      BY <1>1, <2>1, <2>2, <2>8, PullTail
    <3>2. ListStep
      BY <2>1, <2>8, <3>1, Zenon DEF ListStep, Abs!Next, Abs!StackNext
    <3> QED
      BY <2>3, <3>1, <3>2
  <2>9. ASSUME discipline = "edit", NEW n \in Reached \ {chain.tail}, NEW v \in Vals,
               touchdb_chain_insert(n, v)
        PROVE  ChainInv' /\ ListStep
    <3>1. /\ ChainTypeOK' /\ Threaded' /\ fault' = FALSE /\ gone' = gone
          /\ \E i \in DOMAIN Contents : Abs!InsertAfter(i, v)
      BY <1>1, <2>1, <2>2, <2>9, Insert
    <3>2. ListStep
      BY <2>1, <2>9, <3>1, Zenon DEF ListStep, Abs!Next, Abs!EditNext
    <3> QED
      BY <2>3, <3>1, <3>2
  <2>10. ASSUME discipline = "edit", NEW v \in Vals, touchdb_chain_del(v) PROVE ChainInv' /\ ListStep
    <3>1. /\ ChainTypeOK' /\ Threaded' /\ fault' = FALSE /\ gone' = gone
          /\ (\E i \in DOMAIN Contents : Abs!Delete(i)) \/ UNCHANGED <<Contents, ret>>
      BY <1>1, <2>1, <2>2, <2>10, Del
    <3>2. ListStep
      BY <2>1, <2>10, <3>1, Zenon DEF ListStep, Abs!Next, Abs!EditNext
    <3> QED
      BY <2>3, <3>1, <3>2
  <2>11. CASE QueueNext
    BY <2>5, <2>6, <2>7, <2>11 DEF QueueNext, Use
  <2>12. CASE StackNext
    BY <2>5, <2>8, <2>12 DEF StackNext, Use
  <2>13. CASE EditNext
    BY <2>5, <2>7, <2>9, <2>10, <2>13 DEF EditNext, Use
  <2> QED
    BY <1>3, <2>11, <2>12, <2>13 DEF ChainNext
<1> QED
  BY <1>2, <1>3

(* The links of a chain used in one of its disciplines thread a sequence of *)
(* different allocated nodes, all those of a queue, until it is destroyed.  *)
THEOREM ChainInvariant == ChainSpec => []ChainInv
<1>1. ChainInit({"queue", "stack", "edit"}) => ChainInv
  BY InitChainInv
<1>2. ChainInv /\ [ChainNext]_chainVars => ChainInv'
  BY NextChainInv
<1> QED
  BY <1>1, <1>2, PTL DEF ChainSpec

-----------------------------------------------------------------------------
(* The properties the runs check. *)

(* Links stay inside the node class and size never passes the number of    *)
(* blocks.                                                                 *)
THEOREM ChainTypeCorrect == ChainSpec => []ChainTypeOK
<1>1. ChainInv => ChainTypeOK
  BY DEF ChainInv
<1> QED
  BY <1>1, ChainInvariant, PTL

(* However nodes are freed and their blocks reused, a reader that follows   *)
(* next from the header of a queue or an edited list passes exactly the    *)
(* allocated nodes in the chain, and the prev links lead back.             *)
THEOREM ChainForwardSound == ChainSpec => []ForwardSound
<1>1. ChainInv => ForwardSound
  <2> SUFFICES ASSUME ChainInv, discipline # "stack", ~gone
               PROVE  \E s \in Listings : LinkedForward(s) /\ LinkedBackward(s)
    BY DEF ForwardSound
  <2>1. PICK s \in Listings : Threads(s)
    BY DEF ChainInv, Threaded
  <2> QED
    BY <2>1 DEF Threads
<1> QED
  BY <1>1, ChainInvariant, PTL

(* The prev links from the tail of a stack pass its nodes and end in NIL at *)
(* its header, though the next link of its tail may be stale.              *)
THEOREM ChainBackwardSound == ChainSpec => []BackwardSound
<1>1. ChainInv => BackwardSound
  <2> SUFFICES ASSUME ChainInv, discipline = "stack"
               PROVE  \E s \in Listings :
                        /\ LinkedBackward(s)
                        /\ chain.header = IF chain.size = 0 THEN NIL ELSE s[1]
                        /\ chain.size # 0 => node[s[1]].prev = NIL
    BY DEF BackwardSound
  <2>1. PICK s \in Listings : Threads(s)
    BY DEF ChainInv, Threaded
  <2> QED
    BY <2>1 DEF Threads
<1> QED
  BY <1>1, ChainInvariant, PTL

(* No call of a discipline frees a node twice, follows NULL or writes       *)
(* through a stale link.                                                   *)
THEOREM ChainNoFault == ChainSpec => []NoFault
<1>1. ChainInv => NoFault
  BY DEF ChainInv, NoFault
<1> QED
  BY <1>1, ChainInvariant, PTL

(* A queue owns exactly the nodes an iteration visits, and destroying it    *)
(* frees them all.                                                         *)
THEOREM ChainNoNodeLeaks == ChainSpec => []NoNodeLeaks
<1>1. ChainInv => NoNodeLeaks
  <2> SUFFICES ASSUME ChainInv, discipline = "queue"
               PROVE  alloc = IF gone THEN {} ELSE Walked
    BY DEF NoNodeLeaks
  <2>1. CASE gone
    BY <2>1 DEF ChainInv
  <2>2. CASE ~gone
    <3>1. PICK s \in Listings : Threads(s)
      BY <2>2 DEF ChainInv, Threaded
    <3>2. Walked = {s[i] : i \in 1 .. chain.size}
      BY <3>1, WalkedPlaces DEF ChainInv
    <3> QED
      BY <2>2, <3>1, <3>2 DEF Threads
  <2> QED
    BY <2>1, <2>2
<1> QED
  BY <1>1, ChainInvariant, PTL

(* Under each discipline every call does to the values of the chain what    *)
(* its caller expects of a list: no value is lost, repeated or out of      *)
(* place, and a pull returns the one at its end.                           *)
THEOREM ChainImplementsList == ChainSpec => ImplementsList
<1>1. ChainInit({"queue", "stack", "edit"}) => Abs!Init
  <2> SUFFICES ASSUME ChainInit({"queue", "stack", "edit"})
               PROVE  Contents = <<>> /\ ret = None
    BY DEF Abs!Init, ChainInit
  <2>1. chain.size = 0 /\ ret = None
    BY DEF ChainInit
  <2>2. ChainTypeOK /\ \E s \in Listings : Threads(s)
    BY InitChainInv DEF ChainInv, Threaded, ChainInit
  <2> QED
    BY <2>1, <2>2, ContentsBefore, NoneListed
<1>2. ChainInv /\ [ChainNext]_chainVars => ListStep
  BY NextChainInv
<1> QED
  BY <1>1, <1>2, ChainInvariant, PTL DEF ChainSpec, ImplementsList, Abs!Spec, ListStep
=============================================================================
