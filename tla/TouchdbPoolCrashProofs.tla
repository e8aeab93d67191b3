---------------------- MODULE TouchdbPoolCrashProofs ------------------------
(***************************************************************************)
(* Proofs about TouchdbPoolCrash for every pool size, number of classes,   *)
(* header size, set of request sizes and number of kills.                  *)
(***************************************************************************)
EXTENDS TouchdbPoolCrash, TouchdbPoolProofs, FiniteSetTheorems

(* The blocks of class c below cur_offset, and those of them nobody holds. *)
Carved(c) == {b \in Blocks : b < cur_offset /\ hdr[b].idx = c}

Own(c) == Carved(c) \ DOMAIN live

(* From h the m blocks of s follow one another along next_offset. *)
Path(s, m, c, h) ==
  /\ s \in [1 .. m -> Own(c)]
  /\ \A i, j \in 1 .. m : s[i] = s[j] => i = j
  /\ \A i \in 1 .. m - 1 : hdr[s[i]].next_offset = s[i + 1]
  /\ h = IF m = 0 THEN NIL ELSE s[1]

(* The links of class c still end in NIL: no kill has left one behind.     *)
Ends(c) == crashes = 0 \/ c \in torn

(* A path that a list with tail t and size n may have: it is as long as n  *)
(* says, and leads to t, unless an unlink was killed; it ends in NIL as    *)
(* long as nothing else was.                                               *)
Line(s, m, c, h, t, n) ==
  /\ Path(s, m, c, h)
  /\ t = NIL \/ (m # 0 /\ t = s[m])
  /\ c \notin torn => n <= m /\ (n # 0 => t # NIL)
  /\ Ends(c) /\ m # 0 => hdr[s[m]].next_offset = NIL

(* The same, with b not on the path. *)
Lined(B, c, h, t, n) ==
  \E m \in Nat : \E s \in [1 .. m -> Own(c) \ B] : Line(s, m, c, h, t, n)

ListOK(c) ==
  LET list == free_blk_list[c] IN
  list.size # 0 \/ Ends(c) => Lined({}, c, list.header_offset, list.tail_offset, list.size)

MemoryOK ==
  /\ TypeOK
  /\ \A b \in Blocks : b <= cur_offset /\ (b < cur_offset => End(b) <= cur_offset)
  /\ \A a, b \in Blocks : a < b => End(a) <= b
  /\ \A b \in DOMAIN live : b < cur_offset
  /\ Fits

LinksOK ==
  \A c \in Classes :
    /\ free_blk_list[c].header_offset \in Carved(c) \cup {NIL}
    /\ free_blk_list[c].tail_offset \in Carved(c) \cup {NIL}
    /\ \A b \in Blocks : hdr[b].idx = c =>
         /\ hdr[b].next_offset \in Carved(c) \cup {NIL}
         /\ c \notin torn => hdr[b].next_offset # b

KillsOK ==
  /\ crashes \in Nat
  /\ torn \subseteq Classes
  /\ crashes = 0 => torn = {}
  /\ wild => todo = <<>> /\ torn # {}

Carving(c, b, list) ==
  /\ todo = carve_writes \/ todo = <<"cur_offset">>
  /\ b = cur_offset
  /\ list.size = 0
  /\ cur_offset + blk_size(c) <= POOL_SIZE
  /\ todo = <<"cur_offset">> => b \in Blocks /\ hdr[b].idx = c

PopBegun(c, b, list) ==
  /\ todo = pop_writes(hdr[b].next_offset)
  /\ list.header_offset = b
  /\ Intact(c) => Lined({}, c, b, list.tail_offset, list.size)

PopBeforeHeader(c, b, list) ==
  /\ todo = <<"list->header=next", "list->size--">>
  /\ list.header_offset = b
  /\ Intact(c) =>
       \/ /\ hdr[b].next_offset # NIL
          /\ Lined({}, c, b, list.tail_offset, list.size)
       \/ /\ hdr[b].next_offset = NIL
          /\ list.tail_offset = NIL
          /\ c \notin torn => list.size = 1

PopBeforeSize(c, b, list) ==
  /\ todo = <<"list->size--">>
  /\ list.header_offset = hdr[b].next_offset
  /\ Intact(c) /\ (list.size # 1 \/ Ends(c)) =>
       Lined({b}, c, list.header_offset, list.tail_offset, list.size - 1)

Popping(c, b, list) ==
  /\ b \in Carved(c)
  /\ list.size # 0
  /\ Intact(c) => b \notin DOMAIN live
  /\ PopBegun(c, b, list) \/ PopBeforeHeader(c, b, list) \/ PopBeforeSize(c, b, list)

PushOnEmpty(c, b, list) ==
  /\ list.size = 0
  /\ \/ todo = push_writes(0)
     \/ todo = <<"list->tail=blk", "list->header=blk", "blk->next", "list->size++">>
     \/ /\ todo = <<"list->header=blk", "blk->next", "list->size++">>
        /\ list.tail_offset = b

PushBeforeLink(c, b, list) ==
  /\ list.size # 0
  /\ \/ todo = push_writes(1)
     \/ todo = <<"tail->next", "list->tail=blk", "blk->next", "list->size++">>
  /\ list.tail_offset # NIL
  /\ Intact(c) => Lined({b}, c, list.header_offset, list.tail_offset, list.size)

PushBeforeTail(c, b, list) ==
  /\ list.size # 0
  /\ todo = <<"list->tail=blk", "blk->next", "list->size++">>
  /\ Intact(c) =>
       \E m \in Nat : \E s \in [1 .. m -> Own(c) \ {b}] :
         /\ Path(s, m, c, list.header_offset)
         /\ m # 0 /\ s[m] = list.tail_offset /\ hdr[s[m]].next_offset = b
         /\ c \notin torn => list.size <= m

PushBeforeSize(c, b, list) ==
  /\ \/ todo = <<"blk->next", "list->size++">>
     \/ todo = <<"list->size++">> /\ hdr[b].next_offset = NIL
  /\ list.tail_offset = b
  /\ Intact(c) =>
       \E m \in Nat : \E s \in [1 .. m -> Own(c)] :
         /\ Path(s, m, c, list.header_offset)
         /\ m # 0 /\ s[m] = b
         /\ c \notin torn => list.size < m

Pushing(c, b, list) ==
  /\ b \in Own(c)
  /\ \/ PushOnEmpty(c, b, list)
     \/ PushBeforeLink(c, b, list)
     \/ PushBeforeTail(c, b, list)
     \/ PushBeforeSize(c, b, list)

CallOK ==
  LET c == arg.c  b == arg.b  list == free_blk_list[c] IN
  todo # <<>> =>
    /\ c \in Classes
    /\ \/ /\ arg.size = 0
          /\ Pushing(c, b, list)
       \/ /\ arg.size \in Sizes \ {0} /\ free_list_idx(arg.size) = c
          /\ Carving(c, b, list) \/ Popping(c, b, list)

(* The list of class c is being changed by the call in progress. *)
Busy(c) ==
  todo # <<>> /\ arg.c = c /\ todo[Len(todo)] # "cur_offset"

ListsOK == \A c \in Classes : Intact(c) /\ ~Busy(c) => ListOK(c)

LossOK ==
  Cardinality(Unheld) - Cardinality(Counted)
    <= crashes - Cardinality(torn)
       + IF todo # <<>> /\ arg.size = 0 /\ arg.c \notin torn THEN 1 ELSE 0

CrashInv == MemoryOK /\ LinksOK /\ KillsOK /\ CallOK /\ ListsOK
-----------------------------------------------------------------------------

(* The headers of blocks B with classes I, as TypeOK has them. *)
Headers(B, I) == [B -> [next_offset : B \cup {NIL}, prev_offset : B \cup {NIL}, idx : I]]

WithNext(f, b, v) == [f EXCEPT ![b].next_offset = v]

(* Writing one next_offset leaves every other field as it was. *)
LEMMA SetNext ==
  ASSUME NEW B, NEW I, NEW f \in Headers(B, I), NEW b, NEW v \in B \cup {NIL},
         NEW g, g = WithNext(f, b, v)
  PROVE  /\ g \in Headers(B, I)
         /\ \A x \in B : g[x].idx = f[x].idx /\ g[x].prev_offset = f[x].prev_offset
         /\ \A x \in B : g[x].next_offset = IF x = b THEN v ELSE f[x].next_offset
<1> DEFINE R == [next_offset : B \cup {NIL}, prev_offset : B \cup {NIL}, idx : I]
           W(r) == [r EXCEPT !.next_offset = v]
<1>1. f \in [B -> R] /\ g = [x \in B |-> IF x = b THEN W(f[b]) ELSE f[x]]
  BY DEF Headers, WithNext
<1>2. \A r \in R : /\ W(r) \in R
                   /\ W(r).next_offset = v
                   /\ W(r).prev_offset = r.prev_offset
                   /\ W(r).idx = r.idx
  OBVIOUS
<1> HIDE DEF R, W
<1>3. \A x \in B : g[x] = (IF x = b THEN W(f[b]) ELSE f[x]) /\ f[x] \in R
  BY <1>1
<1>4. g \in [B -> R]
  BY <1>1, <1>2, <1>3
<1>5. g \in Headers(B, I)
  BY <1>4 DEF Headers, R
<1>6. ASSUME NEW x \in B
      PROVE  /\ g[x].idx = f[x].idx /\ g[x].prev_offset = f[x].prev_offset
             /\ g[x].next_offset = IF x = b THEN v ELSE f[x].next_offset
  <2>1. CASE x = b
    BY <2>1, <1>2, <1>3
  <2>2. CASE x # b
    BY <2>2, <1>3
  <2> QED
    BY <2>1, <2>2
<1> QED
  BY <1>5, <1>6

WithPrev(f, b, v) == [f EXCEPT ![b].prev_offset = v]

(* Writing one prev_offset leaves every other field as it was. *)
LEMMA SetPrev ==
  ASSUME NEW B, NEW I, NEW f \in Headers(B, I), NEW b, NEW v \in B \cup {NIL},
         NEW g, g = WithPrev(f, b, v)
  PROVE  /\ g \in Headers(B, I)
         /\ \A x \in B : g[x].idx = f[x].idx /\ g[x].next_offset = f[x].next_offset
<1> DEFINE R == [next_offset : B \cup {NIL}, prev_offset : B \cup {NIL}, idx : I]
           W(r) == [r EXCEPT !.prev_offset = v]
<1>1. f \in [B -> R] /\ g = [x \in B |-> IF x = b THEN W(f[b]) ELSE f[x]]
  BY DEF Headers, WithPrev
<1>2. \A r \in R : /\ W(r) \in R
                   /\ W(r).next_offset = r.next_offset
                   /\ W(r).idx = r.idx
  OBVIOUS
<1> HIDE DEF R, W
<1>3. \A x \in B : g[x] = (IF x = b THEN W(f[b]) ELSE f[x]) /\ f[x] \in R
  BY <1>1
<1>4. g \in [B -> R]
  BY <1>1, <1>2, <1>3
<1>5. g \in Headers(B, I)
  BY <1>4 DEF Headers, R
<1>6. ASSUME NEW x \in B
      PROVE  /\ g[x].idx = f[x].idx /\ g[x].next_offset = f[x].next_offset
  <2>1. CASE x = b
    BY <2>1, <1>2, <1>3
  <2>2. CASE x # b
    BY <2>2, <1>3
  <2> QED
    BY <2>1, <2>2
<1> QED
  BY <1>5, <1>6

(* A path survives when its blocks stay free and keep their links. *)
LEMMA LinedFrame ==
  ASSUME NEW c, NEW A, NEW B, NEW h, NEW t, NEW n, NEW k, Lined(A, c, h, t, n),
         \A x \in Own(c) \ A : x \in Own(c)' \ B /\ hdr'[x].next_offset = hdr[x].next_offset,
         c \notin torn' => c \notin torn /\ k = n,
         Ends(c)' => Ends(c)
  PROVE  Lined(B, c, h, t, k)'
<1>1. PICK m \in Nat : \E s \in [1 .. m -> Own(c) \ A] : Line(s, m, c, h, t, n)
  BY DEF Lined
<1>2. PICK s \in [1 .. m -> Own(c) \ A] : Line(s, m, c, h, t, n)
  BY <1>1
<1>3. \A i \in 1 .. m : s[i] \in Own(c)' \ B /\ hdr'[s[i]].next_offset = hdr[s[i]].next_offset
  BY <1>2
<1>4. Path(s, m, c, h)'
  BY <1>2, <1>3 DEF Line, Path
<1>5. Line(s, m, c, h, t, k)'
  BY <1>2, <1>3, <1>4 DEF Line
<1> QED
  BY <1>3, <1>5 DEF Lined

(* The fields of a list, as the invariant has them. *)
ListType(c) == [header_offset : Carved(c) \cup {NIL}, tail_offset : Carved(c) \cup {NIL}, size : Nat]

(* What the writes in the middle of a call on class c have in common: they *)
(* reach the links of its blocks and its list, and nothing else.           *)
Inside(c) ==
  /\ UNCHANGED <<cur_offset, live, ret, wild, arg, crashes, torn>>
  /\ hdr' \in Headers(Blocks, Classes)
  /\ \A x \in Blocks : hdr'[x].idx = hdr[x].idx
  /\ \A x \in Blocks :
       \/ hdr'[x].next_offset = hdr[x].next_offset
       \/ /\ hdr[x].idx = c
          /\ hdr'[x].next_offset \in Carved(c) \cup {NIL}
          /\ c \notin torn => hdr'[x].next_offset # x
  /\ free_blk_list' = [d \in Classes |-> free_blk_list'[d]]
  /\ \A d \in Classes \ {c} : free_blk_list'[d] = free_blk_list[d]
  /\ free_blk_list'[c] \in ListType(c)

(* A write inside a call keeps the invariant but for the list that the     *)
(* call is at.                                                             *)
LEMMA InsideInv ==
  ASSUME CrashInv, NEW c \in Classes, c = arg.c, todo # <<>>, Inside(c)
  PROVE  /\ MemoryOK' /\ LinksOK' /\ KillsOK'
         /\ \A d \in Classes \ {c} : Intact(d)' => ListOK(d)'
         /\ \A d : Carved(d)' = Carved(d) /\ Own(d)' = Own(d)
<1>1. Blocks' = Blocks /\ \A d : Carved(d)' = Carved(d) /\ Own(d)' = Own(d)
  BY DEF Inside, Blocks, Carved, Own, Headers
<1>2. PICK L \in [header_offset : Carved(c) \cup {NIL}, tail_offset : Carved(c) \cup {NIL}, size : Nat] :
        free_blk_list'[c] = L
  BY DEF Inside, ListType
<1>3. /\ free_blk_list' = [d \in Classes |-> free_blk_list'[d]]
      /\ \A d \in Classes \ {c} : free_blk_list'[d] = free_blk_list[d]
  BY DEF Inside
<1>4. MemoryOK'
  <2>1. TypeOK'
    <3>1. L \in [header_offset : Blocks \cup {NIL}, tail_offset : Blocks \cup {NIL}, size : Nat]
      BY DEF Carved
    <3>2. free_blk_list' \in [Classes -> [header_offset : Blocks \cup {NIL},
                                          tail_offset : Blocks \cup {NIL}, size : Nat]]
      <4>1. ASSUME NEW d \in Classes
            PROVE  free_blk_list'[d] \in [header_offset : Blocks \cup {NIL},
                                         tail_offset : Blocks \cup {NIL}, size : Nat]
        BY <1>2, <1>3, <3>1 DEF CrashInv, MemoryOK, TypeOK
      <4> QED
        BY <4>1, <1>1, <1>3
    <3> QED
      BY <1>1, <3>2 DEF CrashInv, MemoryOK, TypeOK, Inside, Headers
  <2>2. \A b \in Blocks : End(b)' = End(b) /\ Capacity(hdr'[b].idx) = Capacity(hdr[b].idx)
    BY DEF Inside, End, blk_size
  <2>3. Fits'
    BY <1>1, <2>2 DEF CrashInv, MemoryOK, TypeOK, Fits, Inside
  <2> QED
    BY <1>1, <2>1, <2>2, <2>3 DEF CrashInv, MemoryOK, Inside
<1>5. LinksOK'
  <2>1. ASSUME NEW d \in Classes
        PROVE  /\ free_blk_list'[d].header_offset \in Carved(d)' \cup {NIL}
               /\ free_blk_list'[d].tail_offset \in Carved(d)' \cup {NIL}
    BY <1>1, <1>2, <1>3 DEF CrashInv, LinksOK
  <2>2. ASSUME NEW d \in Classes, NEW b \in Blocks, hdr'[b].idx = d
        PROVE  /\ hdr'[b].next_offset \in Carved(d)' \cup {NIL}
               /\ d \notin torn' => hdr'[b].next_offset # b
    BY <1>1, <2>2 DEF CrashInv, LinksOK, Inside
  <2> QED
    BY <1>1, <2>1, <2>2 DEF LinksOK
<1>6. KillsOK'
  BY DEF CrashInv, KillsOK, Inside
<1>7. ASSUME NEW d \in Classes \ {c}, Intact(d)' PROVE ListOK(d)'
  <2>1. Intact(d) /\ (Ends(d)' <=> Ends(d)) /\ torn' = torn
    BY <1>7 DEF Inside, Intact, Ends
  <2>2. ListOK(d)
    BY <2>1 DEF CrashInv, ListsOK, Busy
  <2>3. PICK list : list = free_blk_list[d]
    OBVIOUS
  <2>4. list.size # 0 \/ Ends(d) => Lined({}, d, list.header_offset, list.tail_offset, list.size)
    BY <2>2, <2>3 DEF ListOK
  <2>5. \A x \in Own(d) \ {} : x \in Own(d)' \ {} /\ hdr'[x].next_offset = hdr[x].next_offset
    BY <1>1 DEF Inside, Own, Carved
  <2>6. list.size # 0 \/ Ends(d) => Lined({}, d, list.header_offset, list.tail_offset, list.size)'
    BY <2>1, <2>4, <2>5, LinedFrame
  <2>7. free_blk_list'[d] = list
    BY <1>3, <2>3
  <2> QED
    BY <2>1, <2>6, <2>7 DEF ListOK
<1> QED
  BY <1>1, <1>4, <1>5, <1>6, <1>7

(* No block is at offset 0, and the blocks of a class are among all        *)
(* blocks.                                                                 *)
LEMMA NoNil ==
  ASSUME MemoryOK, NEW c
  PROVE  NIL \notin Blocks /\ NIL \notin Carved(c) /\ Own(c) \subseteq Carved(c) /\ Carved(c) \subseteq Blocks
BY PoolAssumption DEF MemoryOK, TypeOK, NIL, Carved, Own

(* The header and the tail of a free list are blocks of its class, or NIL. *)
LEMMA ListTyped ==
  ASSUME MemoryOK, LinksOK, NEW c \in Classes
  PROVE  free_blk_list[c] \in ListType(c)
<1> DEFINE list == free_blk_list[c]
<1>1. list \in [header_offset : Blocks \cup {NIL}, tail_offset : Blocks \cup {NIL}, size : Nat]
  BY DEF MemoryOK, TypeOK
<1>2. list.header_offset \in Carved(c) \cup {NIL} /\ list.tail_offset \in Carved(c) \cup {NIL}
  BY DEF LinksOK
<1> HIDE DEF list
<1>3. list \in ListType(c)
  BY <1>1, <1>2 DEF ListType
<1> QED
  BY <1>3 DEF list

(* A write that is not the last one of a malloc leaves the callers and the *)
(* unallocated area alone.                                                 *)
LEMMA WriteEffect ==
  ASSUME CrashInv, write, NEW c \in Classes, c = arg.c, NEW b, b = arg.b,
         NEW list, list = free_blk_list[c], NEW w, Head(todo) = w,
         w # "cur_offset", Len(todo) # 1 \/ arg.size = 0
  PROVE  /\ free_blk_list' = [d \in Classes |-> free_blk_list'[d]]
         /\ \A d \in Classes \ {c} : free_blk_list'[d] = free_blk_list[d]
         /\ free_blk_list'[c] = ListWrite(w, list, b)
         /\ hdr' = HdrWrite(w, list, b, c)
         /\ todo # <<>> /\ todo' = Tail(todo)
         /\ UNCHANGED <<cur_offset, live, ret, wild, arg, crashes, torn>>
BY DEF write, CrashInv, MemoryOK, TypeOK

(* A write that changes the list, or only links of class c, is Inside. *)
LEMMA InsideIf ==
  ASSUME CrashInv, NEW c \in Classes, NEW L \in ListType(c), NEW g \in Headers(Blocks, Classes),
         free_blk_list' = [d \in Classes |-> free_blk_list'[d]],
         \A d \in Classes \ {c} : free_blk_list'[d] = free_blk_list[d],
         free_blk_list'[c] = L, hdr' = g,
         UNCHANGED <<cur_offset, live, ret, wild, arg, crashes, torn>>,
         \A x \in Blocks : g[x].idx = hdr[x].idx,
         \A x \in Blocks :
           \/ g[x].next_offset = hdr[x].next_offset
           \/ /\ hdr[x].idx = c
              /\ g[x].next_offset \in Carved(c) \cup {NIL}
              /\ c \notin torn => g[x].next_offset # x
  PROVE  Inside(c)
BY DEF Inside

(* Inside a call on class c the blocks of a line keep their place in it    *)
(* when their links are kept.                                              *)
LEMMA LinedInside ==
  ASSUME NEW c, Inside(c), CrashInv, c \in Classes, c = arg.c, todo # <<>>,
         NEW A, NEW h, NEW t, NEW n, Lined(A, c, h, t, n),
         \A x \in Own(c) \ A : hdr'[x].next_offset = hdr[x].next_offset
  PROVE  Lined(A, c, h, t, n)'
<1>1. \A x \in Own(c) \ A : x \in Own(c)' \ A
  BY InsideInv
<1>2. torn' = torn /\ (Ends(c)' <=> Ends(c))
  BY DEF Inside, Ends
<1> QED
  BY <1>1, <1>2, LinedFrame

(* A step inside a malloc that recycles, or a free, keeps the invariant    *)
(* when what it leaves is again a stage of that call.                      *)
LEMMA StageStep ==
  ASSUME CrashInv, NEW c \in Classes, c = arg.c, NEW b, b = arg.b, todo # <<>>, Inside(c),
         NEW list, list = free_blk_list'[c],
         \/ /\ arg.size \in Sizes \ {0} /\ free_list_idx(arg.size) = c
            /\ Popping(c, b, list)'
         \/ /\ arg.size = 0
            /\ Pushing(c, b, list)'
  PROVE  CrashInv'
<1>1. arg'.c = c /\ arg'.b = b /\ arg'.size = arg.size /\ torn' = torn /\ crashes' = crashes
  BY DEF Inside
<1>2. CallOK'
  BY <1>1 DEF CallOK
<1>3. todo' # <<>> /\ todo'[Len(todo')] # "cur_offset"
  <2>1. CASE Popping(c, b, list)'
    <3>1. \/ todo' = <<"q->prev", "list->header=next", "list->size--">>
          \/ todo' = <<"list->tail=NIL", "list->header=next", "list->size--">>
          \/ todo' = <<"list->header=next", "list->size--">>
          \/ todo' = <<"list->size--">>
      BY <2>1 DEF Popping, PopBegun, PopBeforeHeader, PopBeforeSize, pop_writes
    <3>2. CASE todo' = <<"q->prev", "list->header=next", "list->size--">>
      BY <3>2
    <3>3. CASE todo' = <<"list->tail=NIL", "list->header=next", "list->size--">>
      BY <3>3
    <3>4. CASE todo' = <<"list->header=next", "list->size--">>
      BY <3>4
    <3>5. CASE todo' = <<"list->size--">>
      BY <3>5
    <3> QED
      BY <3>1, <3>2, <3>3, <3>4, <3>5
  <2>2. CASE Pushing(c, b, list)'
    <3>1. \/ todo' = <<"blk->prev", "list->tail=blk", "list->header=blk", "blk->next", "list->size++">>
          \/ todo' = <<"list->tail=blk", "list->header=blk", "blk->next", "list->size++">>
          \/ todo' = <<"list->header=blk", "blk->next", "list->size++">>
          \/ todo' = <<"blk->prev", "tail->next", "list->tail=blk", "blk->next", "list->size++">>
          \/ todo' = <<"tail->next", "list->tail=blk", "blk->next", "list->size++">>
          \/ todo' = <<"list->tail=blk", "blk->next", "list->size++">>
          \/ todo' = <<"blk->next", "list->size++">>
          \/ todo' = <<"list->size++">>
      BY <2>2 DEF Pushing, PushOnEmpty, PushBeforeLink, PushBeforeTail, PushBeforeSize, push_writes
    <3>2. CASE todo' = <<"blk->prev", "list->tail=blk", "list->header=blk", "blk->next", "list->size++">>
      BY <3>2
    <3>3. CASE todo' = <<"list->tail=blk", "list->header=blk", "blk->next", "list->size++">>
      BY <3>3
    <3>4. CASE todo' = <<"list->header=blk", "blk->next", "list->size++">>
      BY <3>4
    <3>5. CASE todo' = <<"blk->prev", "tail->next", "list->tail=blk", "blk->next", "list->size++">>
      BY <3>5
    <3>6. CASE todo' = <<"tail->next", "list->tail=blk", "blk->next", "list->size++">>
      BY <3>6
    <3>7. CASE todo' = <<"list->tail=blk", "blk->next", "list->size++">>
      BY <3>7
    <3>8. CASE todo' = <<"blk->next", "list->size++">>
      BY <3>8
    <3>9. CASE todo' = <<"list->size++">>
      BY <3>9
    <3> QED
      BY <3>1, <3>2, <3>3, <3>4, <3>5, <3>6, <3>7, <3>8, <3>9
  <2> QED
    BY <2>1, <2>2
<1>4. \A d \in Classes \ {c} : Intact(d)' => ListOK(d)'
  BY InsideInv
<1>5. Busy(c)'
  BY <1>1, <1>3 DEF Busy
<1>6. ListsOK'
  BY <1>4, <1>5 DEF ListsOK
<1> QED
  BY <1>2, <1>6, InsideInv DEF CrashInv

(* q->prev_offset = NIL, or list->tail_offset = NIL after the last block.  *)
LEMMA WritePopBegun ==
  ASSUME CrashInv, write, NEW c \in Classes, c = arg.c, NEW b, b = arg.b,
         NEW list, list = free_blk_list[c],
         arg.size \in Sizes \ {0}, free_list_idx(arg.size) = c,
         b \in Carved(c), list.size # 0, Intact(c) => b \notin DOMAIN live,
         PopBegun(c, b, list)
  PROVE  CrashInv'
<1>0. PICK next : next = hdr[b].next_offset
  OBVIOUS
<1>1. /\ MemoryOK /\ LinksOK /\ hdr \in Headers(Blocks, Classes) /\ list \in ListType(c)
      /\ NIL \notin Blocks /\ NIL \in Blocks \cup {NIL} /\ Own(c) \subseteq Blocks
  BY ListTyped, NoNil DEF CrashInv, MemoryOK, TypeOK, Headers
<1>2. CASE next # NIL
  <2>1. todo = <<"q->prev", "list->header=next", "list->size--">>
    BY <1>0, <1>2 DEF PopBegun, pop_writes
  <2>2. Head(todo) = "q->prev" /\ Tail(todo) = <<"list->header=next", "list->size--">> /\ Len(todo) = 3
    BY <2>1
  <2>3. /\ ListWrite("q->prev", list, b) = list
        /\ HdrWrite("q->prev", list, b, c) = WithPrev(hdr, next, NIL)
    BY <1>0 DEF ListWrite, HdrWrite, WithPrev
  <2>4. PICK g : g = WithPrev(hdr, next, NIL)
    OBVIOUS
  <2>5. /\ g \in Headers(Blocks, Classes)
        /\ \A x \in Blocks : g[x].idx = hdr[x].idx /\ g[x].next_offset = hdr[x].next_offset
    BY <2>4, <1>1, SetPrev
  <2>6. /\ free_blk_list' = [d \in Classes |-> free_blk_list'[d]]
        /\ \A d \in Classes \ {c} : free_blk_list'[d] = free_blk_list[d]
        /\ free_blk_list'[c] = list
        /\ hdr' = g /\ todo' = Tail(todo) /\ todo # <<>>
        /\ UNCHANGED <<cur_offset, live, ret, wild, arg, crashes, torn>>
    BY <2>2, <2>3, <2>4, WriteEffect
  <2>9. Inside(c)
    BY <2>5, <2>6, <1>1, InsideIf
  <2>7. Intact(c) => Lined({}, c, b, list.tail_offset, list.size)'
    BY <2>5, <2>6, <2>9, <1>1, LinedInside DEF PopBegun
  <2>8. /\ Carved(c)' = Carved(c) /\ (Intact(c)' <=> Intact(c)) /\ live' = live
        /\ hdr'[b].next_offset = next
    BY <2>5, <2>6, <2>9, <1>0, <1>1, NoNil, InsideInv DEF Intact
  <2>10. PopBeforeHeader(c, b, list)'
    BY <2>2, <2>6, <2>7, <2>8, <1>2 DEF PopBegun, PopBeforeHeader
  <2> QED
    BY <2>6, <2>8, <2>9, <2>10, StageStep DEF Popping
<1>3. CASE next = NIL
  <2>1. todo = <<"list->tail=NIL", "list->header=next", "list->size--">>
    BY <1>0, <1>3 DEF PopBegun, pop_writes
  <2>2. Head(todo) = "list->tail=NIL" /\ Tail(todo) = <<"list->header=next", "list->size--">> /\ Len(todo) = 3
    BY <2>1
  <2>3. PICK L : L = ListWrite("list->tail=NIL", list, b)
    OBVIOUS
  <2>4. /\ L \in ListType(c) /\ L.header_offset = list.header_offset
        /\ L.tail_offset = NIL /\ L.size = list.size
        /\ HdrWrite("list->tail=NIL", list, b, c) = hdr
    BY <2>3, <1>1 DEF ListWrite, HdrWrite, ListType
  <2>5. /\ free_blk_list' = [d \in Classes |-> free_blk_list'[d]]
        /\ \A d \in Classes \ {c} : free_blk_list'[d] = free_blk_list[d]
        /\ free_blk_list'[c] = L
        /\ hdr' = hdr /\ todo' = Tail(todo) /\ todo # <<>>
        /\ UNCHANGED <<cur_offset, live, ret, wild, arg, crashes, torn>>
    BY <2>2, <2>3, <2>4, WriteEffect
  <2>6. Inside(c)
    BY <2>4, <2>5, <1>1, InsideIf
  <2>7. Carved(c)' = Carved(c) /\ (Intact(c)' <=> Intact(c)) /\ live' = live
    BY <2>5, <2>6, InsideInv DEF Intact
  <2>8. Intact(c) /\ c \notin torn => list.size = 1
    <3> SUFFICES ASSUME Intact(c), c \notin torn PROVE list.size = 1
      OBVIOUS
    <3>1. PICK m \in Nat : \E s \in [1 .. m -> Own(c) \ {}] : Line(s, m, c, b, list.tail_offset, list.size)
      BY DEF PopBegun, Lined
    <3>2. PICK s \in [1 .. m -> Own(c) \ {}] : Line(s, m, c, b, list.tail_offset, list.size)
      BY <3>1
    <3>3. m \notin {0, 1} => 1 \in 1 .. m - 1 /\ 2 \in 1 .. m
      OBVIOUS
    <3>4. list.size <= m /\ list.size \in Nat
      BY <3>2, <1>1 DEF Line, ListType
    <3>5. m # 0
      BY <3>4
    <3>6. m \notin {0, 1} => hdr[s[1]].next_offset = s[2] /\ s[2] \in Own(c) /\ b = s[1]
      BY <3>2, <3>3, <3>5 DEF Line, Path
    <3>7. m = 1
      BY <3>5, <3>6, <1>0, <1>1, <1>3
    <3> QED
      BY <3>4, <3>7
  <2>9. PopBeforeHeader(c, b, L)'
    BY <2>2, <2>4, <2>5, <2>7, <2>8, <1>0, <1>3 DEF PopBegun, PopBeforeHeader
  <2> QED
    BY <2>4, <2>5, <2>6, <2>7, <2>9, StageStep DEF Popping
<1> QED
  BY <1>2, <1>3

(* The first block of a line is taken off, and what follows is a line.     *)
LEMMA Unlink ==
  ASSUME MemoryOK, NEW c, NEW b, NEW t, NEW n \in Nat, n # 0,
         Lined({}, c, b, t, n), b # NIL, hdr[b].next_offset # NIL, n # 1 \/ Ends(c)
  PROVE  Lined({b}, c, hdr[b].next_offset, t, n - 1)
<1>1. PICK m \in Nat : \E s \in [1 .. m -> Own(c) \ {}] : Line(s, m, c, b, t, n)
  BY DEF Lined
<1>2. PICK s \in [1 .. m -> Own(c) \ {}] : Line(s, m, c, b, t, n)
  BY <1>1
<1>3. /\ \A i, j \in 1 .. m : s[i] = s[j] => i = j
      /\ \A i \in 1 .. m - 1 : hdr[s[i]].next_offset = s[i + 1]
      /\ m # 0 /\ b = s[1]
      /\ t = NIL \/ t = s[m]
      /\ c \notin torn => n <= m /\ t # NIL
      /\ Ends(c) => hdr[s[m]].next_offset = NIL
  BY <1>2 DEF Line, Path
<1>4. m # 1
  <2>1. m = 1 => n = 1 /\ ~Ends(c)
    BY <1>3 DEF Ends
  <2> QED
    BY <2>1
<1>5. PICK r : r = [i \in 1 .. m - 1 |-> s[i + 1]]
  OBVIOUS
<1>6. \A i \in 1 .. m - 1 : i + 1 \in 1 .. m /\ r[i] = s[i + 1]
  BY <1>5
<1>7. r \in [1 .. m - 1 -> Own(c) \ {b}]
  <2>1. \A i \in 1 .. m - 1 : s[i + 1] \in Own(c) /\ s[i + 1] # b
    BY <1>2, <1>3, <1>4, <1>6
  <2> QED
    BY <2>1, <1>5
<1>8. Path(r, m - 1, c, hdr[b].next_offset)
  <2>1. \A i, j \in 1 .. m - 1 : r[i] = r[j] => i = j
    BY <1>3, <1>6
  <2>2. ASSUME NEW i \in 1 .. (m - 1) - 1
        PROVE  hdr[r[i]].next_offset = r[i + 1]
    <3>1. i \in 1 .. m - 1 /\ i + 1 \in 1 .. m - 1
      OBVIOUS
    <3> QED
      BY <3>1, <1>3, <1>6
  <2>3. hdr[b].next_offset = r[1] /\ m - 1 # 0
    <3>1. 1 \in 1 .. m - 1
      BY <1>3, <1>4
    <3> QED
      BY <3>1, <1>3, <1>4, <1>6
  <2>4. r \in [1 .. m - 1 -> Own(c)]
    BY <1>7
  <2> QED
    BY <2>1, <2>2, <2>3, <2>4 DEF Path
<1>9. Line(r, m - 1, c, hdr[b].next_offset, t, n - 1)
  <2>1. m - 1 \in 1 .. m - 1 /\ (m - 1) + 1 = m
    BY <1>3, <1>4
  <2>2. r[m - 1] = s[m]
    BY <2>1, <1>6
  <2>3. c \notin torn => n - 1 <= m - 1 /\ (n - 1 # 0 => t # NIL)
    BY <1>3
  <2>4. t = NIL \/ (m - 1 # 0 /\ t = r[m - 1])
    BY <2>1, <2>2, <1>3
  <2> QED
    BY <2>2, <2>3, <2>4, <1>3, <1>8 DEF Line
<1>10. m - 1 \in Nat
  BY <1>3
<1> QED
  BY <1>7, <1>9, <1>10 DEF Lined

(* list->header_offset = next *)
LEMMA WritePopBeforeHeader ==
  ASSUME CrashInv, write, NEW c \in Classes, c = arg.c, NEW b, b = arg.b,
         NEW list, list = free_blk_list[c],
         arg.size \in Sizes \ {0}, free_list_idx(arg.size) = c,
         b \in Carved(c), list.size # 0, Intact(c) => b \notin DOMAIN live,
         PopBeforeHeader(c, b, list)
  PROVE  CrashInv'
<1>0. PICK next : next = hdr[b].next_offset
  OBVIOUS
<1>1. /\ MemoryOK /\ LinksOK /\ hdr \in Headers(Blocks, Classes) /\ list \in ListType(c)
      /\ NIL \notin Carved(c) /\ Own(c) \subseteq Carved(c) /\ Carved(c) \subseteq Blocks
  BY ListTyped, NoNil DEF CrashInv, MemoryOK, TypeOK, Headers
<1>2. Head(todo) = "list->header=next" /\ Tail(todo) = <<"list->size--">> /\ Len(todo) = 2
  BY DEF PopBeforeHeader
<1>3. PICK L : L = ListWrite("list->header=next", list, b)
  OBVIOUS
<1>4. hdr[b].idx = c /\ next \in Carved(c) \cup {NIL}
  BY <1>0, <1>1 DEF LinksOK, Carved
<1>5. /\ L \in ListType(c) /\ L.header_offset = next
      /\ L.tail_offset = list.tail_offset /\ L.size = list.size
      /\ HdrWrite("list->header=next", list, b, c) = hdr
  BY <1>0, <1>1, <1>3, <1>4 DEF ListWrite, HdrWrite, ListType
<1>6. /\ free_blk_list' = [d \in Classes |-> free_blk_list'[d]]
      /\ \A d \in Classes \ {c} : free_blk_list'[d] = free_blk_list[d]
      /\ free_blk_list'[c] = L
      /\ hdr' = hdr /\ todo' = Tail(todo) /\ todo # <<>>
      /\ UNCHANGED <<cur_offset, live, ret, wild, arg, crashes, torn>>
  BY <1>2, <1>3, <1>5, WriteEffect
<1>7. Inside(c)
  BY <1>1, <1>5, <1>6, InsideIf
<1>8. /\ Carved(c)' = Carved(c) /\ (Intact(c)' <=> Intact(c)) /\ live' = live
      /\ (Ends(c)' <=> Ends(c))
  BY <1>6, <1>7, InsideInv DEF Intact, Ends
<1>9. PICK t, n : t = list.tail_offset /\ n = list.size
  OBVIOUS
<1>10. n \in Nat /\ n # 0 /\ b # NIL
  BY <1>1, <1>9 DEF ListType
<1>11. Intact(c) /\ (n # 1 \/ Ends(c)) => Lined({b}, c, next, t, n - 1)
  <2> SUFFICES ASSUME Intact(c), n # 1 \/ Ends(c) PROVE Lined({b}, c, next, t, n - 1)
    OBVIOUS
  <2>1. CASE next # NIL
    BY <2>1, <1>0, <1>1, <1>9, <1>10, Unlink DEF PopBeforeHeader
  <2>2. CASE next = NIL
    <3>1. t = NIL /\ (c \notin torn => n = 1)
      BY <2>2, <1>0, <1>9 DEF PopBeforeHeader
    <3>2. PICK s : s = [i \in 1 .. 0 |-> NIL]
      OBVIOUS
    <3>3. s \in [1 .. 0 -> Own(c) \ {b}]
      BY <3>2
    <3>4. Path(s, 0, c, next)
      BY <3>2, <2>2 DEF Path
    <3>5. Line(s, 0, c, next, t, n - 1)
      BY <3>1, <3>4, <1>10 DEF Line
    <3> QED
      BY <3>3, <3>5 DEF Lined
  <2> QED
    BY <2>1, <2>2
<1>12. Intact(c) /\ (n # 1 \/ Ends(c)) => Lined({b}, c, next, t, n - 1)'
  BY <1>1, <1>6, <1>7, <1>11, LinedInside
<1>13. PopBeforeSize(c, b, L)'
  BY <1>0, <1>2, <1>5, <1>6, <1>8, <1>9, <1>12 DEF PopBeforeSize
<1> QED
  BY <1>5, <1>6, <1>7, <1>8, <1>13, StageStep DEF Popping

(* What the stages of a free know when they start. *)
LEMMA PushFacts ==
  ASSUME CrashInv, NEW c \in Classes, NEW b \in Own(c), NEW list, list = free_blk_list[c]
  PROVE  /\ MemoryOK /\ LinksOK /\ hdr \in Headers(Blocks, Classes) /\ list \in ListType(c)
         /\ NIL \notin Carved(c) /\ Own(c) \subseteq Carved(c) /\ Carved(c) \subseteq Blocks
         /\ b \in Blocks /\ b \in Carved(c) /\ hdr[b].idx = c /\ b # NIL
BY ListTyped, NoNil DEF CrashInv, MemoryOK, TypeOK, Headers, Carved, Own

(* The free of the first block of a list, up to list->header_offset = blk. *)
LEMMA WritePushOnEmpty ==
  ASSUME CrashInv, write, NEW c \in Classes, c = arg.c, NEW b, b = arg.b,
         NEW list, list = free_blk_list[c], arg.size = 0, b \in Own(c), PushOnEmpty(c, b, list)
  PROVE  CrashInv'
<1>1. /\ MemoryOK /\ LinksOK /\ hdr \in Headers(Blocks, Classes) /\ list \in ListType(c)
      /\ b \in Blocks /\ b \in Carved(c) /\ NIL \in Blocks \cup {NIL}
  BY PushFacts
<1>2. CASE todo = push_writes(0)
  <2>1. todo = <<"blk->prev", "list->tail=blk", "list->header=blk", "blk->next", "list->size++">>
    BY <1>2 DEF push_writes
  <2>2. /\ Head(todo) = "blk->prev"
        /\ Tail(todo) = <<"list->tail=blk", "list->header=blk", "blk->next", "list->size++">>
    BY <2>1
  <2>3. /\ ListWrite("blk->prev", list, b) = list
        /\ HdrWrite("blk->prev", list, b, c) = WithPrev(hdr, b, NIL)
    BY DEF ListWrite, HdrWrite, WithPrev, PushOnEmpty
  <2>4. PICK g : g = WithPrev(hdr, b, NIL)
    OBVIOUS
  <2>5. /\ g \in Headers(Blocks, Classes)
        /\ \A x \in Blocks : g[x].idx = hdr[x].idx /\ g[x].next_offset = hdr[x].next_offset
    BY <2>4, <1>1, SetPrev
  <2>6. /\ free_blk_list' = [d \in Classes |-> free_blk_list'[d]]
        /\ \A d \in Classes \ {c} : free_blk_list'[d] = free_blk_list[d]
        /\ free_blk_list'[c] = list
        /\ hdr' = g /\ todo' = Tail(todo) /\ todo # <<>>
        /\ UNCHANGED <<cur_offset, live, ret, wild, arg, crashes, torn>>
    BY <2>2, <2>3, <2>4, WriteEffect
  <2>7. Inside(c)
    BY <2>5, <2>6, <1>1, InsideIf
  <2>8. Own(c)' = Own(c)
    BY <2>6, <2>7, InsideInv
  <2>9. PushOnEmpty(c, b, list)'
    BY <2>2, <2>6 DEF PushOnEmpty
  <2> QED
    BY <2>6, <2>7, <2>8, <2>9, StageStep DEF Pushing
<1>3. CASE todo = <<"list->tail=blk", "list->header=blk", "blk->next", "list->size++">>
  <2>1. /\ Head(todo) = "list->tail=blk"
        /\ Tail(todo) = <<"list->header=blk", "blk->next", "list->size++">>
    BY <1>3
  <2>2. PICK L : L = ListWrite("list->tail=blk", list, b)
    OBVIOUS
  <2>3. /\ L \in ListType(c) /\ L.tail_offset = b /\ L.size = 0
        /\ HdrWrite("list->tail=blk", list, b, c) = hdr
    BY <2>2, <1>1 DEF ListWrite, HdrWrite, ListType, PushOnEmpty
  <2>4. /\ free_blk_list' = [d \in Classes |-> free_blk_list'[d]]
        /\ \A d \in Classes \ {c} : free_blk_list'[d] = free_blk_list[d]
        /\ free_blk_list'[c] = L
        /\ hdr' = hdr /\ todo' = Tail(todo) /\ todo # <<>>
        /\ UNCHANGED <<cur_offset, live, ret, wild, arg, crashes, torn>>
    BY <2>1, <2>2, <2>3, WriteEffect
  <2>5. Inside(c)
    BY <2>3, <2>4, <1>1, InsideIf
  <2>6. Own(c)' = Own(c)
    BY <2>4, <2>5, InsideInv
  <2>7. PushOnEmpty(c, b, L)'
    BY <2>1, <2>3, <2>4 DEF PushOnEmpty
  <2> QED
    BY <2>4, <2>5, <2>6, <2>7, StageStep DEF Pushing
<1>4. CASE todo = <<"list->header=blk", "blk->next", "list->size++">> /\ list.tail_offset = b
  <2>1. Head(todo) = "list->header=blk" /\ Tail(todo) = <<"blk->next", "list->size++">>
    BY <1>4
  <2>2. PICK L : L = ListWrite("list->header=blk", list, b)
    OBVIOUS
  <2>3. /\ L \in ListType(c) /\ L.header_offset = b /\ L.tail_offset = b /\ L.size = 0
        /\ HdrWrite("list->header=blk", list, b, c) = hdr
    BY <2>2, <1>1, <1>4 DEF ListWrite, HdrWrite, ListType, PushOnEmpty
  <2>4. /\ free_blk_list' = [d \in Classes |-> free_blk_list'[d]]
        /\ \A d \in Classes \ {c} : free_blk_list'[d] = free_blk_list[d]
        /\ free_blk_list'[c] = L
        /\ hdr' = hdr /\ todo' = Tail(todo) /\ todo # <<>>
        /\ UNCHANGED <<cur_offset, live, ret, wild, arg, crashes, torn>>
    BY <2>1, <2>2, <2>3, WriteEffect
  <2>5. Inside(c)
    BY <2>3, <2>4, <1>1, InsideIf
  <2>6. Own(c)' = Own(c)
    BY <2>4, <2>5, InsideInv
  <2>7. PICK s : s = [i \in 1 .. 1 |-> b]
    OBVIOUS
  <2>8. s \in [1 .. 1 -> Own(c)'] /\ s[1] = b
    BY <2>6, <2>7
  <2>9. Path(s, 1, c, b)'
    BY <2>8 DEF Path
  <2>10. PushBeforeSize(c, b, L)'
    <3>1. \E m \in Nat : \E r \in [1 .. m -> Own(c)'] :
            Path(r, m, c, b)' /\ m # 0 /\ r[m] = b /\ (c \notin torn' => 0 < m)
      <4>1. 1 \in Nat /\ 1 # 0 /\ 0 < 1
        OBVIOUS
      <4> QED
        BY <4>1, <2>8, <2>9
    <3> QED
      BY <3>1, <2>1, <2>3, <2>4 DEF PushBeforeSize
  <2> QED
    BY <2>4, <2>5, <2>6, <2>10, StageStep DEF Pushing
<1> QED
  BY <1>2, <1>3, <1>4 DEF PushOnEmpty

(* A free behind the tail: the new block's prev_offset, then the link to   *)
(* it, which cuts off whatever a killed free had left there.               *)
LEMMA WritePushBeforeLink ==
  ASSUME CrashInv, write, NEW c \in Classes, c = arg.c, NEW b, b = arg.b,
         NEW list, list = free_blk_list[c], arg.size = 0, b \in Own(c), PushBeforeLink(c, b, list)
  PROVE  CrashInv'
<1>0. PICK h, t, n : h = list.header_offset /\ t = list.tail_offset /\ n = list.size
  OBVIOUS
<1>1. /\ MemoryOK /\ LinksOK /\ hdr \in Headers(Blocks, Classes) /\ list \in ListType(c)
      /\ b \in Blocks /\ b \in Carved(c) /\ b \in Blocks \cup {NIL}
      /\ NIL \notin Carved(c) /\ Own(c) \subseteq Carved(c) /\ Carved(c) \subseteq Blocks
  BY PushFacts
<1>2. t \in Carved(c) /\ t \in Blocks \cup {NIL} /\ hdr[t].idx = c /\ n # 0 /\ n \in Nat
  BY <1>0, <1>1 DEF PushBeforeLink, ListType, Carved
<1>3. CASE todo = push_writes(1)
  <2>1. todo = <<"blk->prev", "tail->next", "list->tail=blk", "blk->next", "list->size++">>
    BY <1>3 DEF push_writes
  <2>2. /\ Head(todo) = "blk->prev"
        /\ Tail(todo) = <<"tail->next", "list->tail=blk", "blk->next", "list->size++">>
    BY <2>1
  <2>3. /\ ListWrite("blk->prev", list, b) = list
        /\ HdrWrite("blk->prev", list, b, c) = WithPrev(hdr, b, t)
    BY <1>0, <1>2 DEF ListWrite, HdrWrite, WithPrev
  <2>4. PICK g : g = WithPrev(hdr, b, t)
    OBVIOUS
  <2>5. /\ g \in Headers(Blocks, Classes)
        /\ \A x \in Blocks : g[x].idx = hdr[x].idx /\ g[x].next_offset = hdr[x].next_offset
    BY <2>4, <1>1, <1>2, SetPrev
  <2>6. /\ free_blk_list' = [d \in Classes |-> free_blk_list'[d]]
        /\ \A d \in Classes \ {c} : free_blk_list'[d] = free_blk_list[d]
        /\ free_blk_list'[c] = list
        /\ hdr' = g /\ todo' = Tail(todo) /\ todo # <<>>
        /\ UNCHANGED <<cur_offset, live, ret, wild, arg, crashes, torn>>
    BY <2>2, <2>3, <2>4, WriteEffect
  <2>7. Inside(c)
    BY <2>5, <2>6, <1>1, InsideIf
  <2>8. Own(c)' = Own(c) /\ (Intact(c)' <=> Intact(c))
    BY <2>6, <2>7, InsideInv DEF Intact
  <2>9. Intact(c) => Lined({b}, c, h, t, n)'
    BY <2>5, <2>6, <2>7, <1>0, <1>1, LinedInside DEF PushBeforeLink
  <2>10. PushBeforeLink(c, b, list)'
    BY <2>2, <2>6, <2>8, <2>9, <1>0 DEF PushBeforeLink
  <2> QED
    BY <2>6, <2>7, <2>8, <2>10, StageStep DEF Pushing
<1>4. CASE todo = <<"tail->next", "list->tail=blk", "blk->next", "list->size++">>
  <2>1. /\ Head(todo) = "tail->next"
        /\ Tail(todo) = <<"list->tail=blk", "blk->next", "list->size++">>
    BY <1>4
  <2>2. /\ ListWrite("tail->next", list, b) = list
        /\ HdrWrite("tail->next", list, b, c) = WithNext(hdr, t, b)
    BY <1>0 DEF ListWrite, HdrWrite, WithNext
  <2>3. PICK g : g = WithNext(hdr, t, b)
    OBVIOUS
  <2>4. /\ g \in Headers(Blocks, Classes)
        /\ \A x \in Blocks : g[x].idx = hdr[x].idx
        /\ \A x \in Blocks : g[x].next_offset = IF x = t THEN b ELSE hdr[x].next_offset
    BY <2>3, <1>1, SetNext
  <2>5. Intact(c) => \E m \in Nat : \E s \in [1 .. m -> Own(c) \ {b}] :
          Line(s, m, c, h, t, n) /\ m # 0 /\ s[m] = t /\ (c \notin torn => n <= m)
    BY <1>0, <1>1, <1>2 DEF PushBeforeLink, Lined, Line
  <2>6. c \notin torn => t # b
    BY <2>5 DEF Intact
  <2>7. /\ free_blk_list' = [d \in Classes |-> free_blk_list'[d]]
        /\ \A d \in Classes \ {c} : free_blk_list'[d] = free_blk_list[d]
        /\ free_blk_list'[c] = list
        /\ hdr' = g /\ todo' = Tail(todo) /\ todo # <<>>
        /\ UNCHANGED <<cur_offset, live, ret, wild, arg, crashes, torn>>
    BY <2>1, <2>2, <2>3, WriteEffect
  <2>8. Inside(c)
    BY <2>4, <2>6, <2>7, <1>1, <1>2, InsideIf
  <2>9. Own(c)' = Own(c) /\ (Intact(c)' <=> Intact(c)) /\ torn' = torn
    BY <2>7, <2>8, InsideInv DEF Intact
  <2>10. Intact(c) => \E m \in Nat : \E s \in [1 .. m -> Own(c)' \ {b}] :
           /\ Path(s, m, c, h)' /\ m # 0 /\ s[m] = t /\ hdr'[s[m]].next_offset = b
           /\ c \notin torn' => n <= m
    <3> SUFFICES ASSUME Intact(c)
                 PROVE  \E m \in Nat : \E s \in [1 .. m -> Own(c)' \ {b}] :
                          /\ Path(s, m, c, h)' /\ m # 0 /\ s[m] = t /\ hdr'[s[m]].next_offset = b
                          /\ c \notin torn' => n <= m
      OBVIOUS
    <3>1. PICK m \in Nat : \E s \in [1 .. m -> Own(c) \ {b}] :
            Line(s, m, c, h, t, n) /\ m # 0 /\ s[m] = t /\ (c \notin torn => n <= m)
      BY <2>5
    <3>2. PICK s \in [1 .. m -> Own(c) \ {b}] :
            Line(s, m, c, h, t, n) /\ m # 0 /\ s[m] = t /\ (c \notin torn => n <= m)
      BY <3>1
    <3>3. /\ \A i, j \in 1 .. m : s[i] = s[j] => i = j
          /\ \A i \in 1 .. m - 1 : hdr[s[i]].next_offset = s[i + 1]
          /\ h = s[1] /\ \A i \in 1 .. m : s[i] \in Own(c) /\ s[i] \in Blocks
      BY <3>2, <1>1 DEF Line, Path
    <3>4. \A i \in 1 .. m - 1 : i \in 1 .. m /\ m \in 1 .. m /\ i # m
      BY <3>2
    <3>5. \A i \in 1 .. m - 1 : hdr'[s[i]].next_offset = s[i + 1]
      <4>1. ASSUME NEW i \in 1 .. m - 1 PROVE hdr'[s[i]].next_offset = s[i + 1]
        <5>1. s[i] # t /\ s[i] \in Blocks
          BY <3>2, <3>3, <3>4
        <5> QED
          BY <5>1, <3>3, <2>4, <2>7
      <4> QED
        BY <4>1
    <3>6. Path(s, m, c, h)'
      BY <3>2, <3>3, <3>5, <2>9 DEF Path
    <3>7. hdr'[s[m]].next_offset = b
      BY <3>2, <2>4, <2>7, <1>1, <1>2
    <3> QED
      BY <3>2, <3>6, <3>7, <2>9
  <2>11. PushBeforeTail(c, b, list)'
    BY <2>1, <2>7, <2>9, <2>10, <1>0, <1>2 DEF PushBeforeTail
  <2> QED
    BY <2>7, <2>8, <2>9, <2>11, StageStep DEF Pushing
<1> QED
  BY <1>3, <1>4 DEF PushBeforeLink

(* list->tail_offset = blk: the new block ends the line. *)
LEMMA WritePushBeforeTail ==
  ASSUME CrashInv, write, NEW c \in Classes, c = arg.c, NEW b, b = arg.b,
         NEW list, list = free_blk_list[c], arg.size = 0, b \in Own(c), PushBeforeTail(c, b, list)
  PROVE  CrashInv'
<1>0. PICK h, t, n : h = list.header_offset /\ t = list.tail_offset /\ n = list.size
  OBVIOUS
<1>1. /\ MemoryOK /\ LinksOK /\ hdr \in Headers(Blocks, Classes) /\ list \in ListType(c)
      /\ b \in Blocks /\ b \in Carved(c)
      /\ Own(c) \subseteq Carved(c) /\ Carved(c) \subseteq Blocks
  BY PushFacts
<1>2. Head(todo) = "list->tail=blk" /\ Tail(todo) = <<"blk->next", "list->size++">>
  BY DEF PushBeforeTail
<1>3. PICK L : L = ListWrite("list->tail=blk", list, b)
  OBVIOUS
<1>4. /\ L \in ListType(c) /\ L.header_offset = h /\ L.tail_offset = b /\ L.size = n
      /\ HdrWrite("list->tail=blk", list, b, c) = hdr /\ n \in Nat
  BY <1>0, <1>1, <1>3 DEF ListWrite, HdrWrite, ListType
<1>5. /\ free_blk_list' = [d \in Classes |-> free_blk_list'[d]]
      /\ \A d \in Classes \ {c} : free_blk_list'[d] = free_blk_list[d]
      /\ free_blk_list'[c] = L
      /\ hdr' = hdr /\ todo' = Tail(todo) /\ todo # <<>>
      /\ UNCHANGED <<cur_offset, live, ret, wild, arg, crashes, torn>>
  BY <1>2, <1>3, <1>4, WriteEffect
<1>6. Inside(c)
  BY <1>1, <1>4, <1>5, InsideIf
<1>7. Own(c)' = Own(c) /\ (Intact(c)' <=> Intact(c))
  BY <1>5, <1>6, InsideInv DEF Intact
<1>8. Intact(c) => \E m \in Nat : \E s \in [1 .. m -> Own(c)'] :
        Path(s, m, c, h)' /\ m # 0 /\ s[m] = b /\ (c \notin torn' => n < m)
  <2> SUFFICES ASSUME Intact(c)
               PROVE  \E m \in Nat : \E s \in [1 .. m -> Own(c)'] :
                        Path(s, m, c, h)' /\ m # 0 /\ s[m] = b /\ (c \notin torn' => n < m)
    OBVIOUS
  <2>1. PICK m \in Nat : \E s \in [1 .. m -> Own(c) \ {b}] :
          /\ Path(s, m, c, h) /\ m # 0 /\ s[m] = t /\ hdr[s[m]].next_offset = b
          /\ c \notin torn => n <= m
    BY <1>0 DEF PushBeforeTail
  <2>2. PICK s \in [1 .. m -> Own(c) \ {b}] :
          /\ Path(s, m, c, h) /\ m # 0 /\ s[m] = t /\ hdr[s[m]].next_offset = b
          /\ c \notin torn => n <= m
    BY <2>1
  <2>3. PICK r : r = [i \in 1 .. m + 1 |-> IF i = m + 1 THEN b ELSE s[i]]
    OBVIOUS
  <2>4. /\ \A i \in 1 .. m : r[i] = s[i] /\ i \in 1 .. m + 1 /\ s[i] \in Own(c) /\ s[i] # b
        /\ r[m + 1] = b /\ m + 1 \in 1 .. m + 1
        /\ \A i \in 1 .. m + 1 : i \in 1 .. m \/ i = m + 1
    BY <2>2, <2>3
  <2>5. r \in [1 .. m + 1 -> Own(c)']
    BY <2>3, <2>4, <1>7
  <2>6. \A i, j \in 1 .. m + 1 : r[i] = r[j] => i = j
    BY <2>2, <2>4 DEF Path
  <2>7. \A i \in 1 .. (m + 1) - 1 : hdr'[r[i]].next_offset = r[i + 1]
    <3> SUFFICES ASSUME NEW i \in 1 .. m PROVE hdr[r[i]].next_offset = r[i + 1]
      BY <1>5
    <3>1. CASE i = m
      BY <3>1, <2>2, <2>4
    <3>2. CASE i # m
      <4>1. i \in 1 .. m - 1 /\ i + 1 \in 1 .. m
        BY <3>2
      <4> QED
        BY <4>1, <2>2, <2>4 DEF Path
    <3> QED
      BY <3>1, <3>2
  <2>8. h = r[1] /\ m + 1 # 0 /\ m + 1 \in Nat
    <3>1. 1 \in 1 .. m
      BY <2>2
    <3> QED
      BY <3>1, <2>2, <2>4 DEF Path
  <2>9. Path(r, m + 1, c, h)'
    BY <2>5, <2>6, <2>7, <2>8 DEF Path
  <2>10. c \notin torn' => n < m + 1
    BY <2>2, <1>4, <1>5
  <2> QED
    BY <2>4, <2>5, <2>8, <2>9, <2>10
<1>9. PushBeforeSize(c, b, L)'
  BY <1>2, <1>4, <1>5, <1>7, <1>8 DEF PushBeforeSize
<1> QED
  BY <1>5, <1>6, <1>7, <1>9, StageStep DEF Pushing

(* blk->next_offset = NIL, and list->size++, which makes the line one      *)
(* block longer: the new one, or one that a killed free had left behind.   *)
LEMMA WritePushBeforeSize ==
  ASSUME CrashInv, write, NEW c \in Classes, c = arg.c, NEW b, b = arg.b,
         NEW list, list = free_blk_list[c], arg.size = 0, b \in Own(c), PushBeforeSize(c, b, list)
  PROVE  CrashInv'
<1>0. PICK h, t, n : h = list.header_offset /\ t = list.tail_offset /\ n = list.size
  OBVIOUS
<1>1. /\ MemoryOK /\ LinksOK /\ hdr \in Headers(Blocks, Classes) /\ list \in ListType(c)
      /\ b \in Blocks /\ b \in Carved(c) /\ hdr[b].idx = c /\ b # NIL /\ NIL \in Blocks \cup {NIL}
      /\ Own(c) \subseteq Carved(c) /\ Carved(c) \subseteq Blocks /\ t = b /\ n \in Nat
  BY <1>0, PushFacts DEF PushBeforeSize, ListType
<1>2. Intact(c) => \E m \in Nat : \E s \in [1 .. m -> Own(c)] :
        Path(s, m, c, h) /\ m # 0 /\ s[m] = b /\ (c \notin torn => n < m)
  BY <1>0 DEF PushBeforeSize
<1>3. CASE todo = <<"blk->next", "list->size++">>
  <2>1. Head(todo) = "blk->next" /\ Tail(todo) = <<"list->size++">>
    BY <1>3
  <2>2. /\ ListWrite("blk->next", list, b) = list
        /\ HdrWrite("blk->next", list, b, c) = WithNext(hdr, b, NIL)
    BY DEF ListWrite, HdrWrite, WithNext
  <2>3. PICK g : g = WithNext(hdr, b, NIL)
    OBVIOUS
  <2>4. /\ g \in Headers(Blocks, Classes)
        /\ \A x \in Blocks : g[x].idx = hdr[x].idx
        /\ \A x \in Blocks : g[x].next_offset = IF x = b THEN NIL ELSE hdr[x].next_offset
    BY <2>3, <1>1, SetNext
  <2>5. /\ free_blk_list' = [d \in Classes |-> free_blk_list'[d]]
        /\ \A d \in Classes \ {c} : free_blk_list'[d] = free_blk_list[d]
        /\ free_blk_list'[c] = list
        /\ hdr' = g /\ todo' = Tail(todo) /\ todo # <<>>
        /\ UNCHANGED <<cur_offset, live, ret, wild, arg, crashes, torn>>
    BY <2>1, <2>2, <2>3, WriteEffect
  <2>6. Inside(c)
    BY <2>4, <2>5, <1>1, InsideIf
  <2>7. Own(c)' = Own(c) /\ (Intact(c)' <=> Intact(c))
    BY <2>5, <2>6, InsideInv DEF Intact
  <2>8. Intact(c) => \E m \in Nat : \E s \in [1 .. m -> Own(c)'] :
          Path(s, m, c, h)' /\ m # 0 /\ s[m] = b /\ (c \notin torn' => n < m)
    <3> SUFFICES ASSUME Intact(c)
                 PROVE  \E m \in Nat : \E s \in [1 .. m -> Own(c)'] :
                          Path(s, m, c, h)' /\ m # 0 /\ s[m] = b /\ (c \notin torn' => n < m)
      OBVIOUS
    <3>1. PICK m \in Nat : \E s \in [1 .. m -> Own(c)] :
            Path(s, m, c, h) /\ m # 0 /\ s[m] = b /\ (c \notin torn => n < m)
      BY <1>2
    <3>2. PICK s \in [1 .. m -> Own(c)] :
            Path(s, m, c, h) /\ m # 0 /\ s[m] = b /\ (c \notin torn => n < m)
      BY <3>1
    <3>3. \A i \in 1 .. m - 1 : i \in 1 .. m /\ m \in 1 .. m /\ i # m
      BY <3>2
    <3>4. \A i \in 1 .. m - 1 : hdr'[s[i]].next_offset = s[i + 1]
      BY <3>2, <3>3, <2>4, <2>5, <1>1 DEF Path
    <3>5. Path(s, m, c, h)'
      BY <3>2, <3>4, <2>7 DEF Path
    <3> QED
      BY <3>2, <3>5, <2>5, <2>7
  <2>9. hdr'[b].next_offset = NIL
    BY <2>4, <2>5, <1>1
  <2>10. PushBeforeSize(c, b, list)'
    BY <2>1, <2>5, <2>7, <2>8, <2>9, <1>0, <1>1 DEF PushBeforeSize
  <2> QED
    BY <2>5, <2>6, <2>7, <2>10, StageStep DEF Pushing
<1>4. CASE todo = <<"list->size++">> /\ hdr[b].next_offset = NIL
  <2>1. Head(todo) = "list->size++" /\ Tail(todo) = <<>>
    BY <1>4
  <2>2. PICK L : L = ListWrite("list->size++", list, b)
    OBVIOUS
  <2>3. /\ L \in ListType(c) /\ L.header_offset = h /\ L.tail_offset = b /\ L.size = n + 1
        /\ HdrWrite("list->size++", list, b, c) = hdr
    <3>1. L = [list EXCEPT !.size = n + 1] /\ HdrWrite("list->size++", list, b, c) = hdr
      BY <2>2, <1>0 DEF ListWrite, HdrWrite
    <3>2. n + 1 \in Nat
      BY <1>1
    <3> QED
      BY <3>1, <3>2, <1>0, <1>1 DEF ListType
  <2>4. /\ free_blk_list' = [d \in Classes |-> free_blk_list'[d]]
        /\ \A d \in Classes \ {c} : free_blk_list'[d] = free_blk_list[d]
        /\ free_blk_list'[c] = L
        /\ hdr' = hdr /\ todo' = Tail(todo) /\ todo # <<>>
        /\ UNCHANGED <<cur_offset, live, ret, wild, arg, crashes, torn>>
    BY <2>1, <2>2, <2>3, WriteEffect
  <2>5. Inside(c)
    BY <2>3, <2>4, <1>1, InsideIf
  <2>6. (\A d : Own(d)' = Own(d)) /\ (Intact(c)' <=> Intact(c))
    BY <2>4, <2>5, InsideInv DEF Intact
  <2>7. Intact(c) => Lined({}, c, h, b, n + 1)'
    <3> SUFFICES ASSUME Intact(c) PROVE Lined({}, c, h, b, n + 1)'
      OBVIOUS
    <3>1. PICK m \in Nat : \E s \in [1 .. m -> Own(c)] :
            Path(s, m, c, h) /\ m # 0 /\ s[m] = b /\ (c \notin torn => n < m)
      BY <1>2
    <3>2. PICK s \in [1 .. m -> Own(c)] :
            Path(s, m, c, h) /\ m # 0 /\ s[m] = b /\ (c \notin torn => n < m)
      BY <3>1
    <3>3. Path(s, m, c, h)'
      BY <3>2, <2>4, <2>6 DEF Path
    <3>4. Line(s, m, c, h, b, n + 1)'
      BY <3>2, <3>3, <2>4, <1>1, <1>4 DEF Line
    <3>5. s \in [1 .. m -> Own(c)' \ {}]
      BY <2>6
    <3> QED
      BY <3>4, <3>5 DEF Lined
  <2>8. Intact(c)' => ListOK(c)'
    BY <2>3, <2>4, <2>6, <2>7 DEF ListOK
  <2>9. CallOK' /\ ListsOK'
    BY <2>1, <2>4, <2>5, <2>8, InsideInv DEF CallOK, ListsOK
  <2> QED
    BY <2>4, <2>5, <2>9, InsideInv DEF CrashInv
<1> QED
  BY <1>3, <1>4 DEF PushBeforeSize

(* A list keeps its line when its blocks stay free and keep their links. *)
LEMMA ListFrame ==
  ASSUME NEW d, ListOK(d), free_blk_list'[d] = free_blk_list[d],
         \A x \in Own(d) : x \in Own(d)' /\ hdr'[x].next_offset = hdr[x].next_offset,
         d \notin torn' => d \notin torn, Ends(d)' => Ends(d)
  PROVE  ListOK(d)'
<1>1. PICK list : list = free_blk_list[d]
  OBVIOUS
<1>2. list.size # 0 \/ Ends(d) => Lined({}, d, list.header_offset, list.tail_offset, list.size)
  BY <1>1 DEF ListOK
<1>3. PICK h, t, n : h = list.header_offset /\ t = list.tail_offset /\ n = list.size
  OBVIOUS
<1>4. list.size # 0 \/ Ends(d) => Lined({}, d, h, t, n)'
  <2>1. \A x \in Own(d) \ {} : x \in Own(d)' \ {} /\ hdr'[x].next_offset = hdr[x].next_offset
    OBVIOUS
  <2> QED
    BY <2>1, <1>2, <1>3, LinedFrame
<1> QED
  BY <1>1, <1>3, <1>4 DEF ListOK

(* The last write of a malloc: the caller holds the block from now on.     *)
LEMMA LastWrite ==
  ASSUME CrashInv, write, NEW c \in Classes, c = arg.c, NEW b, b = arg.b,
         NEW list, list = free_blk_list[c], NEW w, todo = <<w>>, arg.size # 0
  PROVE  /\ free_blk_list' = [d \in Classes |-> free_blk_list'[d]]
         /\ \A d \in Classes \ {c} : free_blk_list'[d] = free_blk_list[d]
         /\ free_blk_list'[c] = ListWrite(w, list, b)
         /\ hdr' = HdrWrite(w, list, b, c)
         /\ cur_offset' = IF w = "cur_offset" THEN cur_offset + blk_size(c) ELSE cur_offset
         /\ Hold(b, arg.size) /\ todo' = <<>> /\ ~wild
         /\ UNCHANGED <<wild, arg, crashes, torn>>
<1>1. Head(todo) = w /\ Tail(todo) = <<>> /\ Len(todo) = 1 /\ todo # <<>>
  OBVIOUS
<1> QED
  BY <1>1 DEF write, Hold, set_cur_ptr_offset, CrashInv, MemoryOK, TypeOK, KillsOK

(* list->size-- returns the unlinked block to the caller. *)
LEMMA WritePopBeforeSize ==
  ASSUME CrashInv, write, NEW c \in Classes, c = arg.c, NEW b, b = arg.b,
         NEW list, list = free_blk_list[c],
         arg.size \in Sizes \ {0}, free_list_idx(arg.size) = c,
         b \in Carved(c), list.size # 0, Intact(c) => b \notin DOMAIN live,
         PopBeforeSize(c, b, list)
  PROVE  CrashInv'
<1>1. /\ MemoryOK /\ LinksOK /\ KillsOK /\ list \in ListType(c)
      /\ b \in Blocks /\ hdr[b].idx = c /\ b < cur_offset /\ b # NIL
      /\ Own(c) \subseteq Carved(c) /\ Carved(c) \subseteq Blocks
  BY ListTyped, NoNil DEF CrashInv, Carved
<1>2. todo = <<"list->size--">>
  BY DEF PopBeforeSize
<1>3. PICK L : L = ListWrite("list->size--", list, b)
  OBVIOUS
<1>4. /\ L \in ListType(c) /\ L.header_offset = list.header_offset
      /\ L.tail_offset = list.tail_offset /\ L.size = list.size - 1
      /\ HdrWrite("list->size--", list, b, c) = hdr
  <2>1. L = [list EXCEPT !.size = list.size - 1] /\ HdrWrite("list->size--", list, b, c) = hdr
    BY <1>3 DEF ListWrite, HdrWrite
  <2>2. list.size - 1 \in Nat
    BY <1>1 DEF ListType
  <2> QED
    BY <2>1, <2>2, <1>1 DEF ListType
<1>5. /\ free_blk_list' = [d \in Classes |-> free_blk_list'[d]]
      /\ \A d \in Classes \ {c} : free_blk_list'[d] = free_blk_list[d]
      /\ free_blk_list'[c] = L
      /\ hdr' = hdr /\ cur_offset' = cur_offset
      /\ Hold(b, arg.size) /\ todo' = <<>> /\ ~wild
      /\ UNCHANGED <<wild, arg, crashes, torn>>
  BY <1>2, <1>3, <1>4, LastWrite
<1>0. /\ live' = [x \in DOMAIN live \cup {b} |-> IF x = b THEN arg.size ELSE live[x]]
      /\ ret' = b
  BY <1>5 DEF Hold
<1>6. /\ Blocks' = Blocks /\ \A d : Carved(d)' = Carved(d)
      /\ DOMAIN live' = DOMAIN live \cup {b}
      /\ \A d : Own(d)' = Own(d) \ {b}
  BY <1>0, <1>5 DEF Blocks, Carved, Own
<1>7. \A d \in Classes : (Intact(d)' <=> Intact(d)) /\ (Ends(d)' <=> Ends(d))
  BY <1>5 DEF Intact, Ends
<1>8. MemoryOK'
  <2>1. TypeOK'
    <3>1. L \in [header_offset : Blocks \cup {NIL}, tail_offset : Blocks \cup {NIL}, size : Nat]
      BY <1>1, <1>4 DEF ListType
    <3>2. ASSUME NEW d \in Classes
          PROVE  free_blk_list'[d] \in [header_offset : Blocks \cup {NIL},
                                       tail_offset : Blocks \cup {NIL}, size : Nat]
      BY <1>1, <1>5, <3>1 DEF MemoryOK, TypeOK
    <3>3. free_blk_list' \in [Classes -> [header_offset : Blocks' \cup {NIL},
                                          tail_offset : Blocks' \cup {NIL}, size : Nat]]
      BY <3>2, <1>5, <1>6
    <3>4. live' \in [DOMAIN live' -> Sizes] /\ DOMAIN live' \subseteq Blocks'
      BY <1>0, <1>1, <1>5, <1>6 DEF MemoryOK, TypeOK
    <3> QED
      BY <3>3, <3>4, <1>0, <1>1, <1>5, <1>6 DEF MemoryOK, TypeOK
  <2>2. Fits'
    <3>1. arg.size \in Capacity(c) - 7 .. Capacity(c)
      BY IdxFits, PoolAssumption
    <3>2. live'[b] = arg.size /\ \A x \in DOMAIN live' : x = b \/ (x \in DOMAIN live /\ live'[x] = live[x])
      BY <1>0, <1>5, <1>6
    <3> QED
      BY <3>1, <3>2, <1>1, <1>5 DEF Fits, MemoryOK
  <2>3. \A x \in Blocks : End(x)' = End(x)
    BY <1>5 DEF End, blk_size
  <2> QED
    BY <2>1, <2>2, <2>3, <1>1, <1>5, <1>6 DEF MemoryOK
<1>9. LinksOK'
  <2>1. ASSUME NEW d \in Classes
        PROVE  /\ free_blk_list'[d].header_offset \in Carved(d)' \cup {NIL}
               /\ free_blk_list'[d].tail_offset \in Carved(d)' \cup {NIL}
    BY <1>1, <1>4, <1>5, <1>6 DEF LinksOK, ListType
  <2>2. ASSUME NEW d \in Classes, NEW x \in Blocks, hdr[x].idx = d
        PROVE  hdr[x].next_offset \in Carved(d)' \cup {NIL} /\ (d \notin torn => hdr[x].next_offset # x)
    BY <1>1, <1>6, <2>2 DEF LinksOK
  <2> QED
    BY <2>1, <2>2, <1>5, <1>6 DEF LinksOK
<1>10. ASSUME NEW d \in Classes \ {c}, Intact(d) PROVE ListOK(d)'
  <2>1. ListOK(d)
    BY <1>10 DEF CrashInv, ListsOK, Busy
  <2>2. b \notin Own(d)
    BY <1>1 DEF Own, Carved
  <2> QED
    BY <2>1, <2>2, <1>5, <1>6, <1>7, ListFrame
<1>11. ASSUME Intact(c) PROVE ListOK(c)'
  <2>1. PICK h, t, n : h = list.header_offset /\ t = list.tail_offset /\ n = list.size
    OBVIOUS
  <2>2. n # 1 \/ Ends(c) => Lined({b}, c, h, t, n - 1)
    BY <1>11, <2>1 DEF PopBeforeSize
  <2>3. \A x \in Own(c) \ {b} : x \in Own(c)' \ {} /\ hdr'[x].next_offset = hdr[x].next_offset
    BY <1>5, <1>6
  <2>4. n # 1 \/ Ends(c) => Lined({}, c, h, t, n - 1)'
    BY <2>2, <2>3, <1>5, <1>7, LinedFrame
  <2>5. n \in Nat
    BY <2>1, <1>1 DEF ListType
  <2> QED
    BY <2>1, <2>4, <2>5, <1>4, <1>5, <1>7 DEF ListOK
<1>12. CallOK' /\ ListsOK' /\ KillsOK'
  BY <1>1, <1>5, <1>7, <1>10, <1>11 DEF CallOK, ListsOK, KillsOK
<1> QED
  BY <1>8, <1>9, <1>12 DEF CrashInv

(* hdr->idx is written beyond the blocks there are, or over the header     *)
(* that a killed malloc left there: no list and no caller knows it.        *)
LEMMA WriteCarveHeader ==
  ASSUME CrashInv, write, NEW c \in Classes, c = arg.c, NEW b, b = arg.b,
         NEW list, list = free_blk_list[c],
         arg.size \in Sizes \ {0}, free_list_idx(arg.size) = c,
         Carving(c, b, list), todo = carve_writes
  PROVE  CrashInv'
<1>1. /\ MemoryOK /\ LinksOK /\ KillsOK /\ list \in ListType(c) /\ b = cur_offset
      /\ b \in 1 .. POOL_SIZE /\ b \notin DOMAIN live /\ NIL # b
      /\ \A d : b \notin Carved(d) /\ NIL \notin Carved(d)
  BY ListTyped, NoNil, PoolAssumption DEF CrashInv, Carving, MemoryOK, TypeOK, Carved, NIL
<1>2. Head(todo) = "hdr->idx" /\ Tail(todo) = <<"cur_offset">> /\ Len(todo) = 2
  BY DEF carve_writes
<1>3. PICK g : g = HdrWrite("hdr->idx", list, b, c)
  OBVIOUS
<1>4. PICK new : new = [next_offset |-> NIL, prev_offset |-> NIL, idx |-> c]
  OBVIOUS
<1>5. /\ g = [x \in Blocks \cup {b} |-> IF x = b THEN new ELSE hdr[x]]
      /\ ListWrite("hdr->idx", list, b) = list
  BY <1>3, <1>4 DEF ListWrite, HdrWrite
<1>6. /\ free_blk_list' = [d \in Classes |-> free_blk_list'[d]]
      /\ \A d \in Classes \ {c} : free_blk_list'[d] = free_blk_list[d]
      /\ free_blk_list'[c] = list
      /\ hdr' = g /\ todo' = Tail(todo) /\ todo # <<>>
      /\ UNCHANGED <<cur_offset, live, ret, wild, arg, crashes, torn>>
  BY <1>2, <1>3, <1>5, WriteEffect
<1>7. free_blk_list' = free_blk_list
  BY <1>6 DEF CrashInv, MemoryOK, TypeOK
<1>8. /\ Blocks' = Blocks \cup {b} /\ hdr'[b] = new
      /\ \A x \in Blocks : x # b => hdr'[x] = hdr[x]
      /\ new.idx = c /\ new.next_offset = NIL
  BY <1>4, <1>5, <1>6 DEF Blocks
<1>9. (\A d : Carved(d)' = Carved(d)) /\ \A d : Own(d)' = Own(d)
  <2>1. \A d : Carved(d)' = Carved(d)
    BY <1>1, <1>6, <1>8 DEF Carved
  <2> QED
    BY <2>1, <1>6 DEF Own
<1>10. MemoryOK'
  <2>1. TypeOK'
    <3>1. hdr' \in [Blocks' -> [next_offset : Blocks' \cup {NIL},
                               prev_offset : Blocks' \cup {NIL}, idx : Classes]]
      BY <1>4, <1>5, <1>6, <1>8 DEF CrashInv, MemoryOK, TypeOK
    <3> QED
      BY <3>1, <1>1, <1>6, <1>7, <1>8 DEF CrashInv, MemoryOK, TypeOK
  <2>2. \A x \in Blocks : x # b => End(x)' = End(x)
    BY <1>8 DEF End, blk_size
  <2>3. Fits'
    BY <1>1, <1>6, <1>8 DEF CrashInv, MemoryOK, TypeOK, Fits
  <2>4. ASSUME NEW x \in Blocks', NEW y \in Blocks', x < y
        PROVE  End(x)' <= y
    <3>1. x \in Blocks /\ x # b
      BY <2>4, <1>1, <1>8 DEF MemoryOK, TypeOK
    <3>2. CASE y = b
      BY <3>1, <3>2, <2>2, <2>4, <1>1 DEF MemoryOK
    <3>3. CASE y # b
      BY <3>1, <3>3, <2>2, <2>4, <1>1, <1>8 DEF MemoryOK
    <3> QED
      BY <3>2, <3>3
  <2>5. ASSUME NEW x \in Blocks'
        PROVE  x <= cur_offset' /\ (x < cur_offset' => End(x)' <= cur_offset')
    BY <2>2, <1>1, <1>6, <1>8 DEF MemoryOK
  <2> QED
    BY <2>1, <2>3, <2>4, <2>5, <1>1, <1>6 DEF MemoryOK
<1>11. LinksOK'
  <2>1. ASSUME NEW d \in Classes, NEW x \in Blocks', hdr'[x].idx = d
        PROVE  /\ hdr'[x].next_offset \in Carved(d)' \cup {NIL}
               /\ d \notin torn' => hdr'[x].next_offset # x
    <3>1. CASE x = b
      BY <3>1, <1>1, <1>8
    <3>2. CASE x # b
      BY <3>2, <2>1, <1>1, <1>6, <1>8, <1>9 DEF LinksOK
    <3> QED
      BY <3>1, <3>2
  <2> QED
    BY <2>1, <1>1, <1>7, <1>9 DEF LinksOK
<1>12. Carving(c, b, list)'
  BY <1>2, <1>6, <1>8 DEF Carving
<1>13. CallOK'
  BY <1>6, <1>12 DEF CallOK
<1>14. ASSUME NEW d \in Classes, Intact(d)' PROVE ListOK(d)'
  <2>1. Intact(d) /\ (Ends(d)' <=> Ends(d)) /\ torn' = torn
    BY <1>14, <1>6 DEF Intact, Ends
  <2>2. ListOK(d)
    BY <2>1 DEF CrashInv, ListsOK, Busy, carve_writes
  <2>3. \A x \in Own(d) : x \in Own(d)' /\ hdr'[x].next_offset = hdr[x].next_offset
    BY <1>1, <1>8, <1>9 DEF Own, Carved
  <2> QED
    BY <2>1, <2>2, <2>3, <1>7, ListFrame
<1> QED
  BY <1>1, <1>6, <1>10, <1>11, <1>13, <1>14 DEF CrashInv, KillsOK, ListsOK

(* cur_offset moves past the new block, which is the caller's from now on. *)
LEMMA WriteCarveEnd ==
  ASSUME CrashInv, write, NEW c \in Classes, c = arg.c, NEW b, b = arg.b,
         NEW list, list = free_blk_list[c],
         arg.size \in Sizes \ {0}, free_list_idx(arg.size) = c,
         Carving(c, b, list), todo = <<"cur_offset">>
  PROVE  CrashInv'
<1>1. /\ MemoryOK /\ LinksOK /\ KillsOK /\ b = cur_offset /\ b \in Blocks /\ hdr[b].idx = c
      /\ b \in 1 .. POOL_SIZE /\ b \notin DOMAIN live
      /\ \A d : b \notin Carved(d)
      /\ blk_size(c) \in Nat \ {0} /\ cur_offset + blk_size(c) <= POOL_SIZE
  <2>1. blk_size(c) \in Nat \ {0}
    BY PoolAssumption DEF blk_size, Capacity, Classes
  <2> QED
    BY <2>1 DEF CrashInv, Carving, MemoryOK, TypeOK, Carved
<1>2. /\ ListWrite("cur_offset", list, b) = list
      /\ HdrWrite("cur_offset", list, b, c) = hdr
  BY DEF ListWrite, HdrWrite
<1>3. /\ free_blk_list' = [d \in Classes |-> free_blk_list'[d]]
      /\ \A d \in Classes \ {c} : free_blk_list'[d] = free_blk_list[d]
      /\ free_blk_list'[c] = list
      /\ hdr' = hdr /\ cur_offset' = cur_offset + blk_size(c)
      /\ Hold(b, arg.size) /\ todo' = <<>> /\ ~wild
      /\ UNCHANGED <<wild, arg, crashes, torn>>
  BY <1>2, LastWrite
<1>4. /\ free_blk_list' = free_blk_list
      /\ live' = [x \in DOMAIN live \cup {b} |-> IF x = b THEN arg.size ELSE live[x]]
      /\ ret' = b
  BY <1>3 DEF Hold, CrashInv, MemoryOK, TypeOK
<1>5. /\ Blocks' = Blocks /\ DOMAIN live' = DOMAIN live \cup {b}
      /\ \A x \in Blocks : x # b => x < cur_offset
      /\ cur_offset' \in 1 .. POOL_SIZE /\ cur_offset < cur_offset'
  BY <1>1, <1>3, <1>4 DEF MemoryOK, TypeOK, Blocks
<1>6. \A d : Carved(d) \subseteq Carved(d)' /\ Own(d)' = Own(d)
  <2>1. \A d : \A x : x \in Carved(d)' <=> x \in Carved(d) \/ (x = b /\ d = c)
    BY <1>1, <1>3, <1>5 DEF Carved, MemoryOK, TypeOK
  <2> QED
    BY <2>1, <1>1, <1>5 DEF Own
<1>7. MemoryOK'
  <2>1. TypeOK'
    <3>1. live' \in [DOMAIN live' -> Sizes] /\ DOMAIN live' \subseteq Blocks'
      BY <1>1, <1>4, <1>5 DEF MemoryOK, TypeOK
    <3> QED
      BY <3>1, <1>1, <1>3, <1>4, <1>5 DEF MemoryOK, TypeOK
  <2>2. Fits'
    <3>1. arg.size \in Capacity(c) - 7 .. Capacity(c)
      BY IdxFits, PoolAssumption
    <3>2. live'[b] = arg.size /\ \A x \in DOMAIN live' : x = b \/ (x \in DOMAIN live /\ live'[x] = live[x])
      BY <1>4, <1>5
    <3> QED
      BY <3>1, <3>2, <1>1, <1>3 DEF Fits, MemoryOK
  <2>3. (\A x \in Blocks : End(x)' = End(x) /\ End(x) \in Int) /\ End(b)' = cur_offset'
    <3>1. \A x \in Blocks : blk_size(hdr[x].idx) \in Nat /\ x \in Int
      <4>1. \A d \in Classes : blk_size(d) \in Nat
        BY PoolAssumption DEF blk_size, Capacity, Classes
      <4> QED
        BY <4>1, <1>1 DEF MemoryOK, TypeOK
    <3> QED
      BY <3>1, <1>1, <1>3 DEF End, blk_size
  <2>4. ASSUME NEW x \in Blocks
        PROVE  x <= cur_offset' /\ (x < cur_offset' => End(x)' <= cur_offset')
    <3>1. CASE x = b
      BY <3>1, <2>3, <1>1, <1>5
    <3>2. CASE x # b
      BY <3>2, <2>3, <1>1, <1>5 DEF MemoryOK, TypeOK
    <3> QED
      BY <3>1, <3>2
  <2>5. \A x, y \in Blocks' : x < y => End(x)' <= y
    BY <2>3, <1>1, <1>5 DEF MemoryOK
  <2>6. \A x \in DOMAIN live' : x < cur_offset'
    BY <1>1, <1>5 DEF MemoryOK, TypeOK
  <2> QED
    BY <2>1, <2>2, <2>4, <2>5, <2>6, <1>5 DEF MemoryOK
<1>8. LinksOK'
  <2>1. ASSUME NEW d \in Classes, NEW x \in Blocks, hdr[x].idx = d
        PROVE  hdr[x].next_offset \in Carved(d)' \cup {NIL} /\ (d \notin torn => hdr[x].next_offset # x)
    BY <1>1, <1>6, <2>1 DEF LinksOK
  <2>2. ASSUME NEW d \in Classes
        PROVE  /\ free_blk_list[d].header_offset \in Carved(d)' \cup {NIL}
               /\ free_blk_list[d].tail_offset \in Carved(d)' \cup {NIL}
    BY <1>1, <1>6 DEF LinksOK
  <2> QED
    BY <2>1, <2>2, <1>3, <1>4, <1>5 DEF LinksOK
<1>9. ASSUME NEW d \in Classes, Intact(d)' PROVE ListOK(d)'
  <2>1. Intact(d) /\ (Ends(d)' <=> Ends(d)) /\ torn' = torn
    BY <1>9, <1>3 DEF Intact, Ends
  <2>2. ListOK(d)
    BY <2>1 DEF CrashInv, ListsOK, Busy
  <2> QED
    BY <2>1, <2>2, <1>3, <1>4, <1>6, ListFrame
<1> QED
  BY <1>1, <1>3, <1>7, <1>8, <1>9 DEF CrashInv, CallOK, KillsOK, ListsOK

(* Every write of a call in progress keeps the invariant. *)
LEMMA WriteCrashInv ==
  ASSUME CrashInv, write
  PROVE  CrashInv'
<1>1. PICK c, b, list : c = arg.c /\ b = arg.b /\ list = free_blk_list[c]
  OBVIOUS
<1>2. /\ c \in Classes
      /\ \/ /\ arg.size = 0
            /\ Pushing(c, b, list)
         \/ /\ arg.size \in Sizes \ {0} /\ free_list_idx(arg.size) = c
            /\ Carving(c, b, list) \/ Popping(c, b, list)
  BY <1>1 DEF CrashInv, CallOK, write
<1>3. CASE arg.size = 0 /\ Pushing(c, b, list)
  <2>1. CASE PushOnEmpty(c, b, list)
    BY <1>1, <1>2, <1>3, <2>1, WritePushOnEmpty DEF Pushing
  <2>2. CASE PushBeforeLink(c, b, list)
    BY <1>1, <1>2, <1>3, <2>2, WritePushBeforeLink DEF Pushing
  <2>3. CASE PushBeforeTail(c, b, list)
    BY <1>1, <1>2, <1>3, <2>3, WritePushBeforeTail DEF Pushing
  <2>4. CASE PushBeforeSize(c, b, list)
    BY <1>1, <1>2, <1>3, <2>4, WritePushBeforeSize DEF Pushing
  <2> QED
    BY <1>3, <2>1, <2>2, <2>3, <2>4 DEF Pushing
<1>4. CASE /\ arg.size \in Sizes \ {0} /\ free_list_idx(arg.size) = c
           /\ Carving(c, b, list)
  <2>1. CASE todo = carve_writes
    BY <1>1, <1>2, <1>4, <2>1, WriteCarveHeader
  <2>2. CASE todo = <<"cur_offset">>
    BY <1>1, <1>2, <1>4, <2>2, WriteCarveEnd
  <2> QED
    BY <1>4, <2>1, <2>2 DEF Carving
<1>5. CASE /\ arg.size \in Sizes \ {0} /\ free_list_idx(arg.size) = c
           /\ Popping(c, b, list)
  <2>0. b \in Carved(c) /\ list.size # 0 /\ (Intact(c) => b \notin DOMAIN live)
    BY <1>5 DEF Popping
  <2>1. CASE PopBegun(c, b, list)
    BY <1>1, <1>2, <1>5, <2>0, <2>1, WritePopBegun
  <2>2. CASE PopBeforeHeader(c, b, list)
    BY <1>1, <1>2, <1>5, <2>0, <2>2, WritePopBeforeHeader
  <2>3. CASE PopBeforeSize(c, b, list)
    BY <1>1, <1>2, <1>5, <2>0, <2>3, WritePopBeforeSize
  <2> QED
    BY <1>5, <2>1, <2>2, <2>3 DEF Popping
<1> QED
  BY <1>2, <1>3, <1>4, <1>5

(* A call that found NIL where its list should have a block: the list was  *)
(* torn.                                                                   *)
LEMMA UseNil ==
  ASSUME CrashInv, todo = <<>>, NEW c \in Classes, free_blk_list[c].size # 0,
         free_blk_list[c].header_offset = NIL \/ free_blk_list[c].tail_offset = NIL
  PROVE  c \in torn
<1>1. PICK h, t, n : /\ h = free_blk_list[c].header_offset
                     /\ t = free_blk_list[c].tail_offset
                     /\ n = free_blk_list[c].size
  OBVIOUS
<1>2. SUFFICES ASSUME c \notin torn PROVE FALSE
  OBVIOUS
<1>3. Lined({}, c, h, t, n)
  BY <1>1, <1>2 DEF CrashInv, ListsOK, Intact, Busy, ListOK
<1>4. PICK m \in Nat : \E s \in [1 .. m -> Own(c) \ {}] : Line(s, m, c, h, t, n)
  BY <1>3 DEF Lined
<1>5. PICK s \in [1 .. m -> Own(c) \ {}] : Line(s, m, c, h, t, n)
  BY <1>4
<1>6. t # NIL /\ m # 0 /\ h = s[1] /\ s[1] \in Own(c)
  BY <1>1, <1>2, <1>5 DEF Line, Path
<1> QED
  BY <1>1, <1>6, NoNil DEF CrashInv

(* The call that uses offset 0 as a block, which only a torn list makes    *)
(* possible, keeps the invariant.                                          *)
LEMMA UseNilCrashInv ==
  ASSUME CrashInv, Idle, NEW c \in Classes, free_blk_list[c].size # 0,
         free_blk_list[c].header_offset = NIL \/ free_blk_list[c].tail_offset = NIL,
         use_nil_offset
  PROVE  CrashInv'
<1>1. c \in torn
  BY UseNil DEF Idle
<1>2. /\ UNCHANGED <<free_blk_list, cur_offset, hdr, live, ret, todo, arg, crashes, torn>>
      /\ wild' = TRUE /\ todo = <<>>
  BY DEF use_nil_offset, Idle
<1>3. MemoryOK'
  BY <1>2 DEF CrashInv, MemoryOK, TypeOK, Blocks, End, Fits
<1>4. LinksOK' /\ KillsOK' /\ CallOK'
  BY <1>1, <1>2 DEF CrashInv, LinksOK, KillsOK, CallOK, Carved, Blocks
<1>5. ASSUME NEW d \in Classes, Intact(d) PROVE ListOK(d)'
  <2>1. ListOK(d)
    BY <1>2, <1>5 DEF CrashInv, ListsOK, Busy
  <2> QED
    BY <2>1, <1>2, ListFrame DEF Own, Carved, Blocks, Ends
<1> QED
  BY <1>2, <1>3, <1>4, <1>5 DEF CrashInv, ListsOK, Intact

(* The start of a call changes no list and no header, so that the lists of *)
(* the classes whose free blocks it leaves alone stay as they were.        *)
LEMMA BeginFrame ==
  ASSUME CrashInv, Idle, NEW c, NEW b, NEW size, NEW writes, begin(c, b, size, writes),
         \/ UNCHANGED live
         \/ b \in DOMAIN live /\ live' = [x \in DOMAIN live \ {b} |-> live[x]]
  PROVE  /\ MemoryOK' /\ LinksOK' /\ KillsOK'
         /\ \A d : Carved(d)' = Carved(d) /\ Own(d) \subseteq Own(d)'
         /\ \A d \in Classes : (Ends(d)' <=> Ends(d)) /\ (Intact(d)' <=> Intact(d))
         /\ \A d \in Classes : Intact(d)' => ListOK(d)'
<1>1. /\ UNCHANGED <<free_blk_list, cur_offset, hdr, ret, wild, crashes, torn>>
      /\ Blocks' = Blocks /\ todo = <<>> /\ ~wild
  BY DEF begin, Idle, Blocks
<1>2. DOMAIN live' \subseteq DOMAIN live /\ \A x \in DOMAIN live' : live'[x] = live[x]
  OBVIOUS
<1>3. MemoryOK'
  <2>1. TypeOK'
    <3>1. live' \in [DOMAIN live' -> Sizes] /\ DOMAIN live' \subseteq Blocks'
      BY <1>1 DEF CrashInv, MemoryOK, TypeOK
    <3> QED
      BY <3>1, <1>1 DEF CrashInv, MemoryOK, TypeOK
  <2>2. Fits'
    BY <1>1, <1>2 DEF CrashInv, MemoryOK, Fits
  <2> QED
    BY <2>1, <2>2, <1>1, <1>2 DEF CrashInv, MemoryOK, End
<1>4. \A d : Carved(d)' = Carved(d) /\ Own(d) \subseteq Own(d)'
  BY <1>1, <1>2 DEF Carved, Own
<1>5. LinksOK' /\ KillsOK'
  BY <1>1, <1>4 DEF CrashInv, LinksOK, KillsOK
<1>6. \A d \in Classes : (Ends(d)' <=> Ends(d)) /\ (Intact(d)' <=> Intact(d))
  BY <1>1 DEF Ends, Intact
<1>7. ASSUME NEW d \in Classes, Intact(d)' PROVE ListOK(d)'
  <2>1. ListOK(d)
    BY <1>1, <1>6, <1>7 DEF CrashInv, ListsOK, Busy
  <2>2. \A x \in Own(d) : x \in Own(d)' /\ hdr'[x].next_offset = hdr[x].next_offset
    BY <1>1, <1>4
  <2> QED
    BY <2>1, <2>2, <1>1, <1>6, ListFrame
<1> QED
  BY <1>3, <1>4, <1>5, <1>6, <1>7

(* touchdb_pool_malloc starts: it carves, or unlinks the header node.      *)
LEMMA BeginMallocCrashInv ==
  ASSUME CrashInv, NEW size \in Sizes, begin_malloc(size)
  PROVE  CrashInv'
<1>1. PICK c, list, b : c = free_list_idx(size) /\ list = free_blk_list[c] /\ b = list.header_offset
  OBVIOUS
<1>2. /\ Idle /\ todo = <<>> /\ c \in Classes /\ MemoryOK /\ LinksOK
      /\ list \in ListType(c) /\ size # 0
  <2>1. free_list_idx(0) = -1
    BY DEF free_list_idx
  <2> QED
    BY <1>1, <2>1, ListTyped DEF begin_malloc, Idle, CrashInv, Classes
<1>3. CASE /\ list.size = 0
           /\ cur_offset + blk_size(c) <= POOL_SIZE
           /\ begin(c, cur_offset, size, carve_writes)
           /\ UNCHANGED live
  <2>1. /\ MemoryOK' /\ LinksOK' /\ KillsOK'
        /\ \A d \in Classes : Intact(d)' => ListOK(d)'
    BY <1>2, <1>3, BeginFrame
  <2>2. /\ arg'.c = c /\ arg'.b = cur_offset' /\ arg'.size = size
        /\ todo' = carve_writes /\ free_blk_list' = free_blk_list
        /\ cur_offset' = cur_offset /\ hdr' = hdr
    BY <1>3 DEF begin
  <2>3. carve_writes # <<"cur_offset">>
    BY DEF carve_writes
  <2>4. Carving(c, cur_offset, list)'
    BY <1>3, <2>2, <2>3 DEF Carving
  <2>5. CallOK'
    BY <1>1, <1>2, <2>2, <2>4 DEF CallOK
  <2> QED
    BY <2>1, <2>5 DEF CrashInv, ListsOK
<1>4. CASE /\ list.size # 0
           /\ b # NIL
           /\ begin(c, b, size, pop_writes(hdr[b].next_offset))
           /\ UNCHANGED live
  <2>1. /\ MemoryOK' /\ LinksOK' /\ KillsOK'
        /\ \A d : Carved(d)' = Carved(d)
        /\ \A d \in Classes : Intact(d)' <=> Intact(d)
        /\ \A d \in Classes : Intact(d)' => ListOK(d)'
    BY <1>2, <1>4, BeginFrame
  <2>2. /\ arg'.c = c /\ arg'.b = b /\ arg'.size = size
        /\ todo' = pop_writes(hdr'[b].next_offset) /\ free_blk_list' = free_blk_list
        /\ cur_offset' = cur_offset /\ hdr' = hdr /\ live' = live
    BY <1>4 DEF begin
  <2>3. b \in Carved(c)
    BY <1>1, <1>2, <1>4 DEF ListType
  <2>4. ASSUME Intact(c)'
        PROVE  /\ Lined({}, c, b, list.tail_offset, list.size)'
               /\ b \notin DOMAIN live
    <3>1. ListOK(c)'
      BY <2>1, <2>4, <1>2
    <3>2. PICK t, n : t = list.tail_offset /\ n = list.size
      OBVIOUS
    <3>3. Lined({}, c, b, t, n)'
      BY <3>1, <3>2, <2>2, <1>1, <1>4 DEF ListOK
    <3>4. PICK m \in Nat : \E s \in [1 .. m -> Own(c)' \ {}] : Line(s, m, c, b, t, n)'
      BY <3>3 DEF Lined
    <3>5. PICK s \in [1 .. m -> Own(c)' \ {}] : Line(s, m, c, b, t, n)'
      BY <3>4
    <3>6. m # 0 /\ b = s[1] /\ s[1] \in Own(c)'
      BY <3>5, <1>4 DEF Line, Path
    <3> QED
      BY <3>2, <3>3, <3>6, <2>2 DEF Own
  <2>5. PopBegun(c, b, list)'
    BY <2>2, <2>4, <1>1 DEF PopBegun
  <2>6. Popping(c, b, list)'
    BY <2>1, <2>2, <2>3, <2>4, <2>5, <1>4 DEF Popping
  <2>7. CallOK'
    BY <1>1, <1>2, <2>2, <2>6 DEF CallOK
  <2> QED
    BY <2>1, <2>7 DEF CrashInv, ListsOK
<1>5. CASE /\ list.size # 0
           /\ b = NIL
           /\ use_nil_offset
  BY <1>1, <1>2, <1>5, UseNilCrashInv
<1> QED
  BY <1>1, <1>3, <1>4, <1>5 DEF begin_malloc

(* touchdb_pool_free starts: the caller gives the block up. *)
LEMMA BeginFreeCrashInv ==
  ASSUME CrashInv, NEW b \in DOMAIN live, begin_free(b)
  PROVE  CrashInv'
<1>1. PICK c, list, n : c = hdr[b].idx /\ list = free_blk_list[c] /\ n = list.size
  OBVIOUS
<1>2. /\ Idle /\ todo = <<>> /\ c \in Classes /\ MemoryOK /\ LinksOK
      /\ list \in ListType(c) /\ b \in Blocks /\ b \in Carved(c) /\ n \in Nat
  <2>1. Idle /\ c \in Classes /\ MemoryOK /\ LinksOK /\ b \in Blocks /\ b \in Carved(c)
    BY <1>1 DEF begin_free, CrashInv, MemoryOK, TypeOK, Carved
  <2> QED
    BY <2>1, <1>1, ListTyped DEF Idle, ListType
<1>3. CASE /\ n # 0 => list.tail_offset # NIL
           /\ begin(c, b, 0, push_writes(n))
           /\ live' = [x \in DOMAIN live \ {b} |-> live[x]]
  <2>1. /\ MemoryOK' /\ LinksOK' /\ KillsOK'
        /\ \A d : Carved(d)' = Carved(d) /\ Own(d) \subseteq Own(d)'
        /\ \A d \in Classes : (Ends(d)' <=> Ends(d)) /\ (Intact(d)' <=> Intact(d))
        /\ \A d \in Classes : Intact(d)' => ListOK(d)'
    BY <1>2, <1>3, BeginFrame
  <2>2. /\ arg'.c = c /\ arg'.b = b /\ arg'.size = 0
        /\ todo' = push_writes(n) /\ free_blk_list' = free_blk_list
        /\ cur_offset' = cur_offset /\ hdr' = hdr /\ torn' = torn
    BY <1>3 DEF begin
  <2>3. b \in Own(c)' /\ b \notin Own(c)
    BY <1>2, <1>3, <2>1 DEF Own
  <2>4. Pushing(c, b, list)'
    <3>1. CASE n = 0
      <4>1. PushOnEmpty(c, b, list)'
        BY <3>1, <2>2, <1>1 DEF PushOnEmpty
      <4> QED
        BY <4>1, <2>3 DEF Pushing
    <3>2. CASE n # 0
      <4>1. push_writes(n) = push_writes(1)
        BY <3>2 DEF push_writes
      <4>2. PICK h, t : h = list.header_offset /\ t = list.tail_offset
        OBVIOUS
      <4>3. ASSUME Intact(c)' PROVE Lined({b}, c, h, t, n)'
        <5>1. Lined({}, c, h, t, n)
          BY <4>2, <4>3, <3>2, <2>1, <1>1, <1>2 DEF CrashInv, ListsOK, Busy, ListOK
        <5>2. \A x \in Own(c) \ {} : x \in Own(c)' \ {b} /\ hdr'[x].next_offset = hdr[x].next_offset
          BY <2>1, <2>2, <2>3
        <5> QED
          BY <5>1, <5>2, <2>1, <2>2, <1>2, LinedFrame
      <4>4. PushBeforeLink(c, b, list)'
        BY <4>1, <4>2, <4>3, <3>2, <2>2, <1>1, <1>3 DEF PushBeforeLink
      <4> QED
        BY <4>4, <2>3 DEF Pushing
    <3> QED
      BY <3>1, <3>2
  <2>5. CallOK'
    BY <1>1, <1>2, <2>2, <2>4 DEF CallOK
  <2> QED
    BY <2>1, <2>5 DEF CrashInv, ListsOK
<1>4. CASE /\ n # 0
           /\ list.tail_offset = NIL
           /\ use_nil_offset
  BY <1>1, <1>2, <1>4, UseNilCrashInv
<1> QED
  BY <1>1, <1>3, <1>4 DEF begin_free

(* The last write of a call tells its kind, and with it whether a kill now *)
(* tears the list; it alone changes size and cur_offset.  Only a malloc    *)
(* that carves writes hdr->idx.                                            *)
LEMMA CallKind ==
  ASSUME NEW c, NEW b, NEW list
  PROVE  /\ Carving(c, b, list) \/ Popping(c, b, list) \/ Pushing(c, b, list) =>
              /\ Len(todo) # 1 => /\ Head(todo) \notin {"cur_offset", "list->size--", "list->size++"}
                                   /\ Tail(todo) # <<>>
              /\ Len(todo) = 1 => Tail(todo) = <<>> /\ Head(todo) = todo[Len(todo)] /\ todo # <<>>
         /\ Carving(c, b, list) => todo[Len(todo)] = "cur_offset"
         /\ Popping(c, b, list) => todo[Len(todo)] = "list->size--" /\ Head(todo) # "hdr->idx"
         /\ Pushing(c, b, list) => todo[Len(todo)] = "list->size++" /\ Head(todo) # "hdr->idx"
<1>1. ASSUME Carving(c, b, list)
      PROVE  /\ todo[Len(todo)] = "cur_offset"
             /\ Len(todo) # 1 => /\ Head(todo) \notin {"cur_offset", "list->size--", "list->size++"}
                                /\ Tail(todo) # <<>>
             /\ Len(todo) = 1 => Tail(todo) = <<>> /\ Head(todo) = todo[Len(todo)] /\ todo # <<>>
  <2>1. CASE todo = <<"hdr->idx", "cur_offset">>
    BY <2>1
  <2>2. CASE todo = <<"cur_offset">>
    BY <2>2
  <2> QED
    BY <1>1, <2>1, <2>2 DEF Carving, carve_writes
<1>2. ASSUME Popping(c, b, list)
      PROVE  /\ todo[Len(todo)] = "list->size--" /\ Head(todo) # "hdr->idx"
             /\ Len(todo) # 1 => /\ Head(todo) \notin {"cur_offset", "list->size--", "list->size++"}
                                /\ Tail(todo) # <<>>
             /\ Len(todo) = 1 => Tail(todo) = <<>> /\ Head(todo) = todo[Len(todo)] /\ todo # <<>>
  <2>1. CASE todo = <<"q->prev", "list->header=next", "list->size--">>
    BY <2>1
  <2>2. CASE todo = <<"list->tail=NIL", "list->header=next", "list->size--">>
    BY <2>2
  <2>3. CASE todo = <<"list->header=next", "list->size--">>
    BY <2>3
  <2>4. CASE todo = <<"list->size--">>
    BY <2>4
  <2> QED
    BY <1>2, <2>1, <2>2, <2>3, <2>4
    DEF Popping, PopBegun, PopBeforeHeader, PopBeforeSize, pop_writes
<1>3. ASSUME Pushing(c, b, list)
      PROVE  /\ todo[Len(todo)] = "list->size++" /\ Head(todo) # "hdr->idx"
             /\ Len(todo) # 1 => /\ Head(todo) \notin {"cur_offset", "list->size--", "list->size++"}
                                /\ Tail(todo) # <<>>
             /\ Len(todo) = 1 => Tail(todo) = <<>> /\ Head(todo) = todo[Len(todo)] /\ todo # <<>>
  <2>1. CASE todo = <<"blk->prev", "list->tail=blk", "list->header=blk", "blk->next", "list->size++">>
    BY <2>1
  <2>2. CASE todo = <<"list->tail=blk", "list->header=blk", "blk->next", "list->size++">>
    BY <2>2
  <2>3. CASE todo = <<"list->header=blk", "blk->next", "list->size++">>
    BY <2>3
  <2>4. CASE todo = <<"blk->prev", "tail->next", "list->tail=blk", "blk->next", "list->size++">>
    BY <2>4
  <2>5. CASE todo = <<"tail->next", "list->tail=blk", "blk->next", "list->size++">>
    BY <2>5
  <2>6. CASE todo = <<"list->tail=blk", "blk->next", "list->size++">>
    BY <2>6
  <2>7. CASE todo = <<"blk->next", "list->size++">>
    BY <2>7
  <2>8. CASE todo = <<"list->size++">>
    BY <2>8
  <2> QED
    BY <1>3, <2>1, <2>2, <2>3, <2>4, <2>5, <2>6, <2>7, <2>8
    DEF Pushing, PushOnEmpty, PushBeforeLink, PushBeforeTail, PushBeforeSize, push_writes
<1> QED
  BY <1>1, <1>2, <1>3

(* What a kill leaves alone. *)
LEMMA CrashFrame ==
  ASSUME CrashInv, crash, NEW c \in Classes, c = arg.c
  PROVE  /\ UNCHANGED <<vars, arg>> /\ crashes \in Nat /\ crashes' = crashes + 1 /\ todo' = <<>>
         /\ torn' = IF Unlinking THEN torn \cup {c} ELSE torn
         /\ \A d : Carved(d)' = Carved(d) /\ Own(d)' = Own(d)
         /\ MemoryOK' /\ LinksOK' /\ KillsOK' /\ CallOK'
         /\ \A d \in Classes \ {c} : Intact(d)' => ListOK(d)'
         /\ Intact(c)' => c \notin torn /\ Intact(c)
         /\ Intact(c)' /\ Unlinking => crashes = 0
<1>1. /\ UNCHANGED <<vars, arg>> /\ crashes \in Nat /\ crashes' = crashes + 1 /\ todo' = <<>>
      /\ torn' = (IF Unlinking THEN torn \cup {c} ELSE torn)
      /\ todo # <<>> /\ ~wild
  BY DEF crash, CrashInv, KillsOK
<1>2. /\ Blocks' = Blocks
      /\ UNCHANGED <<free_blk_list, cur_offset, hdr, live, ret, wild>>
      /\ \A d : Carved(d)' = Carved(d) /\ Own(d)' = Own(d)
  BY <1>1 DEF vars, Blocks, Carved, Own
<1>3. MemoryOK'
  BY <1>2 DEF CrashInv, MemoryOK, TypeOK, End, Fits, Blocks
<1>4. LinksOK' /\ KillsOK' /\ CallOK'
  BY <1>1, <1>2 DEF CrashInv, LinksOK, KillsOK, CallOK, Blocks
<1>5. ASSUME NEW d \in Classes \ {c}, Intact(d)' PROVE ListOK(d)'
  <2>1. Intact(d) /\ (d \notin torn' => d \notin torn) /\ (Ends(d)' => Ends(d))
    BY <1>1, <1>5 DEF Intact, Ends
  <2>2. ListOK(d)
    BY <2>1 DEF CrashInv, ListsOK, Busy
  <2> QED
    BY <2>1, <2>2, <1>2, ListFrame
<1>6. Intact(c)' => c \notin torn /\ Intact(c)
  BY <1>1 DEF Intact, CrashInv, KillsOK
<1>7. Intact(c)' /\ Unlinking => crashes = 0
  BY <1>1 DEF Intact
<1> QED
  BY <1>1, <1>2, <1>3, <1>4, <1>5, <1>6, <1>7

(* Killed while it unlinks: either nothing has happened to the list yet,   *)
(* or the list is torn, and still a line if that was the first kill.       *)
LEMMA CrashPopping ==
  ASSUME CrashInv, crash, NEW c \in Classes, c = arg.c, NEW b, b = arg.b,
         NEW list, list = free_blk_list[c], Popping(c, b, list), Intact(c)'
  PROVE  ListOK(c)'
<1>1. /\ UNCHANGED <<vars, arg>> /\ crashes \in Nat /\ crashes' = crashes + 1 /\ todo' = <<>>
      /\ torn' = (IF Unlinking THEN torn \cup {c} ELSE torn)
      /\ \A d : Own(d)' = Own(d)
      /\ c \notin torn /\ Intact(c) /\ (Unlinking => crashes = 0)
  BY CrashFrame
<1>2. free_blk_list' = free_blk_list /\ hdr' = hdr
  BY <1>1 DEF vars
<1>3. PICK h, t, n : h = list.header_offset /\ t = list.tail_offset /\ n = list.size
  OBVIOUS
<1>4. b \in Own(c) /\ b # NIL /\ n # 0 /\ n \in Nat /\ hdr[b].next_offset # b
  BY <1>1, <1>3, NoNil, ListTyped DEF Popping, Own, Carved, CrashInv, LinksOK, ListType
<1>5. todo # <<>> /\ todo[Len(todo)] = "list->size--"
  BY CallKind DEF crash
<1>6. Unlinking <=> t = NIL \/ h # b
  BY <1>3, <1>5 DEF Unlinking
<1>7. SUFFICES Lined({}, c, h, t, n)'
  BY <1>2, <1>3 DEF ListOK
<1>8. ASSUME h = b, Lined({}, c, h, t, n)
      PROVE  Lined({}, c, h, t, n)'
  <2>1. t # NIL
    <3>1. PICK m \in Nat : \E s \in [1 .. m -> Own(c) \ {}] : Line(s, m, c, h, t, n)
      BY <1>8 DEF Lined
    <3> QED
      BY <3>1, <1>1, <1>4 DEF Line
  <2>2. torn' = torn /\ ~ Ends(c)'
    BY <2>1, <1>1, <1>6, <1>8 DEF Ends
  <2>3. \A x \in Own(c) \ {} : x \in Own(c)' \ {} /\ hdr'[x].next_offset = hdr[x].next_offset
    BY <1>1, <1>2
  <2> QED
    BY <2>2, <2>3, <1>8, LinedFrame
<1>9. CASE PopBegun(c, b, list)
  BY <1>1, <1>3, <1>8, <1>9 DEF PopBegun
<1>10. CASE PopBeforeHeader(c, b, list)
  <2>1. h = b
    BY <1>3, <1>10 DEF PopBeforeHeader
  <2>2. CASE hdr[b].next_offset = NIL /\ t = NIL
    <3>1. Unlinking /\ crashes = 0 /\ c \in torn'
      BY <2>2, <1>1, <1>6
    <3>2. PICK s : s = [i \in 1 .. 1 |-> b]
      OBVIOUS
    <3>3. s \in [1 .. 1 -> Own(c)' \ {}] /\ s[1] = b /\ \A i \in 1 .. 1 : i = 1
      BY <3>2, <1>1, <1>4
    <3>4. Path(s, 1, c, h)'
      BY <3>3, <2>1 DEF Path
    <3>5. Line(s, 1, c, h, t, n)'
      BY <3>1, <3>3, <3>4, <2>2, <1>2 DEF Line
    <3> QED
      BY <3>3, <3>5 DEF Lined
  <2>3. CASE Lined({}, c, b, t, n)
    BY <2>1, <2>3, <1>8
  <2> QED
    BY <2>2, <2>3, <1>1, <1>3, <1>10 DEF PopBeforeHeader
<1>11. CASE PopBeforeSize(c, b, list)
  <2>1. h # b /\ c \in torn' /\ crashes = 0
    BY <1>1, <1>3, <1>4, <1>6, <1>11 DEF PopBeforeSize
  <2>2. Ends(c)
    BY <2>1 DEF Ends
  <2>3. Lined({b}, c, h, t, n - 1)
    BY <2>2, <1>1, <1>3, <1>11 DEF PopBeforeSize
  <2>4. \A x \in Own(c) \ {b} : x \in Own(c)' \ {} /\ hdr'[x].next_offset = hdr[x].next_offset
    BY <1>1, <1>2
  <2> QED
    BY <2>1, <2>2, <2>3, <2>4, LinedFrame
<1> QED
  BY <1>9, <1>10, <1>11 DEF Popping

(* Killed inside a free: the list serves what its size says, and perhaps   *)
(* leads on to the block that was being freed.                             *)
LEMMA CrashPushing ==
  ASSUME CrashInv, crash, NEW c \in Classes, c = arg.c, NEW b, b = arg.b,
         NEW list, list = free_blk_list[c], Pushing(c, b, list), Intact(c)'
  PROVE  ListOK(c)'
<1>1. /\ UNCHANGED <<vars, arg>> /\ crashes \in Nat /\ crashes' = crashes + 1 /\ todo' = <<>>
      /\ torn' = (IF Unlinking THEN torn \cup {c} ELSE torn)
      /\ \A d : Own(d)' = Own(d)
      /\ c \notin torn /\ Intact(c)
  BY CrashFrame
<1>2. free_blk_list' = free_blk_list /\ hdr' = hdr
  BY <1>1 DEF vars
<1>3. PICK h, t, n : h = list.header_offset /\ t = list.tail_offset /\ n = list.size
  OBVIOUS
<1>4. n \in Nat /\ NIL \notin Own(c) /\ b \in Own(c)
  BY <1>3, NoNil, ListTyped DEF Pushing, CrashInv, ListType
<1>5. todo[Len(todo)] = "list->size++"
  BY CallKind
<1>6. torn' = torn /\ ~ Ends(c)'
  BY <1>1, <1>5 DEF Unlinking, Ends
<1>7. SUFFICES ASSUME n # 0 PROVE Lined({}, c, h, t, n)'
  BY <1>2, <1>3, <1>6 DEF ListOK
<1>8. CASE PushOnEmpty(c, b, list)
  BY <1>3, <1>7, <1>8 DEF PushOnEmpty
<1>9. CASE PushBeforeLink(c, b, list)
  <2>1. Lined({b}, c, h, t, n)
    BY <1>1, <1>3, <1>9 DEF PushBeforeLink
  <2>2. \A x \in Own(c) \ {b} : x \in Own(c)' \ {} /\ hdr'[x].next_offset = hdr[x].next_offset
    BY <1>1, <1>2
  <2> QED
    BY <2>1, <2>2, <1>6, LinedFrame
<1>10. ASSUME NEW m \in Nat, NEW s \in [1 .. m -> Own(c)], Path(s, m, c, h),
              m # 0, s[m] = t, n <= m
       PROVE  Lined({}, c, h, t, n)'
  <2>1. s \in [1 .. m -> Own(c)' \ {}] /\ t # NIL
    BY <1>1, <1>4, <1>10
  <2>2. Path(s, m, c, h)'
    BY <1>1, <1>2, <1>10 DEF Path
  <2>3. Line(s, m, c, h, t, n)'
    BY <2>1, <2>2, <1>6, <1>10 DEF Line
  <2> QED
    BY <2>1, <2>3 DEF Lined
<1>11. CASE PushBeforeTail(c, b, list)
  <2>1. PICK m \in Nat : \E s \in [1 .. m -> Own(c) \ {b}] :
           /\ Path(s, m, c, h)
           /\ m # 0 /\ s[m] = t /\ n <= m
    BY <1>1, <1>3, <1>11 DEF PushBeforeTail
  <2>2. PICK s \in [1 .. m -> Own(c) \ {b}] :
           /\ Path(s, m, c, h)
           /\ m # 0 /\ s[m] = t /\ n <= m
    BY <2>1
  <2>3. s \in [1 .. m -> Own(c)]
    OBVIOUS
  <2> QED
    BY <2>2, <2>3, <1>10
<1>12. CASE PushBeforeSize(c, b, list)
  <2>1. PICK m \in Nat : \E s \in [1 .. m -> Own(c)] :
           /\ Path(s, m, c, h)
           /\ m # 0 /\ s[m] = b /\ n < m
    BY <1>1, <1>3, <1>12 DEF PushBeforeSize
  <2>2. PICK s \in [1 .. m -> Own(c)] :
           /\ Path(s, m, c, h)
           /\ m # 0 /\ s[m] = b /\ n < m
    BY <2>1
  <2>3. t = b /\ n <= m
    BY <2>2, <1>3, <1>4, <1>12 DEF PushBeforeSize
  <2> QED
    BY <2>2, <2>3, <1>10
<1> QED
  BY <1>8, <1>9, <1>11, <1>12 DEF Pushing

(* A process that dies between two writes keeps the invariant, the list it *)
(* was at being torn.                                                      *)
LEMMA CrashCrashInv ==
  ASSUME CrashInv, crash
  PROVE  CrashInv'
<1>1. PICK c, b, list : c = arg.c /\ b = arg.b /\ list = free_blk_list[c]
  OBVIOUS
<1>2. /\ c \in Classes
      /\ Pushing(c, b, list) \/ Carving(c, b, list) \/ Popping(c, b, list)
  BY <1>1 DEF CrashInv, CallOK, crash
<1>3. /\ UNCHANGED <<vars, arg>> /\ crashes \in Nat /\ crashes' = crashes + 1
      /\ torn' = (IF Unlinking THEN torn \cup {c} ELSE torn)
      /\ \A d : Own(d)' = Own(d)
      /\ MemoryOK' /\ LinksOK' /\ KillsOK' /\ CallOK'
      /\ \A d \in Classes \ {c} : Intact(d)' => ListOK(d)'
      /\ Intact(c)' => c \notin torn /\ Intact(c)
  BY <1>1, <1>2, CrashFrame
<1>4. ASSUME Intact(c)' PROVE ListOK(c)'
  <2>1. CASE Popping(c, b, list)
    BY <1>1, <1>2, <1>4, <2>1, CrashPopping
  <2>2. CASE Pushing(c, b, list)
    BY <1>1, <1>2, <1>4, <2>2, CrashPushing
  <2>3. CASE Carving(c, b, list)
    <3>1. todo[Len(todo)] = "cur_offset"
      BY <2>3, CallKind
    <3>2. ListOK(c)
      BY <3>1, <1>2, <1>3, <1>4 DEF CrashInv, ListsOK, Busy
    <3>3. torn' = torn /\ ~ Ends(c)'
      BY <3>1, <1>3, <1>4 DEF Unlinking, Ends
    <3>4. free_blk_list' = free_blk_list /\ hdr' = hdr
      BY <1>3 DEF vars
    <3> QED
      BY <3>2, <3>3, <3>4, <1>3, ListFrame
  <2> QED
    BY <1>2, <2>1, <2>2, <2>3
<1> QED
  BY <1>3, <1>4 DEF CrashInv, ListsOK

(* An empty pool satisfies the invariant. *)
LEMMA InitCrashInv == CrashInit => CrashInv
<1> SUFFICES ASSUME CrashInit PROVE CrashInv
  OBVIOUS
<1>1. /\ free_blk_list = [c \in Classes |-> [header_offset |-> NIL, tail_offset |-> NIL, size |-> 0]]
      /\ cur_offset = 1 /\ Blocks = {} /\ DOMAIN live = {} /\ ret = NIL /\ wild = FALSE
      /\ hdr = [x \in {} |-> NIL] /\ live = [x \in {} |-> 0]
      /\ todo = <<>> /\ crashes = 0 /\ torn = {}
  BY DEF CrashInit, Init, touchdb_pool_init, Blocks
<1>2. MemoryOK
  <2>1. TypeOK
    BY InitPoolInv DEF CrashInit, PoolInv
  <2> QED
    BY <2>1, <1>1 DEF MemoryOK, Fits
<1>3. LinksOK /\ KillsOK /\ CallOK
  BY <1>1 DEF LinksOK, KillsOK, CallOK
<1>4. ASSUME NEW c \in Classes PROVE ListOK(c)
  <2>1. /\ free_blk_list[c].header_offset = NIL /\ free_blk_list[c].tail_offset = NIL
        /\ free_blk_list[c].size = 0
    BY <1>1
  <2>2. PICK s : s = [i \in 1 .. 0 |-> NIL]
    OBVIOUS
  <2>3. s \in [1 .. 0 -> Own(c)] /\ s \in [1 .. 0 -> Own(c) \ {}] /\ \A i \in 1 .. 0 : FALSE
    BY <2>2
  <2>4. Path(s, 0, c, NIL)
    BY <2>3 DEF Path
  <2>5. Line(s, 0, c, NIL, NIL, 0)
    BY <2>4 DEF Line
  <2>6. Lined({}, c, NIL, NIL, 0)
    BY <2>3, <2>5 DEF Lined
  <2> QED
    BY <2>1, <2>6 DEF ListOK
<1> QED
  BY <1>2, <1>3, <1>4 DEF CrashInv, ListsOK

(* Every write, every call and every crash keeps the invariant. *)
LEMMA NextCrashInv == CrashInv /\ [CrashNext]_crashVars => CrashInv'
<1> SUFFICES ASSUME CrashInv, [CrashNext]_crashVars PROVE CrashInv'
  OBVIOUS
<1>1. CASE \E size \in Sizes : begin_malloc(size)
  BY <1>1, BeginMallocCrashInv
<1>2. CASE \E b \in DOMAIN live : begin_free(b)
  BY <1>2, BeginFreeCrashInv
<1>3. CASE write
  BY <1>3, WriteCrashInv
<1>4. CASE crash
  BY <1>4, CrashCrashInv
<1>5. CASE UNCHANGED crashVars
  <2>1. UNCHANGED <<free_blk_list, cur_offset, hdr, live, ret, wild, todo, arg, crashes, torn>>
    BY <1>5 DEF crashVars, vars
  <2>2. MemoryOK' /\ LinksOK' /\ KillsOK'
    BY <2>1 DEF CrashInv, MemoryOK, TypeOK, End, Fits, Blocks, LinksOK, KillsOK, Carved
  <2>3. /\ \A c : Carved(c)' = Carved(c) /\ Own(c)' = Own(c)
        /\ \A c : (Intact(c)' <=> Intact(c)) /\ (Ends(c)' <=> Ends(c)) /\ (Busy(c)' <=> Busy(c))
    BY <2>1 DEF Carved, Own, Blocks, Intact, Ends, Busy
  <2>4. ListsOK'
    <3>1. ASSUME NEW c \in Classes, Intact(c), ~Busy(c) PROVE ListOK(c)'
      BY <3>1, <2>1, <2>3, ListFrame DEF CrashInv, ListsOK
    <3> QED
      BY <3>1, <2>3 DEF ListsOK
  <2>5. \A s, m, c, h : Path(s, m, c, h)' <=> Path(s, m, c, h)
    BY <2>1, <2>3 DEF Path
  <2>6. \A B, c, h, t, n : Lined(B, c, h, t, n)' <=> Lined(B, c, h, t, n)
    <3>1. \A s, m, c, h, t, n : Line(s, m, c, h, t, n)' <=> Line(s, m, c, h, t, n)
      BY <2>1, <2>3, <2>5 DEF Line
    <3> QED
      BY <3>1, <2>3 DEF Lined
  <2>7. ASSUME NEW c, NEW b, NEW list
        PROVE  /\ Carving(c, b, list)' <=> Carving(c, b, list)
               /\ Popping(c, b, list)' <=> Popping(c, b, list)
               /\ Pushing(c, b, list)' <=> Pushing(c, b, list)
    <3>1. PICK h, t, n : h = list.header_offset /\ t = list.tail_offset /\ n = list.size
      OBVIOUS
    <3>2. Carving(c, b, list)' <=> Carving(c, b, list)
      BY <2>1 DEF Carving, Blocks
    <3>3. /\ Lined({}, c, b, t, n)' <=> Lined({}, c, b, t, n)
          /\ Lined({b}, c, h, t, n - 1)' <=> Lined({b}, c, h, t, n - 1)
          /\ Lined({b}, c, h, t, n)' <=> Lined({b}, c, h, t, n)
      BY <2>6
    <3>4. PopBegun(c, b, list)' <=> PopBegun(c, b, list)
      BY <2>1, <2>3, <3>1, <3>3 DEF PopBegun
    <3>5. PopBeforeHeader(c, b, list)' <=> PopBeforeHeader(c, b, list)
      BY <2>1, <2>3, <3>1, <3>3 DEF PopBeforeHeader
    <3>6. PopBeforeSize(c, b, list)' <=> PopBeforeSize(c, b, list)
      BY <2>1, <2>3, <3>1, <3>3 DEF PopBeforeSize
    <3>7. PushOnEmpty(c, b, list)' <=> PushOnEmpty(c, b, list)
      BY <2>1 DEF PushOnEmpty
    <3>8. PushBeforeLink(c, b, list)' <=> PushBeforeLink(c, b, list)
      BY <2>1, <2>3, <3>1, <3>3 DEF PushBeforeLink
    <3>9. \A m, s : Path(s, m, c, h)' <=> Path(s, m, c, h)
      BY <2>5
    <3>10. PushBeforeTail(c, b, list)' <=> PushBeforeTail(c, b, list)
      BY <2>1, <2>3, <3>1, <3>9 DEF PushBeforeTail
    <3>11. PushBeforeSize(c, b, list)' <=> PushBeforeSize(c, b, list)
      BY <2>1, <2>3, <3>1, <3>9 DEF PushBeforeSize
    <3> QED
      BY <2>1, <2>3, <3>2, <3>4, <3>5, <3>6, <3>7, <3>8, <3>10, <3>11 DEF Popping, Pushing
  <2>8. PICK c, b, list : c = arg.c /\ b = arg.b /\ list = free_blk_list[c]
    OBVIOUS
  <2>9. CallOK'
    BY <2>1, <2>7, <2>8 DEF CrashInv, CallOK
  <2> QED
    BY <2>2, <2>4, <2>9 DEF CrashInv
<1> QED
  BY <1>1, <1>2, <1>3, <1>4, <1>5 DEF CrashNext

(* However often the process is killed between two writes of the files,    *)
(* what it leaves there satisfies the invariant.                           *)
THEOREM CrashInvariant == CrashSpec => []CrashInv
BY InitCrashInv, NextCrashInv, PTL DEF CrashSpec

(* After every kill, and between any two calls, each list that was not     *)
(* being unlinked from still serves as many free blocks of its class as    *)
(* its size says, and has a free block as its tail.                        *)
THEOREM CrashListsSurvive == CrashSpec => []ListsSurviveCrash
<1>1. ASSUME CrashInv, Idle, NEW c \in Classes \ torn
      PROVE  /\ \E s \in [1 .. free_blk_list[c].size -> FreeBlocks(c)] : Served(c, s)
             /\ free_blk_list[c].size # 0 => free_blk_list[c].tail_offset \in FreeBlocks(c)
  <2>1. PICK h, t, n : /\ h = free_blk_list[c].header_offset
                       /\ t = free_blk_list[c].tail_offset
                       /\ n = free_blk_list[c].size
    OBVIOUS
  <2>2. n \in Nat /\ NIL \notin Own(c) /\ Own(c) \subseteq FreeBlocks(c)
    BY <1>1, <2>1, ListTyped, NoNil DEF CrashInv, ListType, Own, Carved, FreeBlocks
  <2>3. CASE n = 0
    <3>1. PICK s : s = [i \in 1 .. n |-> NIL]
      OBVIOUS
    <3>2. s \in [1 .. n -> FreeBlocks(c)] /\ \A i \in 1 .. n : FALSE
      BY <2>3, <3>1
    <3>3. Served(c, s)
      BY <2>1, <3>2 DEF Served
    <3> QED
      BY <2>1, <2>3, <3>2, <3>3
  <2>4. CASE n # 0
    <3>1. Lined({}, c, h, t, n)
      BY <1>1, <2>1, <2>4 DEF CrashInv, ListsOK, Intact, Busy, ListOK, Idle
    <3>2. PICK m \in Nat : \E s \in [1 .. m -> Own(c) \ {}] : Line(s, m, c, h, t, n)
      BY <3>1 DEF Lined
    <3>3. PICK s \in [1 .. m -> Own(c) \ {}] : Line(s, m, c, h, t, n)
      BY <3>2
    <3>4. /\ \A i, j \in 1 .. m : s[i] = s[j] => i = j
          /\ \A i \in 1 .. m - 1 : hdr[s[i]].next_offset = s[i + 1]
          /\ h = s[1] /\ n <= m /\ t \in Own(c)
      BY <1>1, <2>2, <2>4, <3>3 DEF Line, Path
    <3>5. PICK r : r = [i \in 1 .. n |-> s[i]]
      OBVIOUS
    <3>6. /\ 1 .. n \subseteq 1 .. m /\ r \in [1 .. n -> FreeBlocks(c)]
          /\ \A i \in 1 .. n : r[i] = s[i]
      BY <2>2, <3>4, <3>5
    <3>7. \A i \in 1 .. n : r[i] = IF i = 1 THEN h ELSE hdr[r[i - 1]].next_offset
      <4>1. ASSUME NEW i \in 1 .. n, i # 1 PROVE r[i] = hdr[r[i - 1]].next_offset
        <5>1. i - 1 \in 1 .. n /\ i - 1 \in 1 .. m - 1 /\ (i - 1) + 1 = i
          BY <2>2, <3>4, <4>1
        <5> QED
          BY <5>1, <3>4, <3>6
      <4> QED
        BY <4>1, <2>2, <2>4, <3>4, <3>6
    <3>8. \A i, j \in 1 .. n : r[i] = r[j] => i = j
      BY <3>4, <3>6
    <3>9. Served(c, r)
      BY <2>1, <3>6, <3>7, <3>8 DEF Served
    <3> QED
      BY <2>1, <2>2, <3>4, <3>6, <3>9
  <2> QED
    BY <2>3, <2>4
<1>2. CrashInv => ListsSurviveCrash
  BY <1>1 DEF ListsSurviveCrash
<1> QED
  BY <1>2, CrashInvariant, PTL

(* The block that a call of an intact class works on is held by nobody. *)
LEMMA NotHeld ==
  ASSUME CrashInv, todo # <<>>, Intact(arg.c)
  PROVE  arg.b \notin DOMAIN live
<1>1. PICK c, b, list : c = arg.c /\ b = arg.b /\ list = free_blk_list[c]
  OBVIOUS
<1>2. Pushing(c, b, list) \/ Carving(c, b, list) \/ Popping(c, b, list)
  BY <1>1 DEF CrashInv, CallOK
<1>3. CASE Pushing(c, b, list)
  BY <1>1, <1>3 DEF Pushing, Own
<1>4. CASE Carving(c, b, list)
  BY <1>1, <1>4 DEF Carving, CrashInv, MemoryOK, TypeOK
<1>5. CASE Popping(c, b, list)
  BY <1>1, <1>5 DEF Popping
<1> QED
  BY <1>2, <1>3, <1>4, <1>5

(* A malloc of an intact class returns a block that nobody holds, however  *)
(* often the process was killed before.                                    *)
THEOREM CrashHandsOutFree == CrashSpec => []HandsOutFree
<1>1. CrashInv => HandsOutFree
  BY NotHeld DEF HandsOutFree
<1> QED
  BY <1>1, CrashInvariant, PTL

(* The header that is written is the one at cur_offset. *)
LEMMA IdxWriter ==
  ASSUME CrashInv, todo # <<>>, Head(todo) = "hdr->idx"
  PROVE  arg.b = cur_offset
<1>1. PICK c, b, list : c = arg.c /\ b = arg.b /\ list = free_blk_list[c]
  OBVIOUS
<1>2. Carving(c, b, list)
  BY <1>1, CallKind DEF CrashInv, CallOK
<1> QED
  BY <1>1, <1>2 DEF Carving

(* Writing a link, whatever its value, changes no block's class. *)
LEMMA LinkKeepsIdx ==
  ASSUME NEW B, NEW I, NEW f \in Headers(B, I), NEW b, NEW v
  PROVE  \A x \in B : WithNext(f, b, v)[x].idx = f[x].idx /\ WithPrev(f, b, v)[x].idx = f[x].idx
<1>1. ASSUME NEW r \in [next_offset : B \cup {NIL}, prev_offset : B \cup {NIL}, idx : I]
      PROVE  /\ [r EXCEPT !.next_offset = v].idx = r.idx
             /\ [r EXCEPT !.prev_offset = v].idx = r.idx
  OBVIOUS
<1>2. ASSUME NEW x \in B
      PROVE  /\ WithNext(f, b, v)[x] = IF x = b THEN [f[b] EXCEPT !.next_offset = v] ELSE f[x]
             /\ WithPrev(f, b, v)[x] = IF x = b THEN [f[b] EXCEPT !.prev_offset = v] ELSE f[x]
             /\ f[x] \in [next_offset : B \cup {NIL}, prev_offset : B \cup {NIL}, idx : I]
  BY DEF Headers, WithNext, WithPrev
<1>3. ASSUME NEW x \in B
      PROVE  WithNext(f, b, v)[x].idx = f[x].idx /\ WithPrev(f, b, v)[x].idx = f[x].idx
  <2>1. CASE x = b
    BY <2>1, <1>1, <1>2
  <2>2. CASE x # b
    BY <2>2, <1>2
  <2> QED
    BY <2>1, <2>2
<1> QED
  BY <1>3

(* No write changes the class of a block below cur_offset, which those     *)
(* that callers hold are.                                                  *)
LEMMA WriteKeepsIdx ==
  ASSUME CrashInv, write
  PROVE  /\ \A x \in Blocks : x # cur_offset => hdr'[x].idx = hdr[x].idx
         /\ \A x \in DOMAIN live : hdr'[x].idx = hdr[x].idx
         /\ Blocks \subseteq Blocks' /\ Blocks' \subseteq Blocks \cup {cur_offset}
<1>1. PICK w, c, b, list : /\ w = Head(todo) /\ c = arg.c /\ b = arg.b
                           /\ list = free_blk_list[c]
  OBVIOUS
<1>2. /\ hdr' = HdrWrite(w, list, b, c) /\ todo # <<>>
      /\ hdr \in Headers(Blocks, Classes)
      /\ DOMAIN live \subseteq Blocks /\ cur_offset \notin DOMAIN live
  BY <1>1 DEF write, CrashInv, MemoryOK, TypeOK, Headers
<1>3. CASE w = "hdr->idx"
  <2>1. b = cur_offset
    BY <1>1, <1>2, <1>3, IdxWriter
  <2>2. (\A x \in Blocks : x # b => hdr'[x] = hdr[x]) /\ Blocks' = Blocks \cup {b}
    BY <1>2, <1>3 DEF HdrWrite, Blocks
  <2> QED
    BY <2>1, <2>2, <1>2
<1>4. CASE w # "hdr->idx"
  <2>1. \/ hdr' = hdr
        \/ \E a, v : hdr' = WithNext(hdr, a, v)
        \/ \E a, v : hdr' = WithPrev(hdr, a, v)
    <3>1. CASE w = "q->prev"
      <4>1. hdr' = WithPrev(hdr, hdr[b].next_offset, NIL)
        BY <3>1, <1>2 DEF HdrWrite, WithPrev
      <4> QED
        BY <4>1
    <3>2. CASE w = "blk->prev"
      <4>1. hdr' = WithPrev(hdr, b, IF list.size = 0 THEN NIL ELSE list.tail_offset)
        BY <3>2, <1>2 DEF HdrWrite, WithPrev
      <4> QED
        BY <4>1
    <3>3. CASE w = "tail->next"
      <4>1. hdr' = WithNext(hdr, list.tail_offset, b)
        BY <3>3, <1>2 DEF HdrWrite, WithNext
      <4> QED
        BY <4>1
    <3>4. CASE w = "blk->next"
      <4>1. hdr' = WithNext(hdr, b, NIL)
        BY <3>4, <1>2 DEF HdrWrite, WithNext
      <4> QED
        BY <4>1
    <3>5. CASE w \notin {"hdr->idx", "q->prev", "blk->prev", "tail->next", "blk->next"}
      BY <3>5, <1>2 DEF HdrWrite
    <3> QED
      BY <1>4, <3>1, <3>2, <3>3, <3>4, <3>5
  <2>2. CASE hdr' = hdr
    BY <2>2, <1>2 DEF Blocks
  <2>3. CASE \E a, v : hdr' = WithNext(hdr, a, v)
    <3>1. PICK a, v : hdr' = WithNext(hdr, a, v)
      BY <2>3
    <3>2. /\ \A x \in Blocks : WithNext(hdr, a, v)[x].idx = hdr[x].idx
          /\ DOMAIN WithNext(hdr, a, v) = Blocks
      BY <1>2, LinkKeepsIdx DEF WithNext, Blocks
    <3> QED
      BY <3>1, <3>2, <1>2 DEF Blocks
  <2>4. CASE \E a, v : hdr' = WithPrev(hdr, a, v)
    <3>1. PICK a, v : hdr' = WithPrev(hdr, a, v)
      BY <2>4
    <3>2. /\ \A x \in Blocks : WithPrev(hdr, a, v)[x].idx = hdr[x].idx
          /\ DOMAIN WithPrev(hdr, a, v) = Blocks
      BY <1>2, LinkKeepsIdx DEF WithPrev, Blocks
    <3> QED
      BY <3>1, <3>2, <1>2 DEF Blocks
  <2> QED
    BY <2>1, <2>2, <2>3, <2>4
<1> QED
  BY <1>3, <1>4

(* Under the invariant the blocks held do not overlap. *)
LEMMA CrashHeldApart == CrashInv => HeldApart
<1> SUFFICES ASSUME CrashInv PROVE HeldApart
  OBVIOUS
<1>1. ASSUME NEW b \in DOMAIN live PROVE End(b) <= POOL_SIZE
  <2>1. /\ b \in Blocks /\ b < cur_offset /\ cur_offset \in 1 .. POOL_SIZE
        /\ End(b) <= cur_offset /\ b \in 1 .. POOL_SIZE /\ hdr[b].idx \in Classes
    BY DEF CrashInv, MemoryOK, TypeOK
  <2>2. blk_size(hdr[b].idx) \in Nat
    BY <2>1, PoolAssumption DEF blk_size, Capacity, Classes
  <2> QED
    BY <2>1, <2>2, PoolAssumption DEF End
<1> QED
  BY <1>1 DEF CrashInv, MemoryOK, TypeOK, HeldApart

(* Callers that deal with lists no kill has torn, or with one kill at      *)
(* most, see an allocator of disjoint extents, whatever write of a malloc  *)
(* or a free the kills came before.                                        *)
THEOREM CrashAllocates == CrashSpec => AllocatesAcrossKills
<1>1. CrashInit => Abs!Init
  BY DEF CrashInit, Init, touchdb_pool_init, Abs!Init, Abs!NULL, Held, Got
<1>2. ASSUME CrashInv, HeldApart, HeldApart', CrashNext, Intact(arg.c)'
      PROVE  [Abs!Next]_<<Held, Got>>
  <2>1. ASSUME live' = live, ret' = ret, \A x \in DOMAIN live : hdr'[x].idx = hdr[x].idx
        PROVE  [Abs!Next]_<<Held, Got>>
    <3>1. \A x \in DOMAIN live : (x + BLK_HDR_SIZE) - BLK_HDR_SIZE = x
      BY <1>2, PoolAssumption DEF HeldApart, TypeOK
    <3>2. Held' = Held
      BY <3>1, <2>1 DEF Held, Capacity
    <3> QED
      BY <3>2, <2>1 DEF Got
  <2>2. ASSUME NEW size \in Sizes, begin_malloc(size) PROVE [Abs!Next]_<<Held, Got>>
    BY <2>1, <2>2 DEF begin_malloc, begin, use_nil_offset
  <2>3. ASSUME NEW b \in DOMAIN live, begin_free(b) PROVE [Abs!Next]_<<Held, Got>>
    <3>1. CASE use_nil_offset
      BY <2>1, <3>1 DEF use_nil_offset
    <3>2. CASE ~ use_nil_offset
      <4>1. live' = [x \in DOMAIN live \ {b} |-> live[x]] /\ ret' = ret /\ hdr' = hdr
        BY <2>3, <3>2 DEF begin_free, begin
      <4>2. \E q \in DOMAIN Held : Abs!Free(q)
        BY <4>1, <1>2, FreeIsFree DEF HeldApart
      <4> QED
        BY <4>2 DEF Abs!Next
    <3> QED
      BY <3>1, <3>2
  <2>4. CASE write
    <3>1. /\ \A x \in DOMAIN live : hdr'[x].idx = hdr[x].idx
          /\ todo # <<>> /\ Intact(arg.c)
      BY <1>2, <2>4, WriteKeepsIdx DEF write, Intact
    <3>2. CASE Len(todo) = 1 /\ arg.size # 0
      <4>1. PICK b, size : b = arg.b /\ size = arg.size
        OBVIOUS
      <4>2. /\ live' = [x \in DOMAIN live \cup {b} |-> IF x = b THEN size ELSE live[x]]
            /\ ret' = b
        BY <2>4, <3>2, <4>1 DEF write, Hold
      <4>3. size \in Sizes /\ b \notin DOMAIN live
        BY <1>2, <3>1, <3>2, <4>1, NotHeld DEF CrashInv, CallOK
      <4>4. Abs!Malloc(size)
        BY <1>2, <3>1, <4>2, <4>3, HoldIsMalloc
      <4> QED
        BY <4>3, <4>4 DEF Abs!Next
    <3>3. CASE ~ (Len(todo) = 1 /\ arg.size # 0)
      BY <2>1, <2>4, <3>1, <3>3 DEF write
    <3> QED
      BY <3>2, <3>3
  <2>5. CASE crash
    BY <2>1, <2>5 DEF crash, vars
  <2> QED
    BY <1>2, <2>2, <2>3, <2>4, <2>5 DEF CrashNext
<1>3. CrashInv /\ HeldApart /\ HeldApart' /\ [CrashNext]_crashVars
        => [Intact(arg.c)' => [Abs!Next]_<<Held, Got>>]_crashVars
  BY <1>2
<1> QED
  BY <1>1, <1>3, CrashHeldApart, CrashInvariant, PTL DEF CrashSpec, AllocatesAcrossKills

-----------------------------------------------------------------------------
(* What a kill can lose.  The pairs of a class of D and a position in its  *)
(* list, of which Counted is the instance for the lists not torn.          *)
Pairs(L, D) == UNION {{c} \X (1 .. L[c].size) : c \in D}

(* What it is to be a counted place of a list. *)
LEMMA PairsMember ==
  ASSUME NEW L, NEW D
  PROVE  \A p : p \in Pairs(L, D) <=> \E c \in D : \E i \in 1 .. L[c].size : p = <<c, i>>
<1>1. ASSUME NEW p, p \in Pairs(L, D)
      PROVE  \E c \in D : \E i \in 1 .. L[c].size : p = <<c, i>>
  <2>1. PICK c \in D : p \in {c} \X (1 .. L[c].size)
    BY <1>1 DEF Pairs
  <2> QED
    BY <2>1
<1>2. ASSUME NEW c \in D, NEW i \in 1 .. L[c].size
      PROVE  <<c, i>> \in Pairs(L, D)
  BY DEF Pairs
<1> QED
  BY <1>1, <1>2

(* Lists of the same sizes count the same. *)
LEMMA PairsSame ==
  ASSUME NEW D, NEW L, NEW M, \A d \in D : M[d].size = L[d].size
  PROVE  Pairs(M, D) = Pairs(L, D)
BY DEF Pairs

(* A list that is one longer counts one pair more. *)
LEMMA PairsGrow ==
  ASSUME NEW D, NEW L, NEW M, NEW c \in D, \A d \in D \ {c} : M[d].size = L[d].size,
         NEW n \in Nat, L[c].size = n, M[c].size = n + 1
  PROVE  Pairs(M, D) = Pairs(L, D) \cup {<<c, n + 1>>} /\ <<c, n + 1>> \notin Pairs(L, D)
<1>1. \A p : p \in Pairs(L, D) <=> \E d \in D : \E i \in 1 .. L[d].size : p = <<d, i>>
  BY PairsMember
<1>2. \A p : p \in Pairs(M, D) <=> \E d \in D : \E i \in 1 .. M[d].size : p = <<d, i>>
  BY PairsMember
<1>3. <<c, n + 1>> \notin Pairs(L, D)
  BY <1>1
<1>4. 1 .. n + 1 = (1 .. n) \cup {n + 1}
  OBVIOUS
<1>5. ASSUME NEW p, p \in Pairs(M, D) PROVE p \in Pairs(L, D) \cup {<<c, n + 1>>}
  <2>1. PICK d \in D : \E i \in 1 .. M[d].size : p = <<d, i>>
    BY <1>2, <1>5
  <2>2. PICK i \in 1 .. M[d].size : p = <<d, i>>
    BY <2>1
  <2>3. CASE d = c
    BY <2>2, <2>3, <1>1, <1>4
  <2>4. CASE d # c
    BY <2>2, <2>4, <1>1
  <2> QED
    BY <2>3, <2>4
<1>6. ASSUME NEW p, p \in Pairs(L, D) PROVE p \in Pairs(M, D)
  <2>1. PICK d \in D : \E i \in 1 .. L[d].size : p = <<d, i>>
    BY <1>1, <1>6
  <2>2. PICK i \in 1 .. L[d].size : p = <<d, i>>
    BY <2>1
  <2>3. i \in 1 .. M[d].size
    BY <1>4
  <2> QED
    BY <2>2, <2>3, <1>2
<1>7. <<c, n + 1>> \in Pairs(M, D)
  BY <1>2
<1> QED
  BY <1>3, <1>5, <1>6, <1>7

(* Leaving out a list leaves out its size. *)
LEMMA PairsDrop ==
  ASSUME NEW D, NEW L, NEW c \in D, NEW n \in Nat, L[c].size = n, IsFiniteSet(Pairs(L, D))
  PROVE  /\ IsFiniteSet(Pairs(L, D \ {c}))
         /\ Cardinality(Pairs(L, D \ {c})) = Cardinality(Pairs(L, D)) - n
<1> DEFINE E == {c} \X (1 .. n)
<1>1. \A p : p \in Pairs(L, D) <=> \E d \in D : \E i \in 1 .. L[d].size : p = <<d, i>>
  BY PairsMember
<1>2. \A p : p \in Pairs(L, D \ {c}) <=> \E d \in D \ {c} : \E i \in 1 .. L[d].size : p = <<d, i>>
  BY PairsMember
<1>3. \A p : p \in E <=> \E i \in 1 .. n : p = <<c, i>>
  OBVIOUS
<1>4. E \subseteq Pairs(L, D)
  BY <1>1, <1>3
<1>5. Pairs(L, D \ {c}) = Pairs(L, D) \ E
  BY <1>1, <1>2, <1>3
<1>6. IsFiniteSet(E) /\ Cardinality(E) = n
  <2>1. IsFiniteSet({c}) /\ Cardinality({c}) = 1
    BY FS_Singleton
  <2>2. IsFiniteSet(1 .. n) /\ Cardinality(1 .. n) = n
    BY FS_Interval
  <2>3. IsFiniteSet(E) /\ Cardinality(E) = Cardinality({c}) * Cardinality(1 .. n)
    BY <2>1, <2>2, FS_Product
  <2> QED
    BY <2>1, <2>2, <2>3
<1>7. Pairs(L, D) \cap E = E
  BY <1>4
<1>8. /\ IsFiniteSet(Pairs(L, D) \ E)
      /\ Cardinality(Pairs(L, D) \ E) = Cardinality(Pairs(L, D)) - Cardinality(Pairs(L, D) \cap E)
  BY FS_Difference
<1> QED
  BY <1>5, <1>6, <1>7, <1>8

(* The blocks of a path are as many as it is long. *)
LEMMA PathCount ==
  ASSUME NEW S, IsFiniteSet(S), NEW m \in Nat, NEW s \in [1 .. m -> S],
         \A i, j \in 1 .. m : s[i] = s[j] => i = j
  PROVE  m <= Cardinality(S)
<1>1. s \in Injection(1 .. m, S)
  BY DEF Injection, IsInjective
<1>2. Cardinality(1 .. m) <= Cardinality(S)
  BY <1>1, FS_Injection
<1>3. Cardinality(1 .. m) = m
  BY FS_Interval
<1> QED
  BY <1>2, <1>3

(* The bound of LossBounded as it is kept by every step: while a free is   *)
(* on its way to size++ its block is neither held nor counted.             *)
LossInv == IsFiniteSet(Counted) /\ LossOK

(* Finitely many blocks were carved and are not held. *)
LEMMA UnheldFinite ==
  ASSUME MemoryOK
  PROVE  IsFiniteSet(Unheld) /\ Cardinality(Unheld) \in Nat
<1>1. Unheld \in SUBSET (1 .. POOL_SIZE)
  BY DEF MemoryOK, TypeOK, Unheld
<1>2. IsFiniteSet(1 .. POOL_SIZE)
  BY FS_Interval, PoolAssumption
<1>3. IsFiniteSet(Unheld)
  BY <1>1, <1>2, FS_Subset
<1> QED
  BY <1>3, FS_CardinalityType

(* Finitely many lists are torn. *)
LEMMA TornFinite ==
  ASSUME KillsOK
  PROVE  IsFiniteSet(torn) /\ Cardinality(torn) \in Nat
<1>1. IsFiniteSet(Classes)
  BY FS_Interval, PoolAssumption DEF Classes
<1>2. torn \in SUBSET Classes
  BY DEF KillsOK
<1>3. IsFiniteSet(torn)
  BY <1>1, <1>2, FS_Subset
<1> QED
  BY <1>3, FS_CardinalityType

(* Whether a free whose block is still uncounted is in progress. *)
Pending == IF todo # <<>> /\ arg.size = 0 /\ arg.c \notin torn THEN 1 ELSE 0

(* The loss, in numbers. *)
LEMMA LossIs ==
  ASSUME CrashInv, LossInv
  PROVE  /\ IsFiniteSet(Unheld) /\ Cardinality(Unheld) \in Nat
         /\ IsFiniteSet(Counted) /\ Cardinality(Counted) \in Nat
         /\ IsFiniteSet(torn) /\ Cardinality(torn) \in Nat
         /\ crashes \in Nat /\ Pending \in {0, 1}
         /\ Counted = Pairs(free_blk_list, Classes \ torn)
         /\ Cardinality(Unheld) - Cardinality(Counted) <= crashes - Cardinality(torn) + Pending
<1>1. IsFiniteSet(Counted) /\ Cardinality(Counted) \in Nat
  BY FS_CardinalityType DEF LossInv
<1>2. /\ IsFiniteSet(Unheld) /\ Cardinality(Unheld) \in Nat
      /\ IsFiniteSet(torn) /\ Cardinality(torn) \in Nat
      /\ crashes \in Nat
  BY UnheldFinite, TornFinite DEF CrashInv, KillsOK
<1>3. Counted = Pairs(free_blk_list, Classes \ torn)
  BY DEF Counted, Pairs
<1>4. Cardinality(Unheld) - Cardinality(Counted) <= crashes - Cardinality(torn) + Pending
  BY DEF LossInv, LossOK, Pending
<1> QED
  BY <1>1, <1>2, <1>3, <1>4 DEF Pending

(* The bound after a step, in terms of the sets it leaves. *)
LEMMA LossStep ==
  ASSUME NEW U, NEW C, NEW T, NEW p, U = Unheld', C = Counted', T = torn', p = Pending',
         IsFiniteSet(C), Cardinality(U) - Cardinality(C) <= crashes' - Cardinality(T) + p
  PROVE  LossInv'
BY DEF LossInv, LossOK, Pending

(* A step that changes no block, no holder, no size and no kill count. *)
LEMMA LossSame ==
  ASSUME CrashInv, LossInv, Unheld' = Unheld, Counted' = Counted,
         crashes' = crashes, torn' = torn, Pending' = Pending
  PROVE  LossInv'
BY DEF LossInv, LossOK, Pending

(* A call of pool_malloc that begins loses nothing. *)
LEMMA BeginMallocLoss ==
  ASSUME CrashInv, LossInv, NEW size \in Sizes, begin_malloc(size)
  PROVE  LossInv'
<1>1. /\ UNCHANGED <<free_blk_list, cur_offset, hdr, live, crashes, torn>>
      /\ todo = <<>>
      /\ todo' = <<>> \/ arg'.size = size
  BY DEF begin_malloc, begin, use_nil_offset, Idle
<1>2. size # 0
  <2>1. free_list_idx(0) = -1
    BY DEF free_list_idx
  <2> QED
    BY <2>1, PoolAssumption DEF begin_malloc, Classes
<1>3. Unheld' = Unheld /\ Counted' = Counted /\ Pending' = Pending
  BY <1>1, <1>2 DEF Unheld, Counted, Pending, Blocks
<1> QED
  BY <1>1, <1>3, LossSame

(* A call of pool_free that begins loses nothing. *)
LEMMA BeginFreeLoss ==
  ASSUME CrashInv, LossInv, NEW b \in DOMAIN live, begin_free(b)
  PROVE  LossInv'
<1>1. CASE use_nil_offset
  <2>1. Unheld' = Unheld /\ Counted' = Counted /\ Pending' = Pending
    BY <1>1 DEF use_nil_offset, Unheld, Counted, Pending, Blocks
  <2> QED
    BY <1>1, <2>1, LossSame DEF use_nil_offset
<1>2. CASE ~ use_nil_offset
  <2>1. PICK c : c = hdr[b].idx
    OBVIOUS
  <2>2. PICK n : begin(c, b, 0, push_writes(n))
    BY <1>2, <2>1 DEF begin_free
  <2>3. /\ UNCHANGED <<free_blk_list, cur_offset, hdr, crashes, torn>>
        /\ todo = <<>> /\ arg'.c = c /\ arg'.size = 0 /\ todo' = push_writes(n)
        /\ live' = [x \in DOMAIN live \ {b} |-> live[x]]
    BY <1>2, <2>1, <2>2 DEF begin_free, begin, Idle
  <2>4. push_writes(n) # <<>>
    BY DEF push_writes
  <2>5. b \in Blocks /\ b < cur_offset /\ b \notin Unheld
    BY DEF CrashInv, MemoryOK, TypeOK, Unheld
  <2>6. Counted' = Counted /\ Pending = 0
    BY <2>3 DEF Counted, Pending
  <2>7. CASE c \in torn
    <3>1. Unheld' = Unheld
      BY <2>1, <2>3, <2>5, <2>7 DEF Unheld, Blocks
    <3>2. Pending' = Pending
      BY <2>3, <2>6, <2>7 DEF Pending
    <3> QED
      BY <2>3, <2>6, <3>1, <3>2, LossSame
  <2>8. CASE c \notin torn
    <3>1. PICK U : U = Unheld \cup {b}
      OBVIOUS
    <3>2. Unheld' = U
      BY <2>1, <2>3, <2>5, <2>8, <3>1 DEF Unheld, Blocks
    <3>3. Pending' = 1
      BY <2>3, <2>4, <2>8 DEF Pending
    <3>4. Cardinality(U) = Cardinality(Unheld) + 1
      BY <2>5, <3>1, LossIs, FS_AddElement
    <3>5. PICK C, T : C = Counted /\ T = torn
      OBVIOUS
    <3>6. Cardinality(U) - Cardinality(C) <= crashes' - Cardinality(T) + 1
      BY <2>3, <2>6, <3>4, <3>5, LossIs
    <3>7. IsFiniteSet(C)
      BY <3>5, LossIs
    <3> QED
      BY <2>3, <2>6, <3>2, <3>3, <3>5, <3>6, <3>7, LossStep
  <2> QED
    BY <2>7, <2>8
<1> QED
  BY <1>1, <1>2

(* The blocks nobody holds are those before the write when it moves no     *)
(* holder and not cur_offset.                                              *)
LEMMA UnheldKept ==
  ASSUME CrashInv, write, UNCHANGED <<cur_offset, live, torn>>
  PROVE  Unheld' = Unheld
<1>1. /\ \A x \in Blocks : x # cur_offset => hdr'[x].idx = hdr[x].idx
      /\ Blocks \subseteq Blocks' /\ Blocks' \subseteq Blocks \cup {cur_offset}
  BY WriteKeepsIdx
<1>2. cur_offset \in Int
  BY DEF CrashInv, MemoryOK, TypeOK
<1>3. \A x : x \in Unheld' <=> x \in Unheld
  BY <1>1, <1>2 DEF Unheld
<1> QED
  BY <1>3

(* A write in the middle of a call neither counts nor holds a block. *)
LEMMA WriteMiddleLoss ==
  ASSUME CrashInv, LossInv, write, Len(todo) # 1
  PROVE  LossInv'
<1>1. PICK w, c, b, list : /\ w = Head(todo) /\ c = arg.c /\ b = arg.b
                           /\ list = free_blk_list[c]
  OBVIOUS
<1>2. /\ c \in Classes /\ todo # <<>>
      /\ Carving(c, b, list) \/ Popping(c, b, list) \/ Pushing(c, b, list)
  BY <1>1 DEF CrashInv, CallOK, write
<1>3. w \notin {"cur_offset", "list->size--", "list->size++"} /\ todo' = Tail(todo) /\ todo' # <<>>
  BY <1>1, <1>2, CallKind DEF write
<1>4. /\ free_blk_list' = [d \in Classes |-> free_blk_list'[d]]
      /\ \A d \in Classes \ {c} : free_blk_list'[d] = free_blk_list[d]
      /\ free_blk_list'[c] = ListWrite(w, list, b)
      /\ UNCHANGED <<cur_offset, live, ret, wild, arg, crashes, torn>>
  BY <1>1, <1>2, <1>3, WriteEffect
<1>5. ListWrite(w, list, b).size = list.size
  <2>1. list \in ListType(c)
    BY <1>1, <1>2, ListTyped DEF CrashInv
  <2> QED
    BY <2>1, <1>3 DEF ListWrite, ListType
<1>6. \A d \in Classes \ torn : free_blk_list'[d].size = free_blk_list[d].size
  BY <1>1, <1>4, <1>5
<1>7. Counted' = Counted
  <2>1. PICK L, D : L = free_blk_list' /\ D = Classes \ torn
    OBVIOUS
  <2>2. Pairs(L, D) = Pairs(free_blk_list, D)
    BY <2>1, <1>6, PairsSame
  <2>3. Counted = Pairs(free_blk_list, D) /\ Counted' = Pairs(L, D)
    BY <2>1, <1>4 DEF Counted, Pairs
  <2> QED
    BY <2>2, <2>3
<1>8. Unheld' = Unheld
  BY <1>4, UnheldKept
<1>9. Pending' = Pending
  BY <1>2, <1>3, <1>4 DEF Pending
<1> QED
  BY <1>4, <1>7, <1>8, <1>9, LossSame

(* list->size++ counts the freed block. *)
LEMMA WritePushedLoss ==
  ASSUME CrashInv, LossInv, write, Len(todo) = 1,
         NEW c \in Classes, c = arg.c, NEW b, b = arg.b, NEW list, list = free_blk_list[c],
         arg.size = 0, Pushing(c, b, list)
  PROVE  LossInv'
<1>1. Head(todo) = "list->size++" /\ Tail(todo) = <<>>
  BY CallKind
<1>2. /\ free_blk_list' = [d \in Classes |-> free_blk_list'[d]]
      /\ \A d \in Classes \ {c} : free_blk_list'[d] = free_blk_list[d]
      /\ free_blk_list'[c] = ListWrite("list->size++", list, b)
      /\ UNCHANGED <<cur_offset, live, ret, wild, arg, crashes, torn>>
      /\ todo' = <<>> /\ todo # <<>>
  BY <1>1, WriteEffect
<1>3. PICK n \in Nat : n = list.size /\ ListWrite("list->size++", list, b).size = n + 1
  <2>1. list \in ListType(c)
    BY ListTyped DEF CrashInv
  <2> QED
    BY <2>1 DEF ListWrite, ListType
<1>4. PICK L, M, D, U : L = free_blk_list /\ M = free_blk_list' /\ D = Classes \ torn /\ U = Unheld
  OBVIOUS
<1>5. Counted = Pairs(L, D) /\ Counted' = Pairs(M, D)
  BY <1>2, <1>4 DEF Counted, Pairs
<1>6. Unheld' = Unheld /\ Pending' = 0
  <2>1. Unheld' = Unheld
    BY <1>2, UnheldKept
  <2>2. Pending' = 0
    BY <1>2 DEF Pending
  <2> QED
    BY <2>1, <2>2
<1>7. CASE c \in torn
  <2>1. \A d \in D : M[d].size = L[d].size
    BY <1>2, <1>4, <1>7
  <2>2. Counted' = Counted
    BY <2>1, <1>5, PairsSame
  <2>3. Pending = 0
    BY <1>7 DEF Pending
  <2> QED
    BY <2>2, <2>3, <1>2, <1>6, LossSame
<1>8. CASE c \notin torn
  <2>1. c \in D /\ (\A d \in D \ {c} : M[d].size = L[d].size) /\ L[c].size = n /\ M[c].size = n + 1
    BY <1>2, <1>3, <1>4, <1>8
  <2>2. PICK C, x : C = Pairs(M, D) /\ x = <<c, n + 1>>
    OBVIOUS
  <2>3. C = Pairs(L, D) \cup {x} /\ x \notin Pairs(L, D)
    BY <2>1, <2>2, PairsGrow
  <2>4. IsFiniteSet(C) /\ Cardinality(C) = Cardinality(Pairs(L, D)) + 1
    BY <2>3, <1>5, LossIs, FS_AddElement
  <2>5. Pending = 1
    BY <1>2, <1>8 DEF Pending
  <2>6. PICK T : T = torn
    OBVIOUS
  <2>7. Cardinality(U) - Cardinality(C) <= crashes' - Cardinality(T) + 0
    BY <2>4, <2>5, <2>6, <1>2, <1>4, <1>5, LossIs
  <2> QED
    BY <2>2, <2>4, <2>6, <2>7, <1>2, <1>4, <1>5, <1>6, LossStep
<1> QED
  BY <1>7, <1>8

(* cur_offset passes a block that is held from now on. *)
LEMMA WriteCarvedLoss ==
  ASSUME CrashInv, LossInv, write, Len(todo) = 1,
         NEW c \in Classes, c = arg.c, NEW b, b = arg.b, NEW list, list = free_blk_list[c],
         arg.size # 0, Carving(c, b, list)
  PROVE  LossInv'
<1>1. Head(todo) = "cur_offset" /\ Tail(todo) = <<>> /\ todo # <<>>
  BY CallKind
<1>2. todo = <<"cur_offset">> /\ b = cur_offset
  <2>1. Len(carve_writes) = 2
    BY DEF carve_writes
  <2> QED
    BY <2>1 DEF Carving
<1>3. /\ ListWrite("cur_offset", list, b) = list
      /\ HdrWrite("cur_offset", list, b, c) = hdr
  BY DEF ListWrite, HdrWrite
<1>4. /\ free_blk_list' = [d \in Classes |-> free_blk_list'[d]]
      /\ \A d \in Classes \ {c} : free_blk_list'[d] = free_blk_list[d]
      /\ free_blk_list'[c] = list
      /\ hdr' = hdr /\ cur_offset' = cur_offset + blk_size(c)
      /\ Hold(b, arg.size) /\ todo' = <<>>
      /\ UNCHANGED <<arg, crashes, torn>>
  BY <1>2, <1>3, LastWrite
<1>5. free_blk_list' = free_blk_list /\ DOMAIN live' = DOMAIN live \cup {b}
  BY <1>4 DEF Hold, CrashInv, MemoryOK, TypeOK
<1>6. Counted' = Counted /\ Pending' = Pending
  BY <1>4, <1>5 DEF Counted, Pending
<1>7. ASSUME NEW x \in Blocks
      PROVE  x < cur_offset' /\ x \notin DOMAIN live' <=> x < cur_offset /\ x \notin DOMAIN live
  <2>1. /\ x \in Int /\ cur_offset \in Int /\ x <= cur_offset
        /\ cur_offset \notin DOMAIN live
    BY DEF CrashInv, MemoryOK, TypeOK
  <2>2. blk_size(c) \in Nat /\ blk_size(c) > 0
    BY PoolAssumption DEF blk_size, Capacity, Classes
  <2> QED
    BY <2>1, <2>2, <1>2, <1>4, <1>5
<1>8. Unheld' = Unheld
  BY <1>4, <1>7 DEF Unheld, Blocks
<1> QED
  BY <1>4, <1>6, <1>8, LossSame

(* list->size-- stops counting the block that the caller then holds. *)
LEMMA WritePoppedLoss ==
  ASSUME CrashInv, LossInv, write, Len(todo) = 1,
         NEW c \in Classes, c = arg.c, NEW b, b = arg.b, NEW list, list = free_blk_list[c],
         arg.size # 0, Popping(c, b, list)
  PROVE  LossInv'
<1>1. Head(todo) = "list->size--" /\ Tail(todo) = <<>> /\ todo # <<>>
  BY CallKind
<1>2. PICK n \in Nat : list.size = n + 1 /\ ListWrite("list->size--", list, b).size = n
  <2>1. list \in ListType(c) /\ list.size # 0
    BY ListTyped DEF CrashInv, Popping
  <2>2. list.size \in Nat /\ list.size - 1 \in Nat /\ list.size = (list.size - 1) + 1
    BY <2>1 DEF ListType
  <2>3. ListWrite("list->size--", list, b).size = list.size - 1
    BY <2>1 DEF ListWrite, ListType
  <2> QED
    BY <2>2, <2>3
<1>3. /\ free_blk_list' = [d \in Classes |-> free_blk_list'[d]]
      /\ \A d \in Classes \ {c} : free_blk_list'[d] = free_blk_list[d]
      /\ free_blk_list'[c] = ListWrite("list->size--", list, b)
      /\ hdr' = hdr /\ cur_offset' = cur_offset
      /\ DOMAIN live' = DOMAIN live \cup {b} /\ todo' = <<>>
      /\ UNCHANGED <<arg, crashes, torn>>
  <2>1. todo = <<"list->size--">>
    <3>1. Len(<<"q->prev", "list->header=next", "list->size--">>) = 3
      OBVIOUS
    <3>2. Len(<<"list->tail=NIL", "list->header=next", "list->size--">>) = 3
      OBVIOUS
    <3>3. Len(<<"list->header=next", "list->size--">>) = 2
      OBVIOUS
    <3> QED
      BY <3>1, <3>2, <3>3 DEF Popping, PopBegun, PopBeforeHeader, PopBeforeSize, pop_writes
  <2>2. HdrWrite("list->size--", list, b, c) = hdr
    BY DEF HdrWrite
  <2>3. /\ free_blk_list' = [d \in Classes |-> free_blk_list'[d]]
        /\ \A d \in Classes \ {c} : free_blk_list'[d] = free_blk_list[d]
        /\ free_blk_list'[c] = ListWrite("list->size--", list, b)
        /\ hdr' = hdr /\ cur_offset' = cur_offset
        /\ Hold(b, arg.size) /\ todo' = <<>>
        /\ UNCHANGED <<arg, crashes, torn>>
    BY <2>1, <2>2, LastWrite
  <2>4. DOMAIN live' = DOMAIN live \cup {b}
    BY <2>3 DEF Hold
  <2> QED
    BY <2>3, <2>4
<1>4. b \in Blocks /\ hdr[b].idx = c /\ b < cur_offset
  BY DEF Popping, Carved
<1>5. PICK L, M, D, T : L = free_blk_list /\ M = free_blk_list' /\ D = Classes \ torn /\ T = torn
  OBVIOUS
<1>6. Counted = Pairs(L, D) /\ Counted' = Pairs(M, D) /\ Pending = 0 /\ Pending' = 0
  BY <1>3, <1>5 DEF Counted, Pairs, Pending
<1>7. CASE c \in torn
  <2>1. \A d \in D : M[d].size = L[d].size
    BY <1>3, <1>5, <1>7
  <2>2. Counted' = Counted
    BY <2>1, <1>6, PairsSame
  <2>3. Unheld' = Unheld
    BY <1>3, <1>4, <1>7 DEF Unheld, Blocks
  <2> QED
    BY <2>2, <2>3, <1>3, <1>6, LossSame
<1>8. CASE c \notin torn
  <2>1. c \in D /\ (\A d \in D \ {c} : L[d].size = M[d].size) /\ L[c].size = n + 1 /\ M[c].size = n
    BY <1>2, <1>3, <1>5, <1>8
  <2>2. PICK U, C, x : U = Unheld \ {b} /\ C = Pairs(M, D) /\ x = <<c, n + 1>>
    OBVIOUS
  <2>3. Pairs(L, D) = C \cup {x} /\ x \notin C
    BY <2>1, <2>2, PairsGrow
  <2>4. C = Pairs(L, D) \ {x} /\ x \in Pairs(L, D)
    BY <2>3
  <2>5. IsFiniteSet(C) /\ Cardinality(C) = Cardinality(Pairs(L, D)) - 1
    BY <2>4, <1>6, LossIs, FS_RemoveElement
  <2>6. Unheld' = U
    BY <2>2, <1>3 DEF Unheld, Blocks
  <2>7. b \in Unheld
    BY <1>4, <1>8 DEF Unheld, Popping, Intact
  <2>8. Cardinality(U) = Cardinality(Unheld) - 1
    BY <2>2, <2>7, LossIs, FS_RemoveElement
  <2>9. Cardinality(U) - Cardinality(C) <= crashes' - Cardinality(T) + 0
    BY <2>5, <2>8, <1>3, <1>5, <1>6, LossIs
  <2> QED
    BY <2>2, <2>5, <2>6, <2>9, <1>3, <1>5, <1>6, LossStep
<1> QED
  BY <1>7, <1>8

(* While a block is unlinked the free blocks of its class, that block      *)
(* included, are as many as the size says, or more.                        *)
LEMMA PoppingCount ==
  ASSUME CrashInv, NEW c \in Classes, NEW b, NEW list, list = free_blk_list[c],
         Popping(c, b, list), c \notin torn
  PROVE  list.size <= Cardinality(Own(c))
<1>1. PICK h, t, n, O : h = list.header_offset /\ t = list.tail_offset /\ n = list.size /\ O = Own(c)
  OBVIOUS
<1>2. n \in Nat /\ n # 0 /\ b \in O /\ Intact(c) /\ IsFiniteSet(O) /\ Cardinality(O) \in Nat
  <2>1. Intact(c) /\ b \in O /\ n # 0 /\ n \in Nat
    BY <1>1, ListTyped DEF Intact, Popping, Own, CrashInv, ListType
  <2>2. IsFiniteSet(Unheld) /\ O \in SUBSET Unheld
    BY <1>1, UnheldFinite DEF CrashInv, Own, Carved, Unheld
  <2>3. IsFiniteSet(O)
    BY <2>2, FS_Subset
  <2> QED
    BY <2>1, <2>3, FS_CardinalityType
<1>3. ASSUME NEW S, NEW a, NEW k, S = O \ a, Lined(a, c, h, t, k) \/ Lined(a, c, b, t, k), k \in Int
      PROVE  k <= Cardinality(S)
  <2>1. PICK g : Lined(a, c, g, t, k)
    BY <1>3
  <2>2. PICK m \in Nat : \E s \in [1 .. m -> Own(c) \ a] : Line(s, m, c, g, t, k)
    BY <2>1 DEF Lined
  <2>3. PICK s \in [1 .. m -> Own(c) \ a] : Line(s, m, c, g, t, k)
    BY <2>2
  <2>4. k <= m /\ s \in [1 .. m -> S] /\ \A i, j \in 1 .. m : s[i] = s[j] => i = j
    BY <2>3, <1>1, <1>3 DEF Line, Path
  <2>5. IsFiniteSet(S) /\ Cardinality(S) \in Nat
    <3>1. S \in SUBSET O
      BY <1>3
    <3> QED
      BY <3>1, <1>2, FS_Subset, FS_CardinalityType
  <2>6. m <= Cardinality(S)
    BY <2>4, <2>5, PathCount
  <2> QED
    BY <2>4, <2>5, <2>6, <1>3
<1>4. CASE Lined({}, c, b, t, n)
  <2>1. O = O \ {}
    OBVIOUS
  <2> QED
    BY <2>1, <1>1, <1>2, <1>3, <1>4
<1>5. ASSUME n = 1 PROVE n <= Cardinality(O)
  <2>1. Cardinality(O) # 0
    BY <1>2, FS_EmptySet
  <2> QED
    BY <2>1, <1>2, <1>5
<1>6. CASE Lined({b}, c, h, t, n - 1)
  <2>1. PICK S : S = O \ {b}
    OBVIOUS
  <2>2. n - 1 <= Cardinality(S)
    BY <2>1, <1>2, <1>3, <1>6
  <2>3. Cardinality(S) = Cardinality(O) - 1
    BY <2>1, <1>2, FS_RemoveElement
  <2> QED
    BY <2>2, <2>3, <1>1, <1>2
<1>7. n = 1 \/ Lined({}, c, b, t, n) \/ Lined({b}, c, h, t, n - 1)
  BY <1>1, <1>2 DEF Popping, PopBegun, PopBeforeHeader, PopBeforeSize
<1> QED
  BY <1>1, <1>4, <1>5, <1>6, <1>7

(* A kill is one more that may have lost a block.  When it tears a list,   *)
(* that list no longer counts, neither do its blocks, and they were as     *)
(* many as it counted.                                                     *)
LEMMA CrashLoss ==
  ASSUME CrashInv, LossInv, crash
  PROVE  LossInv'
<1>1. PICK c, b, list, n : /\ c = arg.c /\ b = arg.b /\ list = free_blk_list[c]
                           /\ n = list.size
  OBVIOUS
<1>2. /\ c \in Classes /\ n \in Nat
      /\ \/ arg.size = 0 /\ Pushing(c, b, list)
         \/ arg.size # 0 /\ (Carving(c, b, list) \/ Popping(c, b, list))
  BY <1>1, ListTyped DEF CrashInv, CallOK, crash, ListType
<1>3. /\ UNCHANGED <<vars, arg>> /\ crashes \in Nat /\ crashes' = crashes + 1 /\ todo' = <<>>
      /\ torn' = (IF Unlinking THEN torn \cup {c} ELSE torn)
  BY <1>1, <1>2, CrashFrame
<1>4. UNCHANGED <<free_blk_list, cur_offset, hdr, live>> /\ Blocks' = Blocks
  BY <1>3 DEF vars, Blocks
<1>5. Pending' = 0
  BY <1>3 DEF Pending
<1>6. CASE torn' = torn
  <2>1. PICK U, C, T : U = Unheld /\ C = Counted /\ T = torn
    OBVIOUS
  <2>2. Unheld' = U /\ Counted' = C
    BY <2>1, <1>4, <1>6 DEF Unheld, Counted
  <2>3. Cardinality(U) - Cardinality(C) <= crashes' - Cardinality(T) + 0
    BY <2>1, <1>3, LossIs
  <2>4. IsFiniteSet(C)
    BY <2>1, LossIs
  <2> QED
    BY <2>1, <2>2, <2>3, <2>4, <1>5, <1>6, LossStep
<1>7. CASE torn' # torn
  <2>1. Unlinking /\ c \notin torn
    BY <1>3, <1>7
  <2>2. Popping(c, b, list) /\ Pending = 0
    <3>1. todo[Len(todo)] = "list->size--"
      BY <2>1 DEF Unlinking
    <3> QED
      BY <3>1, <1>2, CallKind DEF Pending
  <2>3. PICK L, D, T, U, O, C : /\ L = free_blk_list /\ D = Classes \ torn /\ T = torn \cup {c}
                                /\ O = Own(c) /\ U = Unheld \ O /\ C = Pairs(L, D \ {c})
    OBVIOUS
  <2>4. Unheld' = U /\ Counted' = C /\ torn' = T
    <3>1. torn' = T /\ Classes \ torn' = D \ {c}
      BY <2>1, <2>3, <1>3
    <3>2. Counted' = C
      BY <3>1, <2>3, <1>4 DEF Counted, Pairs
    <3>3. Unheld' = U
      BY <3>1, <2>3, <1>4 DEF Unheld, Own, Carved
    <3> QED
      BY <3>1, <3>2, <3>3
  <2>5. n <= Cardinality(O)
    BY <2>1, <2>2, <2>3, <1>1, <1>2, PoppingCount
  <2>6. Cardinality(U) = Cardinality(Unheld) - Cardinality(O) /\ Cardinality(O) \in Nat
    <3>1. Unheld \cap O = O
      BY <2>1, <2>3 DEF Unheld, Own, Carved
    <3>2. Cardinality(U) = Cardinality(Unheld) - Cardinality(Unheld \cap O)
      BY <2>3, LossIs, FS_Difference
    <3>3. IsFiniteSet(O)
      BY <3>1, LossIs, FS_Intersection
    <3> QED
      BY <3>1, <3>2, <3>3, FS_CardinalityType
  <2>7. IsFiniteSet(C) /\ Cardinality(C) = Cardinality(Counted) - n
    <3>1. Counted = Pairs(L, D) /\ IsFiniteSet(Counted) /\ c \in D /\ L[c].size = n
      BY <2>1, <2>3, <1>1, <1>2, LossIs
    <3> QED
      BY <3>1, <2>3, <1>2, PairsDrop
  <2>8. Cardinality(T) = Cardinality(torn) + 1
    BY <2>1, <2>3, LossIs, FS_AddElement
  <2>9. Cardinality(U) - Cardinality(C) <= crashes' - Cardinality(T) + 0
    BY <2>2, <2>5, <2>6, <2>7, <2>8, <1>2, <1>3, LossIs
  <2> QED
    BY <2>4, <2>7, <2>9, <1>5, LossStep
<1> QED
  BY <1>6, <1>7

(* A write loses nothing, but for the block that is between two places. *)
LEMMA WriteLoss ==
  ASSUME CrashInv, LossInv, write
  PROVE  LossInv'
<1>1. PICK c, b, list : c = arg.c /\ b = arg.b /\ list = free_blk_list[c]
  OBVIOUS
<1>2. /\ c \in Classes
      /\ \/ arg.size = 0 /\ Pushing(c, b, list)
         \/ arg.size # 0 /\ (Carving(c, b, list) \/ Popping(c, b, list))
  BY <1>1 DEF CrashInv, CallOK, write
<1>3. CASE Len(todo) # 1
  BY <1>3, WriteMiddleLoss
<1>4. CASE Len(todo) = 1 /\ arg.size = 0 /\ Pushing(c, b, list)
  BY <1>1, <1>2, <1>4, WritePushedLoss
<1>5. CASE Len(todo) = 1 /\ arg.size # 0 /\ Carving(c, b, list)
  BY <1>1, <1>2, <1>5, WriteCarvedLoss
<1>6. CASE Len(todo) = 1 /\ arg.size # 0 /\ Popping(c, b, list)
  BY <1>1, <1>2, <1>6, WritePoppedLoss
<1> QED
  BY <1>2, <1>3, <1>4, <1>5, <1>6

(* An empty pool has lost nothing. *)
LEMMA InitLoss == CrashInit => LossInv
<1> SUFFICES ASSUME CrashInit PROVE LossInv
  OBVIOUS
<1>1. /\ \A c \in Classes : free_blk_list[c].size = 0
      /\ Blocks = {} /\ todo = <<>> /\ crashes = 0 /\ torn = {}
  BY DEF CrashInit, Init, touchdb_pool_init, Blocks
<1>2. Unheld = {}
  BY <1>1 DEF Unheld
<1>3. Counted = {}
  <2>1. Counted = Pairs(free_blk_list, Classes \ torn)
    BY DEF Counted, Pairs
  <2>2. \A p : p \in Counted => \E c \in Classes \ torn : \E i \in 1 .. free_blk_list[c].size : p = <<c, i>>
    BY <2>1, PairsMember
  <2> QED
    BY <2>2, <1>1
<1>4. IsFiniteSet({}) /\ Cardinality({}) = 0
  BY FS_EmptySet
<1> QED
  BY <1>1, <1>2, <1>3, <1>4 DEF LossInv, LossOK

(* Only a crash loses a block, and no more than one. *)
LEMMA NextLoss == CrashInv /\ LossInv /\ [CrashNext]_crashVars => LossInv'
<1> SUFFICES ASSUME CrashInv, LossInv, [CrashNext]_crashVars PROVE LossInv'
  OBVIOUS
<1>1. CASE \E size \in Sizes : begin_malloc(size)
  BY <1>1, BeginMallocLoss
<1>2. CASE \E b \in DOMAIN live : begin_free(b)
  BY <1>2, BeginFreeLoss
<1>3. CASE write
  BY <1>3, WriteLoss
<1>4. CASE crash
  BY <1>4, CrashLoss
<1>5. CASE UNCHANGED crashVars
  <2>1. UNCHANGED <<free_blk_list, cur_offset, hdr, live, todo, arg, crashes, torn>>
    BY <1>5 DEF crashVars, vars
  <2>2. Unheld' = Unheld /\ Counted' = Counted /\ Pending' = Pending
    BY <2>1 DEF Unheld, Counted, Pending, Blocks
  <2> QED
    BY <2>1, <2>2, LossSame
<1> QED
  BY <1>1, <1>2, <1>3, <1>4, <1>5 DEF CrashNext

(* There is no log and no repair, and yet a kill loses one block at most:  *)
(* the carved blocks that are neither held nor counted by the size of a    *)
(* list are no more than the kills there were outside an unlink.           *)
THEOREM CrashLossBounded == CrashSpec => []LossBounded
<1>1. CrashInv /\ LossInv => LossBounded
  <2>1. ASSUME CrashInv, LossInv, Idle
        PROVE  Cardinality(Unheld) - Cardinality(Counted) <= crashes - Cardinality(torn)
    <3>1. Pending = 0
      BY <2>1 DEF Idle, Pending
    <3> QED
      BY <3>1, <2>1, LossIs
  <2> QED
    BY <2>1 DEF LossBounded
<1>2. CrashInit /\ []CrashInv /\ [][CrashNext]_crashVars => []LossInv
  BY InitLoss, NextLoss, PTL
<1> QED
  BY <1>1, <1>2, CrashInvariant, PTL DEF CrashSpec
=============================================================================
