------------------------- MODULE TouchdbPoolProofs --------------------------
(***************************************************************************)
(* Proofs about TouchdbPool for every pool size, number of size classes,   *)
(* header size and set of request sizes.                                   *)
(*                                                                         *)
(* No invariant of TouchdbPool is inductive alone: that a recycled block   *)
(* overlaps nothing needs the free list to hold only free blocks, which    *)
(* needs the links and the counters to agree.  PoolInv is their            *)
(* conjunction, and it is inductive.                                       *)
(***************************************************************************)
EXTENDS TouchdbPool, TLAPS

PoolInv == TypeOK /\ BlocksApart /\ FreeListsExact /\ Fits

(* What it means for s to list the free blocks of class c exactly once. *)
Lists(s, c) ==
  /\ s \in [1 .. free_blk_list[c].size -> FreeBlocks(c)]
  /\ \A i, j \in 1 .. free_blk_list[c].size : s[i] = s[j] => i = j
  /\ \A b \in FreeBlocks(c) : \E i \in 1 .. free_blk_list[c].size : s[i] = b
  /\ Threads(s, c)

(* The existential witness of FreeListsExact in the form the proofs use. *)
LEMMA ListsExact ==
  FreeListsExact <=> \A c \in Classes : \E s : Lists(s, c)
BY DEF FreeListsExact, Lists

(* free_list_idx rounds a request up to the next multiple of 8 bytes: the  *)
(* block of the class it picks holds the request and wastes fewer than 8.  *)
LEMMA IdxFits ==
  ASSUME NEW size \in Nat
  PROVE  /\ free_list_idx(size) \in Int
         /\ size \in Capacity(free_list_idx(size)) - 7 .. Capacity(free_list_idx(size))
<1>1. PICK q \in Nat, r \in 0 .. 7 : size = 8 * q + r /\ size \div 8 = q /\ size % 8 = r
  OBVIOUS
<1>2. CASE r = 0
  BY <1>1, <1>2 DEF free_list_idx, Capacity
<1>3. CASE r # 0
  BY <1>1, <1>3 DEF free_list_idx, Capacity
<1> QED BY <1>1, <1>2, <1>3

(* A block is not empty and begins below the unallocated area. *)
LEMMA BlockBounds ==
  ASSUME TypeOK, BlocksApart, NEW b \in Blocks
  PROVE  /\ b \in Int /\ hdr[b].idx \in Classes
         /\ blk_size(hdr[b].idx) \in Nat /\ End(b) \in Int
         /\ b < End(b) /\ b < cur_offset /\ b # NIL /\ End(b) <= cur_offset
<1>1. b \in 1 .. POOL_SIZE /\ hdr[b].idx \in Classes
  BY DEF TypeOK
<1>2. blk_size(hdr[b].idx) \in Nat /\ blk_size(hdr[b].idx) > 0
  BY <1>1, PoolAssumption DEF blk_size, Capacity, Classes
<1>3. cur_offset \in Int /\ End(b) <= cur_offset
  BY DEF TypeOK, BlocksApart
<1> QED
  BY <1>1, <1>2, <1>3, PoolAssumption DEF End, NIL

(* An empty pool satisfies the invariant. *)
LEMMA InitPoolInv == Init => PoolInv
<1> SUFFICES ASSUME Init PROVE PoolInv
  OBVIOUS
<1> USE DEF Init, touchdb_pool_init, Blocks
<1>1. TypeOK
  <2>1. Blocks = {} /\ DOMAIN live = {}
    OBVIOUS
  <2>2. free_blk_list \in
          [Classes -> [header_offset : Blocks \cup {NIL},
                       tail_offset : Blocks \cup {NIL}, size : Nat]]
    OBVIOUS
  <2>3. cur_offset \in 1 .. POOL_SIZE
    BY PoolAssumption
  <2>4. hdr \in [Blocks -> [next_offset : Blocks \cup {NIL},
                           prev_offset : Blocks \cup {NIL}, idx : Classes]]
    BY <2>1
  <2>5. live \in [DOMAIN live -> Sizes]
    BY <2>1
  <2> QED
    BY <2>1, <2>2, <2>3, <2>4, <2>5 DEF TypeOK
<1>2. BlocksApart
  BY PoolAssumption DEF BlocksApart
<1>3. ASSUME NEW c \in Classes
      PROVE  Lists([i \in 1 .. 0 |-> NIL], c)
  BY <1>3 DEF Lists, Threads, FreeBlocks
<1>4. Fits
  BY DEF Fits
<1> QED
  BY <1>1, <1>2, <1>3, <1>4, ListsExact DEF PoolInv

(* A list whose blocks keep their headers and stay free still lists them. *)
LEMMA ListsFrame ==
  ASSUME NEW c \in Classes, NEW s, Lists(s, c),
         free_blk_list'[c] = free_blk_list[c],
         FreeBlocks(c)' = FreeBlocks(c),
         \A b \in FreeBlocks(c) : hdr'[b] = hdr[b]
  PROVE  Lists(s, c)'
<1>1. \A i \in 1 .. free_blk_list[c].size : hdr'[s[i]] = hdr[s[i]]
  BY DEF Lists
<1> QED
  BY <1>1 DEF Lists, Threads

(* Carving writes one header at cur_offset and moves cur_offset past the   *)
(* new block: the old blocks, their lists and their holders are untouched. *)
LEMMA CarvePoolInv ==
  ASSUME PoolInv, NEW size \in Sizes, malloc_carve(size)
  PROVE  PoolInv'
<1> DEFINE idx == free_list_idx(size)
           new == [next_offset |-> NIL, prev_offset |-> NIL, idx |-> idx]
<1> USE DEF PoolInv
<1>1. /\ idx \in Classes /\ cur_offset + blk_size(idx) <= POOL_SIZE
      /\ hdr' = [b \in Blocks \cup {cur_offset} |-> IF b = cur_offset THEN new ELSE hdr[b]]
      /\ cur_offset' = cur_offset + blk_size(idx)
      /\ live' = [x \in DOMAIN live \cup {cur_offset} |-> IF x = cur_offset THEN size ELSE live[x]]
      /\ ret' = cur_offset /\ free_blk_list' = free_blk_list /\ wild' = wild
  BY DEF malloc_carve, Hold, set_cur_ptr_offset
<1> HIDE DEF idx
<1>2. blk_size(idx) \in Nat \ {0}
  BY <1>1, PoolAssumption DEF blk_size, Capacity, Classes
<1>3. cur_offset \notin Blocks /\ cur_offset \in 1 .. POOL_SIZE
  BY BlockBounds DEF TypeOK
<1>4. Blocks' = Blocks \cup {cur_offset} /\ DOMAIN live' = DOMAIN live \cup {cur_offset}
  BY <1>1 DEF Blocks
<1>5. /\ \A b \in Blocks : hdr'[b] = hdr[b] /\ End(b)' = End(b)
      /\ \A b : b = cur_offset => hdr'[b] = new /\ End(b)' = cur_offset'
  <2>1. \A b \in Blocks : hdr'[b] = hdr[b]
    BY <1>1, <1>3
  <2>2. \A b : b = cur_offset => hdr'[b] = new
    BY <1>1
  <2> QED
    BY <2>1, <2>2, <1>1 DEF End, blk_size
<1>6. TypeOK'
  <2>1. free_blk_list' \in
          [Classes -> [header_offset : Blocks' \cup {NIL},
                       tail_offset : Blocks' \cup {NIL}, size : Nat]]
    BY <1>1, <1>4 DEF TypeOK
  <2>2. cur_offset' \in 1 .. POOL_SIZE /\ Blocks' \subseteq 1 .. POOL_SIZE
    BY <1>1, <1>2, <1>3, <1>4, PoolAssumption DEF TypeOK
  <2>3. hdr' \in [Blocks' -> [next_offset : Blocks' \cup {NIL},
                             prev_offset : Blocks' \cup {NIL}, idx : Classes]]
    BY <1>1, <1>4 DEF TypeOK
  <2>4. live' \in [DOMAIN live' -> Sizes] /\ DOMAIN live' \subseteq Blocks'
    BY <1>1, <1>4 DEF TypeOK
  <2>5. ret' \in Blocks' \cup {NIL} /\ wild' \in BOOLEAN
    BY <1>1, <1>4 DEF TypeOK
  <2> QED
    BY <2>1, <2>2, <2>3, <2>4, <2>5 DEF TypeOK
<1>7. BlocksApart'
  <2>1. \A b \in Blocks : End(b)' <= cur_offset /\ b < cur_offset /\ End(b)' \in Int
    BY <1>5, BlockBounds
  <2>2. cur_offset' <= POOL_SIZE
    BY <1>1
  <2>3. \A b \in Blocks' : End(b)' <= cur_offset'
    BY <1>1, <1>2, <1>3, <1>4, <1>5, <2>1 DEF TypeOK
  <2>4. \A a, b \in Blocks' : a < b => End(a)' <= b
    BY <1>3, <1>4, <1>5, <2>1, BlockBounds DEF BlocksApart
  <2> QED
    BY <2>2, <2>3, <2>4 DEF BlocksApart
<1>8. FreeListsExact'
  <2>1. ASSUME NEW c \in Classes
        PROVE  FreeBlocks(c)' = FreeBlocks(c) /\ FreeBlocks(c) \subseteq Blocks
    BY <1>3, <1>4, <1>5 DEF FreeBlocks
  <2>2. ASSUME NEW c \in Classes
        PROVE  \E s : Lists(s, c)'
    <3>1. PICK s : Lists(s, c)
      BY ListsExact
    <3>2. Lists(s, c)'
      BY <3>1, <2>1, <1>1, <1>5, ListsFrame
    <3> QED
      BY <3>2
  <2> QED
    BY <2>2 DEF FreeListsExact, Lists
<1>9. Fits'
  <2>1. size \in Capacity(idx) - 7 .. Capacity(idx)
    BY IdxFits, PoolAssumption DEF idx
  <2> QED
    BY <2>1, <1>1, <1>4, <1>5 DEF Fits, TypeOK
<1> QED
  BY <1>6, <1>7, <1>8, <1>9

(* Headers keep their class and length when only links change. *)
LEMMA ApartFrame ==
  ASSUME BlocksApart, cur_offset' = cur_offset, Blocks' = Blocks,
         \A b \in Blocks : hdr'[b].idx = hdr[b].idx
  PROVE  BlocksApart'
<1>1. \A b \in Blocks : End(b)' = End(b)
  BY DEF End, blk_size
<1> QED
  BY <1>1 DEF BlocksApart

(* Recycling takes the first block off its class's list. *)
LEMMA RecyclePoolInv ==
  ASSUME PoolInv, NEW size \in Sizes, malloc_recycle(size)
  PROVE  /\ PoolInv'
         /\ \E b \in FreeBlocks(free_list_idx(size)) :
              /\ ret' = b
              /\ live' = [x \in DOMAIN live \cup {b} |-> IF x = b THEN size ELSE live[x]]
              /\ \A x \in Blocks : hdr'[x].idx = hdr[x].idx
<1> DEFINE idx   == free_list_idx(size)
           n     == free_blk_list[idx].size
           first == free_blk_list[idx].header_offset
           next  == hdr[first].next_offset
<1> USE DEF PoolInv
<1>1. /\ idx \in Classes /\ n # 0
      /\ hdr' = IF next # NIL THEN [hdr EXCEPT ![next].prev_offset = NIL] ELSE hdr
      /\ free_blk_list' = [free_blk_list EXCEPT ![idx] = PopList(free_blk_list[idx], next)]
      /\ live' = [x \in DOMAIN live \cup {first} |-> IF x = first THEN size ELSE live[x]]
      /\ ret' = first /\ cur_offset' = cur_offset /\ wild' = wild
  BY DEF malloc_recycle, Hold
<1> HIDE DEF idx
<1>2. PICK s : Lists(s, idx)
  BY <1>1, ListsExact
<1>3. /\ n \in Nat \ {0} /\ free_blk_list[idx].tail_offset \in Blocks \cup {NIL}
      /\ s \in [1 .. n -> FreeBlocks(idx)]
      /\ \A i, j \in 1 .. n : s[i] = s[j] => i = j
      /\ \A b \in FreeBlocks(idx) : \E i \in 1 .. n : s[i] = b
      /\ FreeBlocks(idx) \subseteq Blocks \ {NIL}
  BY <1>1, <1>2, PoolAssumption DEF Lists, TypeOK, FreeBlocks, NIL
<1>4. /\ first = s[1] /\ next = IF n = 1 THEN NIL ELSE s[2]
      /\ first \in FreeBlocks(idx)
      /\ n # 1 => next \in FreeBlocks(idx) /\ next # NIL /\ next # first
  BY <1>2, <1>3 DEF Lists, Threads
<1> HIDE DEF first, next, n
<1>5. /\ Blocks' = Blocks
      /\ DOMAIN live' = DOMAIN live \cup {first}
      /\ \A b \in Blocks : /\ hdr'[b].idx = hdr[b].idx
                           /\ hdr'[b].next_offset = hdr[b].next_offset
                           /\ hdr'[b].prev_offset = IF n # 1 /\ b = next THEN NIL ELSE hdr[b].prev_offset
                           /\ b # next => hdr'[b] = hdr[b]
  <2>1. CASE n = 1
    BY <2>1, <1>1, <1>3, <1>4 DEF Blocks
  <2>2. CASE n # 1
    <3>1. hdr' = [hdr EXCEPT ![next].prev_offset = NIL]
      BY <2>2, <1>1, <1>4
    <3> QED
      BY <3>1, <2>2, <1>1, <1>3, <1>4 DEF Blocks, TypeOK
  <2> QED
    BY <2>1, <2>2
<1>6. \A c \in Classes : FreeBlocks(c)' = FreeBlocks(c) \ {first}
  BY <1>5 DEF FreeBlocks
<1>7. TypeOK'
  <2>1. PopList(free_blk_list[idx], next) \in
          [header_offset : Blocks \cup {NIL}, tail_offset : Blocks \cup {NIL}, size : Nat]
    BY <1>1, <1>3, <1>4 DEF PopList, n
  <2>2. free_blk_list' \in
          [Classes -> [header_offset : Blocks' \cup {NIL},
                       tail_offset : Blocks' \cup {NIL}, size : Nat]]
    BY <2>1, <1>1, <1>5 DEF TypeOK
  <2>3. hdr' \in [Blocks' -> [next_offset : Blocks' \cup {NIL},
                             prev_offset : Blocks' \cup {NIL}, idx : Classes]]
    <3>1. CASE next = NIL
      BY <3>1, <1>1, <1>5 DEF TypeOK
    <3>2. CASE next # NIL
      <4> DEFINE H == [next_offset : Blocks \cup {NIL}, prev_offset : Blocks \cup {NIL}, idx : Classes]
      <4>1. hdr \in [Blocks -> H] /\ next \in Blocks
        BY <3>2, <1>3, <1>4 DEF TypeOK
      <4>2. [hdr[next] EXCEPT !.prev_offset = NIL] \in H
        BY <4>1
      <4>3. hdr' = [hdr EXCEPT ![next] = [hdr[next] EXCEPT !.prev_offset = NIL]]
        BY <3>2, <1>1
      <4> HIDE DEF H
      <4>4. hdr' \in [Blocks -> H]
        BY <4>1, <4>2, <4>3
      <4> QED
        BY <4>4, <1>5 DEF H
    <3> QED
      BY <3>1, <3>2
  <2>4. live' \in [DOMAIN live' -> Sizes] /\ DOMAIN live' \subseteq Blocks'
    BY <1>1, <1>3, <1>4, <1>5 DEF TypeOK
  <2>5. /\ ret' \in Blocks' \cup {NIL} /\ wild' \in BOOLEAN
        /\ cur_offset' \in 1 .. POOL_SIZE /\ Blocks' \subseteq 1 .. POOL_SIZE
    BY <1>1, <1>3, <1>4, <1>5 DEF TypeOK
  <2> QED
    BY <2>2, <2>3, <2>4, <2>5 DEF TypeOK
<1>8. BlocksApart'
  BY <1>1, <1>5, ApartFrame
<1>9. \A c \in Classes : \E t : Lists(t, c)'
  <2>1. ASSUME NEW c \in Classes, c # idx
        PROVE  \E t : Lists(t, c)'
    <3>1. PICK t : Lists(t, c)
      BY ListsExact
    <3>2. first \notin FreeBlocks(c) /\ next \notin FreeBlocks(c) /\ FreeBlocks(c) \subseteq Blocks
      BY <2>1, <1>3, <1>4, PoolAssumption DEF FreeBlocks, NIL, TypeOK
    <3>3. free_blk_list'[c] = free_blk_list[c]
      BY <2>1, <1>1 DEF TypeOK
    <3>4. Lists(t, c)'
      BY <3>1, <3>2, <3>3, <1>5, <1>6, ListsFrame
    <3> QED
      BY <3>4
  <2>2. \E t : Lists(t, idx)'
    <3>0. PICK t : t = [i \in 1 .. n - 1 |-> s[i + 1]]
      OBVIOUS
    <3>1. /\ free_blk_list'[idx].size = n - 1
          /\ free_blk_list'[idx].header_offset = next
          /\ free_blk_list'[idx].tail_offset =
               IF next # NIL THEN free_blk_list[idx].tail_offset ELSE NIL
      BY <1>1 DEF TypeOK, PopList, n
    <3>2. /\ t \in [1 .. n - 1 -> FreeBlocks(idx) \ {first}]
          /\ \A i, j \in 1 .. n - 1 : t[i] = t[j] => i = j
          /\ \A b \in FreeBlocks(idx) \ {first} : \E i \in 1 .. n - 1 : t[i] = b
      <4>1. t \in [1 .. n - 1 -> FreeBlocks(idx) \ {first}]
        BY <3>0, <1>3, <1>4
      <4>2. \A i, j \in 1 .. n - 1 : t[i] = t[j] => i = j
        BY <3>0, <1>3
      <4>3. ASSUME NEW b \in FreeBlocks(idx) \ {first}
            PROVE  \E i \in 1 .. n - 1 : t[i] = b
        <5>1. PICK j \in 1 .. n : s[j] = b
          BY <1>3
        <5>2. j - 1 \in 1 .. n - 1 /\ t[j - 1] = b
          BY <5>1, <3>0, <1>3, <1>4
        <5> QED
          BY <5>2
      <4> QED
        BY <4>1, <4>2, <4>3
    <3>3. Threads(t, idx)'
      <4>1. free_blk_list'[idx].header_offset = IF n - 1 = 0 THEN NIL ELSE t[1]
        BY <3>0, <3>1, <1>3, <1>4
      <4>2. free_blk_list'[idx].tail_offset = IF n - 1 = 0 THEN NIL ELSE t[n - 1]
        <5>1. free_blk_list[idx].tail_offset = s[n]
          BY <1>2, <1>3 DEF Lists, Threads, n
        <5> QED
          BY <5>1, <3>0, <3>1, <1>3, <1>4
      <4>3. ASSUME NEW i \in 1 .. n - 1
            PROVE  /\ hdr'[t[i]].next_offset = IF i = n - 1 THEN NIL ELSE t[i + 1]
                   /\ hdr'[t[i]].prev_offset = IF i = 1 THEN NIL ELSE t[i - 1]
        <5>0. \A k \in 1 .. n :
                /\ hdr[s[k]].next_offset = IF k = n THEN NIL ELSE s[k + 1]
                /\ hdr[s[k]].prev_offset = IF k = 1 THEN NIL ELSE s[k - 1]
          <6> HIDE DEF PoolInv
          <6> QED
            BY <1>2 DEF Lists, Threads, n
        <5>1. /\ i + 1 \in 1 .. n /\ t[i] = s[i + 1] /\ t[i] \in Blocks
              /\ hdr[s[i + 1]].next_offset = IF i + 1 = n THEN NIL ELSE s[i + 2]
              /\ hdr[s[i + 1]].prev_offset = s[i]
          <6> HIDE DEF PoolInv
          <6>1. i + 1 \in 1 .. n /\ i + 1 # 1 /\ (i + 1) + 1 = i + 2 /\ (i + 1) - 1 = i
            BY <1>3
          <6>2. t[i] = s[i + 1] /\ t[i] \in Blocks
            BY <6>1, <1>3, <3>0
          <6> QED
            BY <5>0, <6>1, <6>2
        <5>2. n # 1 /\ (t[i] = next <=> i = 1)
          BY <5>1, <1>3, <1>4
        <5> QED
          BY <5>1, <5>2, <3>0, <1>3, <1>5
      <4> QED
        BY <4>1, <4>2, <4>3, <3>1 DEF Threads
    <3>4. Lists(t, idx)'
      BY <3>1, <3>2, <3>3, <1>1, <1>6 DEF Lists
    <3> QED
      BY <3>4
  <2> QED
    BY <2>1, <2>2
<1>10. Fits'
  <2>1. size \in Capacity(idx) - 7 .. Capacity(idx) /\ hdr[first].idx = idx
    BY <1>4, IdxFits, PoolAssumption DEF idx, FreeBlocks
  <2> QED
    BY <2>1, <1>1, <1>3, <1>4, <1>5 DEF Fits, TypeOK
<1>11. FreeListsExact'
  BY <1>9 DEF FreeListsExact, Lists
<1> QED
  BY <1>1, <1>4, <1>5, <1>7, <1>8, <1>10, <1>11 DEF idx

(* Freeing a held block appends it to its class's list. *)
LEMMA FreePoolInv ==
  ASSUME PoolInv, NEW b \in DOMAIN live, touchdb_pool_free(b)
  PROVE  /\ PoolInv'
         /\ live' = [x \in DOMAIN live \ {b} |-> live[x]]
         /\ \A x \in Blocks : hdr'[x].idx = hdr[x].idx
<1> DEFINE c      == hdr[b].idx
           n      == free_blk_list[c].size
           tail   == free_blk_list[c].tail_offset
           H      == [next_offset : Blocks \cup {NIL}, prev_offset : Blocks \cup {NIL}, idx : Classes]
           linked == IF n = 0 THEN hdr ELSE [hdr EXCEPT ![tail].next_offset = b]
           prev   == IF n = 0 THEN NIL ELSE tail
           freed  == [[linked[b] EXCEPT !.prev_offset = prev] EXCEPT !.next_offset = NIL]
<1> USE DEF PoolInv
<1>0. PICK k : k = c
  OBVIOUS
<1>1. /\ hdr' = [linked EXCEPT ![b].prev_offset = prev,
                               ![b].next_offset = NIL]
      /\ free_blk_list' = [free_blk_list EXCEPT ![c] = PushList(free_blk_list[c], b)]
      /\ live' = [x \in DOMAIN live \ {b} |-> live[x]]
      /\ ret' = ret /\ cur_offset' = cur_offset /\ wild' = wild
  BY DEF touchdb_pool_free
<1> HIDE DEF prev
<1>2. b \in Blocks /\ k \in Classes /\ n \in Nat /\ NIL \notin Blocks
      /\ free_blk_list[c].header_offset \in Blocks \cup {NIL}
  BY <1>0, PoolAssumption DEF TypeOK, NIL
<1>3. PICK s : Lists(s, k)
  BY <1>2, ListsExact
<1>4. /\ s \in [1 .. n -> FreeBlocks(k)]
      /\ \A i, j \in 1 .. n : s[i] = s[j] => i = j
      /\ \A x \in FreeBlocks(k) : \E i \in 1 .. n : s[i] = x
      /\ FreeBlocks(k) \subseteq Blocks \ {b}
      /\ tail = IF n = 0 THEN NIL ELSE s[n]
      /\ \A i \in 1 .. n :
           /\ hdr[s[i]].next_offset = IF i = n THEN NIL ELSE s[i + 1]
           /\ hdr[s[i]].prev_offset = IF i = 1 THEN NIL ELSE s[i - 1]
  <2> HIDE DEF PoolInv, c, linked
  <2>1. Lists(s, c)
    BY <1>0, <1>3
  <2>2. FreeBlocks(k) \subseteq Blocks \ {b}
    BY DEF FreeBlocks
  <2>3. /\ s \in [1 .. n -> FreeBlocks(k)]
        /\ \A i, j \in 1 .. n : s[i] = s[j] => i = j
        /\ \A x \in FreeBlocks(k) : \E i \in 1 .. n : s[i] = x
    BY <1>0, <2>1 DEF Lists
  <2>4. /\ tail = IF n = 0 THEN NIL ELSE s[n]
        /\ \A i \in 1 .. n :
             /\ hdr[s[i]].next_offset = IF i = n THEN NIL ELSE s[i + 1]
             /\ hdr[s[i]].prev_offset = IF i = 1 THEN NIL ELSE s[i - 1]
    BY <2>1 DEF Lists, Threads
  <2> HIDE DEF n, tail
  <2> QED
    BY <2>2, <2>3, <2>4
<1>5. n # 0 => tail \in Blocks /\ tail # b /\ tail \in FreeBlocks(k) /\ tail = s[n]
  <2> HIDE DEF PoolInv, n, tail
  <2>1. n # 0 => n \in 1 .. n
    BY <1>2
  <2> QED
    BY <1>4, <2>1
<1>6. hdr \in [Blocks -> H]
  BY DEF TypeOK
<1> HIDE DEF n, tail, c
<1>7. linked \in [Blocks -> H] /\ linked[b] = hdr[b]
      /\ \A x \in Blocks : /\ linked[x].idx = hdr[x].idx
                           /\ linked[x].prev_offset = hdr[x].prev_offset
                           /\ linked[x].next_offset = IF n # 0 /\ x = tail THEN b ELSE hdr[x].next_offset
                           /\ (n = 0 \/ x # tail) => linked[x] = hdr[x]
  <2>1. CASE n = 0
    BY <2>1, <1>6
  <2>2. CASE n # 0
    <3>1. [hdr[tail] EXCEPT !.next_offset = b] \in H
      BY <2>2, <1>2, <1>5, <1>6
    <3>2. linked = [hdr EXCEPT ![tail] = [hdr[tail] EXCEPT !.next_offset = b]]
      BY <2>2
    <3> HIDE DEF linked
    <3>3. linked \in [Blocks -> H]
      <4> HIDE DEF H
      <4> QED
        BY <3>1, <3>2, <1>5, <1>6, <2>2
    <3>4. linked[b] = hdr[b] /\ \A x \in Blocks : x # tail => linked[x] = hdr[x]
      <4> HIDE DEF H
      <4> QED
        BY <3>2, <1>2, <1>5, <1>6, <2>2
    <3>5. linked[tail] = [hdr[tail] EXCEPT !.next_offset = b]
      BY <3>2, <1>5, <1>6, <2>2
    <3>6. /\ linked[tail].idx = hdr[tail].idx
          /\ linked[tail].prev_offset = hdr[tail].prev_offset
          /\ linked[tail].next_offset = b
      BY <3>5, <1>5, <1>6, <2>2
    <3> QED
      BY <3>3, <3>4, <3>6, <2>2
  <2> QED
    BY <2>1, <2>2
<1> HIDE DEF linked
<1>8. /\ hdr' = [linked EXCEPT ![b] = freed]
      /\ freed \in H /\ freed.idx = c /\ freed.next_offset = NIL /\ freed.prev_offset = prev
  <2>1. linked[b] \in H /\ linked[b].idx = c
    BY <1>2, <1>7 DEF c
  <2>2. prev \in Blocks \cup {NIL}
    BY <1>5 DEF prev
  <2>3. freed \in H /\ freed.idx = c /\ freed.next_offset = NIL /\ freed.prev_offset = prev
    BY <2>1, <2>2
  <2>4. hdr' = [linked EXCEPT ![b] = freed]
    BY <1>1, <1>2, <1>7
  <2> QED
    BY <2>3, <2>4
<1>9. /\ hdr' \in [Blocks -> H] /\ Blocks' = Blocks
      /\ hdr'[b] = freed
      /\ \A x \in Blocks \ {b} : hdr'[x] = linked[x]
  <2> HIDE DEF H, freed
  <2>1. hdr' \in [Blocks -> H]
    BY <1>2, <1>7, <1>8
  <2> QED
    BY <2>1, <1>2, <1>7, <1>8 DEF Blocks
<1> HIDE DEF freed
<1>10. /\ \A x \in Blocks : hdr'[x].idx = hdr[x].idx
       /\ DOMAIN live' = DOMAIN live \ {b}
  BY <1>1, <1>7, <1>8, <1>9 DEF c
<1>11. \A d \in Classes : FreeBlocks(d)' = IF d = k THEN FreeBlocks(d) \cup {b} ELSE FreeBlocks(d)
  BY <1>0, <1>2, <1>9, <1>10 DEF FreeBlocks, c
<1>12. TypeOK'
  <2>1. PushList(free_blk_list[c], b) \in
          [header_offset : Blocks \cup {NIL}, tail_offset : Blocks \cup {NIL}, size : Nat]
    BY <1>2 DEF PushList, n
  <2>2. free_blk_list' \in
          [Classes -> [header_offset : Blocks' \cup {NIL},
                       tail_offset : Blocks' \cup {NIL}, size : Nat]]
    BY <2>1, <1>1, <1>9 DEF TypeOK
  <2>3. hdr' \in [Blocks' -> [next_offset : Blocks' \cup {NIL},
                             prev_offset : Blocks' \cup {NIL}, idx : Classes]]
    BY <1>9
  <2>4. live' \in [DOMAIN live' -> Sizes] /\ DOMAIN live' \subseteq Blocks'
    BY <1>1, <1>9, <1>10 DEF TypeOK
  <2>5. /\ ret' \in Blocks' \cup {NIL} /\ wild' \in BOOLEAN
        /\ cur_offset' \in 1 .. POOL_SIZE /\ Blocks' \subseteq 1 .. POOL_SIZE
    BY <1>1, <1>9 DEF TypeOK
  <2> QED
    BY <2>2, <2>3, <2>4, <2>5 DEF TypeOK
<1>13. BlocksApart'
  BY <1>1, <1>9, <1>10, ApartFrame
<1>14. ASSUME NEW d \in Classes, d # k
       PROVE  \E t : Lists(t, d)'
  <2>1. PICK t : Lists(t, d)
    BY ListsExact
  <2>2. b \notin FreeBlocks(d) /\ (n # 0 => tail \notin FreeBlocks(d)) /\ FreeBlocks(d) \subseteq Blocks
    BY <1>14, <1>5 DEF FreeBlocks
  <2>3. \A x \in FreeBlocks(d) : hdr'[x] = hdr[x]
    BY <2>2, <1>7, <1>9
  <2>4. free_blk_list'[d] = free_blk_list[d]
    BY <1>14, <1>0, <1>1 DEF TypeOK
  <2>5. Lists(t, d)'
    BY <2>1, <2>3, <2>4, <1>11, <1>14, ListsFrame
  <2> QED
    BY <2>5
<1>15. \E t : Lists(t, k)'
  <2>0. PICK t : t = [i \in 1 .. n + 1 |-> IF i = n + 1 THEN b ELSE s[i]]
    OBVIOUS
  <2>1. /\ free_blk_list'[k].size = n + 1
        /\ free_blk_list'[k].header_offset = t[1]
        /\ free_blk_list'[k].tail_offset = b
    <3>1. n # 0 => free_blk_list[c].header_offset = s[1]
      BY <1>0, <1>3 DEF Lists, Threads, n
    <3> QED
      BY <3>1, <2>0, <1>0, <1>1, <1>2 DEF TypeOK, PushList, n
  <2>2. /\ t \in [1 .. n + 1 -> FreeBlocks(k) \cup {b}]
        /\ \A i, j \in 1 .. n + 1 : t[i] = t[j] => i = j
    <3>1. \A i \in 1 .. n + 1 : i # n + 1 => i \in 1 .. n /\ s[i] \in FreeBlocks(k) /\ s[i] # b
      BY <1>2, <1>4
    <3>2. t \in [1 .. n + 1 -> FreeBlocks(k) \cup {b}]
      BY <3>1, <2>0
    <3>3. \A i, j \in 1 .. n + 1 : t[i] = t[j] => i = j
      BY <3>1, <2>0, <1>4
    <3> QED
      BY <3>2, <3>3
  <2>3. ASSUME NEW x \in FreeBlocks(k) \cup {b}
        PROVE  \E i \in 1 .. n + 1 : t[i] = x
    <3>1. CASE x = b
      BY <3>1, <2>0, <1>2
    <3>2. CASE x # b
      <4>1. PICK i \in 1 .. n : s[i] = x
        BY <3>2, <1>4
      <4>2. i \in 1 .. n + 1 /\ t[i] = x
        BY <4>1, <2>0, <1>2
      <4> QED
        BY <4>2
    <3> QED
      BY <3>1, <3>2
  <2>4. ASSUME NEW i \in 1 .. n + 1
        PROVE  /\ hdr'[t[i]].next_offset = IF i = n + 1 THEN NIL ELSE t[i + 1]
               /\ hdr'[t[i]].prev_offset = IF i = 1 THEN NIL ELSE t[i - 1]
    <3>1. CASE i = n + 1
      <4>1. t[i] = b /\ (i # 1 => n # 0 /\ t[i - 1] = s[n])
        BY <3>1, <2>0, <1>2
      <4>2. hdr'[t[i]].next_offset = NIL /\ hdr'[t[i]].prev_offset = IF n = 0 THEN NIL ELSE tail
        BY <4>1, <1>8, <1>9 DEF prev
      <4> QED
        BY <4>1, <4>2, <3>1, <1>2, <1>5
    <3>2. CASE i # n + 1
      <4>1. /\ i \in 1 .. n /\ t[i] = s[i] /\ s[i] \in Blocks \ {b} /\ n # 0
            /\ t[i + 1] = IF i = n THEN b ELSE s[i + 1]
            /\ i # 1 => t[i - 1] = s[i - 1]
        BY <3>2, <2>0, <1>2, <1>4
      <4>2. s[i] = tail <=> i = n
        BY <4>1, <1>2, <1>4
      <4>3. hdr'[s[i]].next_offset = linked[s[i]].next_offset
            /\ hdr'[s[i]].prev_offset = linked[s[i]].prev_offset
        BY <4>1, <1>9
      <4>4. /\ linked[s[i]].next_offset = IF i = n THEN b ELSE hdr[s[i]].next_offset
            /\ linked[s[i]].prev_offset = hdr[s[i]].prev_offset
        BY <4>1, <4>2, <1>7
      <4> QED
        BY <4>1, <4>3, <4>4, <3>2, <1>4
    <3> QED
      BY <3>1, <3>2
  <2>5. Threads(t, k)'
    BY <2>0, <2>1, <2>4, <1>2 DEF Threads
  <2>6. Lists(t, k)'
    BY <2>1, <2>2, <2>3, <2>5, <1>2, <1>11 DEF Lists
  <2> QED
    BY <2>6
<1>16. FreeListsExact'
  <2>1. \A d \in Classes : \E t : Lists(t, d)'
    BY <1>14, <1>15
  <2> QED
    BY <2>1 DEF FreeListsExact, Lists
<1>17. Fits'
  BY <1>1, <1>10 DEF Fits, TypeOK
<1> QED
  BY <1>1, <1>10, <1>12, <1>13, <1>16, <1>17

(* A step of the pool takes PoolInv to PoolInv. *)
LEMMA NextPoolInv == PoolInv /\ [Next]_vars => PoolInv'
<1> SUFFICES ASSUME PoolInv, [Next]_vars PROVE PoolInv'
  OBVIOUS
<1>1. CASE UNCHANGED <<free_blk_list, cur_offset, hdr, live>> /\ ret' \in Blocks \cup {NIL} /\ wild' \in BOOLEAN
  <2>1. TypeOK'
    BY <1>1 DEF PoolInv, TypeOK, Blocks
  <2>2. BlocksApart' /\ Fits'
    BY <1>1 DEF PoolInv, BlocksApart, Fits, Blocks, End, blk_size
  <2>3. FreeListsExact'
    <3>1. \A c : FreeBlocks(c)' = FreeBlocks(c)
      BY <1>1 DEF FreeBlocks, Blocks
    <3>2. \A s, c : Threads(s, c)' <=> Threads(s, c)
      BY <1>1 DEF Threads
    <3> QED
      BY <1>1, <3>1, <3>2 DEF PoolInv, FreeListsExact
  <2> QED
    BY <2>1, <2>2, <2>3 DEF PoolInv
<1>2. ASSUME NEW size \in Sizes, touchdb_pool_malloc(size)
      PROVE  PoolInv'
  <2>1. CASE malloc_too_large(size) \/ malloc_exhausted(size)
    BY <2>1, <1>1 DEF malloc_too_large, malloc_exhausted, ReturnNull, PoolInv, TypeOK
  <2>2. CASE malloc_out_of_bounds(size)
    BY <2>2, <1>1 DEF malloc_out_of_bounds, PoolInv, TypeOK
  <2>3. CASE malloc_carve(size)
    BY <2>3, CarvePoolInv
  <2>4. CASE malloc_recycle(size)
    BY <2>4, RecyclePoolInv
  <2> QED
    BY <1>2, <2>1, <2>2, <2>3, <2>4 DEF touchdb_pool_malloc
<1>3. ASSUME NEW b \in DOMAIN live, touchdb_pool_free(b)
      PROVE  PoolInv'
  BY <1>3, FreePoolInv
<1>4. CASE UNCHANGED vars
  BY <1>1, <1>4 DEF vars, PoolInv, TypeOK
<1> QED
  BY <1>2, <1>3, <1>4 DEF Next

(* The inductive invariant holds in every reachable state of the pool. *)
THEOREM PoolInvariant == Spec => []PoolInv
  BY InitPoolInv, NextPoolInv, PTL DEF Spec

(* Every field keeps its type: touchdb_pool_malloc and touchdb_pool_free   *)
(* only ever store block offsets or NIL in links.                          *)
THEOREM PoolTypeCorrect == Spec => []TypeOK
<1>1. PoolInv => TypeOK
  BY DEF PoolInv
<1> QED
  BY <1>1, PoolInvariant, PTL

(* No two blocks of the pool ever share a byte, whatever the sequence of   *)
(* touchdb_pool_malloc and touchdb_pool_free calls.                        *)
THEOREM PoolBlocksApart == Spec => []BlocksApart
<1>1. PoolInv => BlocksApart
  BY DEF PoolInv
<1> QED
  BY <1>1, PoolInvariant, PTL

(* The doubly linked free lists hold exactly the blocks nobody holds: the  *)
(* pool neither leaks a block nor lists one twice or while it is in use.   *)
THEOREM PoolFreeListsExact == Spec => []FreeListsExact
<1>1. PoolInv => FreeListsExact
  BY DEF PoolInv
<1> QED
  BY <1>1, PoolInvariant, PTL

(* A block handed out holds the size asked for and wastes less than 8.     *)
THEOREM PoolFits == Spec => []Fits
<1>1. PoolInv => Fits
  BY DEF PoolInv
<1> QED
  BY <1>1, PoolInvariant, PTL

(* Only a request of 0 bytes, or of 1 to 8 bytes above the largest block,  *)
(* gets past the bounds check of touchdb_pool_malloc with a bad index.     *)
THEOREM PoolInBounds ==
  (\A size \in Sizes : size # 0 /\ size \notin 8 * FREE_LIST_COUNT + 1 .. 8 * FREE_LIST_COUNT + 8)
    => (Spec => []InBounds)
<1> SUFFICES ASSUME \A size \in Sizes :
                      size # 0 /\ size \notin 8 * FREE_LIST_COUNT + 1 .. 8 * FREE_LIST_COUNT + 8
             PROVE  Spec => []InBounds
  OBVIOUS
<1>1. Init => InBounds
  BY DEF Init, touchdb_pool_init, InBounds
<1>2. ASSUME NEW size \in Sizes PROVE ~malloc_out_of_bounds(size)
  <2>1. size \in Nat /\ size # 0 /\ size \notin 8 * FREE_LIST_COUNT + 1 .. 8 * FREE_LIST_COUNT + 8
    BY PoolAssumption
  <2>2. /\ free_list_idx(size) \in Int
        /\ size \in Capacity(free_list_idx(size)) - 7 .. Capacity(free_list_idx(size))
    BY <2>1, IdxFits
  <2>3. free_list_idx(size) >= 0 /\ free_list_idx(size) # FREE_LIST_COUNT
    BY <2>1, <2>2, PoolAssumption DEF Capacity
  <2> QED
    BY <2>2, <2>3, PoolAssumption DEF malloc_out_of_bounds, Classes
<1>3. InBounds /\ [Next]_vars => InBounds'
  BY <1>2 DEF InBounds, Next, vars, touchdb_pool_malloc, touchdb_pool_free, malloc_too_large,
              malloc_exhausted, malloc_carve, malloc_recycle, ReturnNull
<1> QED
  BY <1>1, <1>3, PTL DEF Spec

(* What the callers see of the pool: the blocks they hold lie inside it,   *)
(* share no byte and are large enough.                                     *)
HeldApart ==
  /\ TypeOK
  /\ Fits
  /\ \A b \in DOMAIN live : End(b) <= POOL_SIZE
  /\ \A a, b \in DOMAIN live : a < b => End(a) <= b

(* Under the invariant the blocks held do not overlap. *)
LEMMA PoolHeldApart == PoolInv => HeldApart
<1> SUFFICES ASSUME PoolInv PROVE HeldApart
  OBVIOUS
<1>1. \A b \in DOMAIN live : b \in Blocks /\ End(b) \in Int /\ End(b) <= cur_offset
  BY BlockBounds DEF PoolInv, TypeOK
<1>2. cur_offset \in Int /\ cur_offset <= POOL_SIZE /\ POOL_SIZE \in Int
  BY PoolAssumption DEF PoolInv, TypeOK, BlocksApart
<1> QED
  BY <1>1, <1>2 DEF HeldApart, PoolInv, BlocksApart

(* Handing out a block nobody holds is a Malloc of the abstract allocator. *)
LEMMA HoldIsMalloc ==
  ASSUME HeldApart, HeldApart', NEW size \in Sizes, NEW b,
         b \notin DOMAIN live,
         live' = [x \in DOMAIN live \cup {b} |-> IF x = b THEN size ELSE live[x]],
         ret' = b,
         \A x \in DOMAIN live : hdr'[x].idx = hdr[x].idx
  PROVE  Abs!Malloc(size)
<1> DEFINE p == b + BLK_HDR_SIZE
           n == Capacity(hdr'[b].idx)
<1>1. DOMAIN live' = DOMAIN live \cup {b} /\ live'[b] = size /\ b \in DOMAIN live'
  OBVIOUS
<1>2. \A x \in DOMAIN live' :
        /\ x \in Blocks' /\ x \in Nat /\ x > 0 /\ hdr'[x].idx \in Classes
        /\ Capacity(hdr'[x].idx) \in Nat
        /\ x + BLK_HDR_SIZE + Capacity(hdr'[x].idx) <= POOL_SIZE
  <2> SUFFICES ASSUME NEW x \in DOMAIN live'
               PROVE  /\ x \in Blocks' /\ x \in Nat /\ x > 0 /\ hdr'[x].idx \in Classes
                      /\ Capacity(hdr'[x].idx) \in Nat
                      /\ x + BLK_HDR_SIZE + Capacity(hdr'[x].idx) <= POOL_SIZE
    OBVIOUS
  <2>1. x \in Blocks' /\ x \in 1 .. POOL_SIZE /\ hdr'[x].idx \in Classes
    BY DEF HeldApart, TypeOK
  <2>2. Capacity(hdr'[x].idx) \in Nat
    BY <2>1, PoolAssumption DEF Capacity, Classes
  <2>3. x + (BLK_HDR_SIZE + Capacity(hdr'[x].idx)) <= POOL_SIZE
    BY <2>1 DEF HeldApart, End, blk_size
  <2> QED
    BY <2>1, <2>2, <2>3, PoolAssumption
<1>3. \A x, y \in DOMAIN live' : x < y => x + BLK_HDR_SIZE + Capacity(hdr'[x].idx) <= y
  <2> SUFFICES ASSUME NEW x \in DOMAIN live', NEW y \in DOMAIN live', x < y
               PROVE  x + BLK_HDR_SIZE + Capacity(hdr'[x].idx) <= y
    OBVIOUS
  <2>1. x + (BLK_HDR_SIZE + Capacity(hdr'[x].idx)) <= y
    BY <1>2 DEF HeldApart, End, blk_size
  <2> QED
    BY <2>1, <1>2, PoolAssumption
<1>4. /\ DOMAIN Held = {x + BLK_HDR_SIZE : x \in DOMAIN live}
      /\ \A x \in DOMAIN live :
           Held[x + BLK_HDR_SIZE] = [size |-> live[x], bytes |-> Capacity(hdr[x].idx)]
  <2>1. \A x \in DOMAIN live : (x + BLK_HDR_SIZE) - BLK_HDR_SIZE = x
    BY <1>1, <1>2, PoolAssumption
  <2> QED
    BY <2>1 DEF Held
<1>5. /\ DOMAIN Held' = {x + BLK_HDR_SIZE : x \in DOMAIN live'}
      /\ \A x \in DOMAIN live' :
           Held'[x + BLK_HDR_SIZE] = [size |-> live'[x], bytes |-> Capacity(hdr'[x].idx)]
  <2>1. \A x \in DOMAIN live' : (x + BLK_HDR_SIZE) - BLK_HDR_SIZE = x
    BY <1>2, PoolAssumption
  <2> QED
    BY <2>1 DEF Held, Capacity
<1>6. p \in DOMAIN Held' \ DOMAIN Held /\ Held'[p] = [size |-> size, bytes |-> n]
  <2>1. p \in DOMAIN Held' /\ Held'[p] = [size |-> size, bytes |-> n]
    BY <1>1, <1>5
  <2>2. \A x \in DOMAIN live : x # b /\ x \in Nat /\ b \in Nat
    BY <1>1, <1>2
  <2>3. p \notin DOMAIN Held
    BY <2>2, <1>4, PoolAssumption
  <2> QED
    BY <2>1, <2>3
<1>7. size <= n
  <2>1. live'[b] \in Capacity(hdr'[b].idx) - 7 .. Capacity(hdr'[b].idx)
    BY <1>1 DEF HeldApart, Fits, Capacity
  <2> QED
    BY <2>1, <1>1, <1>2, PoolAssumption
<1>8. Abs!NULL < p /\ p + n <= POOL_SIZE
  BY <1>1, <1>2, PoolAssumption DEF Abs!NULL
<1>9. \A q \in DOMAIN Held : Abs!Disjoint(p, n, q, Held[q].bytes)
  <2> SUFFICES ASSUME NEW q \in DOMAIN Held
               PROVE  Abs!Disjoint(p, n, q, Held[q].bytes)
    OBVIOUS
  <2>0. PICK x \in DOMAIN live : q = x + BLK_HDR_SIZE
    BY <1>4
  <2>4. Held[q] = [size |-> live[x], bytes |-> Capacity(hdr[x].idx)]
    BY <2>0, <1>4
  <2>5. Held[q].bytes = Capacity(hdr[x].idx)
    BY <2>4
  <2>1. x # b /\ x \in Nat /\ b \in Nat /\ Capacity(hdr'[x].idx) \in Nat /\ n \in Nat
        /\ Capacity(hdr'[x].idx) = Capacity(hdr[x].idx)
    BY <1>1, <1>2
  <2>2. CASE x < b
    BY <2>0, <2>1, <2>2, <2>5, <1>1, <1>3, PoolAssumption DEF Abs!Disjoint
  <2>3. CASE b < x
    BY <2>0, <2>1, <2>3, <2>5, <1>1, <1>3, PoolAssumption DEF Abs!Disjoint
  <2> QED
    BY <2>1, <2>2, <2>3
<1>10. Held' = [q \in DOMAIN Held \cup {p} |->
                  IF q = p THEN [size |-> size, bytes |-> n] ELSE Held[q]]
  <2>1. DOMAIN Held' = DOMAIN Held \cup {p}
    BY <1>1, <1>4, <1>5
  <2>2. \A x \in DOMAIN live : Held'[x + BLK_HDR_SIZE] = Held[x + BLK_HDR_SIZE]
    <3> SUFFICES ASSUME NEW x \in DOMAIN live
                 PROVE  Held'[x + BLK_HDR_SIZE] = Held[x + BLK_HDR_SIZE]
      OBVIOUS
    <3>1. x \in DOMAIN live' /\ live'[x] = live[x] /\ hdr'[x].idx = hdr[x].idx
      BY <1>1
    <3>2. Held[x + BLK_HDR_SIZE] = [size |-> live[x], bytes |-> Capacity(hdr[x].idx)]
      BY <1>4
    <3>3. Held'[x + BLK_HDR_SIZE] = [size |-> live'[x], bytes |-> Capacity(hdr'[x].idx)]
      BY <3>1, <1>5
    <3> QED
      BY <3>1, <3>2, <3>3
  <2>3. \A q \in DOMAIN Held \cup {p} :
          Held'[q] = IF q = p THEN [size |-> size, bytes |-> n] ELSE Held[q]
    BY <2>2, <1>4, <1>6
  <2>4. Held' = [q \in DOMAIN Held' |-> Held'[q]]
    BY DEF Held
  <2> QED
    BY <2>1, <2>3, <2>4
<1>11. Got' = p
  BY <1>1, <1>2 DEF Got, NIL
<1>12. Held'[p].bytes = n
  BY <1>6
<1> HIDE DEF p, n
<1> QED
  BY <1>6, <1>7, <1>8, <1>9, <1>10, <1>11, <1>12 DEF Abs!Malloc

(* Freeing a held block is a Free of the abstract allocator. *)
LEMMA FreeIsFree ==
  ASSUME TypeOK, NEW b \in DOMAIN live,
         live' = [x \in DOMAIN live \ {b} |-> live[x]],
         ret' = ret,
         \A x \in DOMAIN live : hdr'[x].idx = hdr[x].idx
  PROVE  \E q \in DOMAIN Held : Abs!Free(q)
<1> DEFINE p == b + BLK_HDR_SIZE
<1>1. \A x \in DOMAIN live : x \in Nat /\ (x + BLK_HDR_SIZE) - BLK_HDR_SIZE = x
  BY PoolAssumption DEF TypeOK
<1>2. p \in DOMAIN Held
  BY DEF Held
<1>3. DOMAIN Held' = DOMAIN Held \ {p}
  BY <1>1, PoolAssumption DEF Held
<1>4. \A q \in DOMAIN Held' : Held'[q] = Held[q]
  <2> SUFFICES ASSUME NEW x \in DOMAIN live \ {b}
               PROVE  Held'[x + BLK_HDR_SIZE] = Held[x + BLK_HDR_SIZE]
    BY <1>1, <1>3 DEF Held
  <2>1. /\ x \in DOMAIN live /\ x \in DOMAIN live' /\ live'[x] = live[x]
        /\ hdr'[x].idx = hdr[x].idx /\ (x + BLK_HDR_SIZE) - BLK_HDR_SIZE = x
    BY <1>1
  <2>2. Held[x + BLK_HDR_SIZE] = [size |-> live[x], bytes |-> Capacity(hdr[x].idx)]
    BY <2>1 DEF Held
  <2>3. Held'[x + BLK_HDR_SIZE] = [size |-> live'[x], bytes |-> Capacity(hdr'[x].idx)]
    BY <2>1 DEF Held, Capacity
  <2> QED
    BY <2>1, <2>2, <2>3
<1>5. Held' = [q \in DOMAIN Held' |-> Held'[q]]
  BY DEF Held
<1>6. Abs!Free(p)
  BY <1>2, <1>3, <1>4, <1>5 DEF Abs!Free, Got
<1> QED
  BY <1>2, <1>6

(* The pool implements the abstract allocator: a block handed out lies in  *)
(* the pool, is large enough and overlaps no block some caller holds, and  *)
(* a block stays its holder's until touchdb_pool_free.                     *)
THEOREM PoolAllocatesDisjoint == Spec => AllocatesDisjoint
<1>1. Init => Abs!Init
  BY DEF Init, touchdb_pool_init, Abs!Init, Abs!NULL, Held, Got
<1>2. PoolInv /\ HeldApart /\ HeldApart' /\ [Next]_vars => [Abs!Next]_<<Held, Got>>
  <2> SUFFICES ASSUME PoolInv, HeldApart, HeldApart', [Next]_vars
               PROVE  [Abs!Next]_<<Held, Got>>
    OBVIOUS
  <2>1. CASE UNCHANGED <<hdr, live, ret>>
    BY <2>1 DEF Held, Got
  <2>2. ASSUME NEW size \in Sizes, touchdb_pool_malloc(size)
        PROVE  [Abs!Next]_<<Held, Got>>
    <3>1. CASE malloc_too_large(size) \/ malloc_exhausted(size)
      <4>1. UNCHANGED <<hdr, live>> /\ ret' = NIL
        BY <3>1 DEF malloc_too_large, malloc_exhausted, ReturnNull
      <4>2. Abs!Refuse
        BY <4>1 DEF Abs!Refuse, Abs!NULL, Held, Got
      <4> QED
        BY <4>2 DEF Abs!Next
    <3>4. CASE malloc_out_of_bounds(size)
      BY <3>4, <2>1 DEF malloc_out_of_bounds
    <3>2. CASE malloc_carve(size)
      <4>1. cur_offset \notin Blocks
        BY BlockBounds DEF PoolInv, TypeOK
      <4>2. /\ cur_offset \notin DOMAIN live
            /\ \A x \in DOMAIN live : hdr'[x].idx = hdr[x].idx
        BY <4>1, <3>2 DEF malloc_carve, PoolInv, TypeOK
      <4>3. Abs!Malloc(size)
        BY <4>2, <3>2, HoldIsMalloc DEF malloc_carve, Hold
      <4> QED
        BY <4>3 DEF Abs!Next
    <3>3. CASE malloc_recycle(size)
      <4>1. PICK b \in FreeBlocks(free_list_idx(size)) :
              /\ ret' = b
              /\ live' = [x \in DOMAIN live \cup {b} |-> IF x = b THEN size ELSE live[x]]
              /\ \A x \in Blocks : hdr'[x].idx = hdr[x].idx
        BY <3>3, RecyclePoolInv
      <4>2. b \notin DOMAIN live /\ DOMAIN live \subseteq Blocks
        BY DEF FreeBlocks, PoolInv, TypeOK
      <4>3. Abs!Malloc(size)
        BY <4>1, <4>2, HoldIsMalloc
      <4> QED
        BY <4>3 DEF Abs!Next
    <3> QED
      BY <2>2, <3>1, <3>2, <3>3, <3>4 DEF touchdb_pool_malloc
  <2>3. ASSUME NEW b \in DOMAIN live, touchdb_pool_free(b)
        PROVE  [Abs!Next]_<<Held, Got>>
    <3>1. /\ live' = [x \in DOMAIN live \ {b} |-> live[x]]
          /\ ret' = ret
          /\ \A x \in DOMAIN live : hdr'[x].idx = hdr[x].idx
      BY <2>3, FreePoolInv DEF PoolInv, TypeOK, touchdb_pool_free
    <3>2. \E q \in DOMAIN Held : Abs!Free(q)
      BY <3>1, FreeIsFree DEF PoolInv
    <3> QED
      BY <3>2 DEF Abs!Next
  <2> QED
    BY <2>1, <2>2, <2>3 DEF Next, vars
<1> QED
  BY <1>1, <1>2, PoolHeldApart, PoolInvariant, PTL DEF Spec, AllocatesDisjoint, Abs!Spec

(* touchdb_pool_malloc returns no block that some caller still holds: what *)
(* it carves was never a block before, and what it recycles is free.       *)
THEOREM PoolNeverHandsOutHeld == Spec => NeverHandsOutHeld
<1>1. ASSUME PoolInv, NEW size \in Sizes, touchdb_pool_malloc(size), ~wild'
      PROVE  ret' \notin DOMAIN live
  <2>1. DOMAIN live \subseteq Blocks /\ NIL \notin DOMAIN live
    BY <1>1, PoolAssumption DEF PoolInv, TypeOK, NIL
  <2>2. CASE malloc_too_large(size) \/ malloc_exhausted(size)
    BY <2>1, <2>2 DEF malloc_too_large, malloc_exhausted, ReturnNull
  <2>3. CASE malloc_out_of_bounds(size)
    BY <1>1, <2>3 DEF malloc_out_of_bounds
  <2>4. CASE malloc_carve(size)
    <3>1. cur_offset \notin Blocks
      BY <1>1, BlockBounds DEF PoolInv, TypeOK
    <3> QED
      BY <2>1, <2>4, <3>1 DEF malloc_carve, Hold
  <2>5. CASE malloc_recycle(size)
    <3>1. ret' \in FreeBlocks(free_list_idx(size))
      BY <1>1, <2>5, RecyclePoolInv
    <3> QED
      BY <3>1 DEF FreeBlocks
  <2> QED
    BY <1>1, <2>2, <2>3, <2>4, <2>5 DEF touchdb_pool_malloc
<1>2. PoolInv /\ [Next]_vars =>
        [\A size \in Sizes :
           touchdb_pool_malloc(size) /\ ~wild' => ret' \notin DOMAIN live]_vars
  BY <1>1
<1> QED
  BY <1>2, PoolInvariant, PTL DEF Spec, NeverHandsOutHeld
=============================================================================
