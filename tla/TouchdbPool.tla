---------------------------- MODULE TouchdbPool -----------------------------
(***************************************************************************)
(* touchdb_pool.c: the shared-memory pool every touchdb structure lives    *)
(* in.  A block is a header (touchdb_free_blk_hdr_t) followed by its data; *)
(* its size class idx holds (idx + 1) * 8 data bytes.  Blocks are carved   *)
(* from the unallocated area that begins at cur_offset and are never       *)
(* merged or split; a freed block waits in the doubly linked free list of  *)
(* its class, whose links are offsets kept in the block headers.           *)
(*                                                                         *)
(* Blocks are named by the offset of their header.  The calls of one       *)
(* process are atomic here; TouchdbPoolCrash takes them apart into the     *)
(* single writes to the mapped file.                                       *)
(***************************************************************************)
EXTENDS Integers

CONSTANTS
  POOL_SIZE,        \* TOUCHDB_DEFAULT_POOL_SIZE
  FREE_LIST_COUNT,  \* TOUCHDB_POOL_FREE_LIST_COUNT
  BLK_HDR_SIZE,     \* sizeof(touchdb_free_blk_hdr_t)
  Sizes             \* the sizes callers ask for

ASSUME PoolAssumption ==
  /\ POOL_SIZE \in Nat \ {0}
  /\ FREE_LIST_COUNT \in Nat \ {0}
  /\ BLK_HDR_SIZE \in Nat \ {0}
  /\ Sizes \subseteq Nat

NIL == 0

VARIABLES
  free_blk_list,  \* per class: header_offset, tail_offset and size
  cur_offset,     \* first byte of the unallocated area
  hdr,            \* the block headers written so far, by their offset
  live,           \* block |-> size asked for, of the blocks callers hold
  ret,            \* result of the last malloc: a block, or NIL for NULL
  wild            \* an access outside free_blk_list has happened

vars == <<free_blk_list, cur_offset, hdr, live, ret, wild>>

-----------------------------------------------------------------------------

Classes == 0 .. FREE_LIST_COUNT - 1

Blocks == DOMAIN hdr

free_list_idx_rounds_down(size) == IF size < 8 THEN 0 ELSE size \div 8 - 1

(* The class that serves a request.  A request of 0 bytes gives -1. *)
free_list_idx(size) ==
  IF size % 8 = 0 THEN size \div 8 - 1 ELSE size \div 8

Capacity(idx) == (idx + 1) * 8

blk_size(idx) == BLK_HDR_SIZE + Capacity(idx)

(* The first byte after block b. *)
End(b) == b + blk_size(hdr[b].idx)

FreeBlocks(c) == {b \in Blocks \ DOMAIN live : hdr[b].idx = c}

(* The list after its header node, whose successor is next, was taken. *)
PopList_stale_tail(list, next) ==
  [header_offset |-> next, tail_offset |-> list.tail_offset, size |-> list.size - 1]

PopList_keeps_header(list, next) ==
  [header_offset |-> list.header_offset,
   tail_offset   |-> IF next # NIL THEN list.tail_offset ELSE NIL,
   size          |-> list.size - 1]

PopList_counts_twice(list, next) ==
  [header_offset |-> next,
   tail_offset   |-> IF next # NIL THEN list.tail_offset ELSE NIL,
   size          |-> list.size - 2]

PopList(list, next) ==
  [header_offset |-> next,
   tail_offset   |-> IF next # NIL THEN list.tail_offset ELSE NIL,
   size          |-> list.size - 1]

(* The list after block b was put at its tail. *)
PushList(list, b) ==
  [header_offset |-> IF list.size = 0 THEN b ELSE list.header_offset,
   tail_offset   |-> b,
   size          |-> list.size + 1]

(* pool->cur_offset += offset *)
set_cur_ptr_offset_data_only(offset) ==
  cur_offset' = cur_offset + offset - BLK_HDR_SIZE

set_cur_ptr_offset(offset) == cur_offset' = cur_offset + offset

-----------------------------------------------------------------------------
(* touchdb_pool_init on a new data file.  Offset 0 means NIL, so the first *)
(* block begins at offset 1.                                               *)
touchdb_pool_init ==
  /\ free_blk_list =
       [c \in Classes |-> [header_offset |-> NIL, tail_offset |-> NIL, size |-> 0]]
  /\ cur_offset = 1
  /\ hdr = [b \in {} |-> NIL]
  /\ live = [b \in {} |-> 0]
  /\ ret = NIL
  /\ wild = FALSE

Hold(b, size) ==
  /\ live' = [x \in DOMAIN live \cup {b} |-> IF x = b THEN size ELSE live[x]]
  /\ ret' = b

(* Both error returns of touchdb_pool_malloc: no such class, and no room. *)
ReturnNull ==
  /\ ret' = NIL
  /\ UNCHANGED <<free_blk_list, cur_offset, hdr, live, wild>>

malloc_too_large(size) ==
  /\ free_list_idx(size) > FREE_LIST_COUNT
  /\ ReturnNull

(* The check above lets idx = FREE_LIST_COUNT and idx = -1 through, and     *)
(* &free_blk_list[idx] is then outside the array.  What the call does next *)
(* depends on the neighbouring memory; the model stops at the access.      *)
malloc_out_of_bounds(size) ==
  /\ free_list_idx(size) <= FREE_LIST_COUNT
  /\ free_list_idx(size) \notin Classes
  /\ wild' = TRUE
  /\ UNCHANGED <<free_blk_list, cur_offset, hdr, live, ret>>

malloc_exhausted_early(size) ==
  LET idx == free_list_idx(size) IN
  /\ idx \in Classes
  /\ free_blk_list[idx].size = 0
  /\ cur_offset + blk_size(idx) >= POOL_SIZE
  /\ ReturnNull

malloc_exhausted(size) ==
  LET idx == free_list_idx(size) IN
  /\ idx \in Classes
  /\ free_blk_list[idx].size = 0
  /\ cur_offset + blk_size(idx) > POOL_SIZE
  /\ ReturnNull

(* Only hdr->idx is written; the links read as 0, the file being new there. *)
malloc_carve(size) ==
  LET idx == free_list_idx(size) IN
  /\ idx \in Classes
  /\ free_blk_list[idx].size = 0
  /\ cur_offset + blk_size(idx) <= POOL_SIZE
  /\ hdr' = [b \in Blocks \cup {cur_offset} |->
               IF b = cur_offset
                 THEN [next_offset |-> NIL, prev_offset |-> NIL, idx |-> idx]
                 ELSE hdr[b]]
  /\ set_cur_ptr_offset(blk_size(idx))
  /\ Hold(cur_offset, size)
  /\ UNCHANGED <<free_blk_list, wild>>

(* The header node leaves the list. *)
malloc_recycle(size) ==
  LET idx   == free_list_idx(size)
      list  == free_blk_list[idx]
      first == list.header_offset
      next  == hdr[first].next_offset
  IN
  /\ idx \in Classes
  /\ list.size # 0
  /\ hdr' = IF next # NIL THEN [hdr EXCEPT ![next].prev_offset = NIL] ELSE hdr
  /\ free_blk_list' = [free_blk_list EXCEPT ![idx] = PopList(list, next)]
  /\ Hold(first, size)
  /\ UNCHANGED <<cur_offset, wild>>

touchdb_pool_malloc(size) ==
  /\ ~wild
  /\ \/ malloc_too_large(size)
     \/ malloc_out_of_bounds(size)
     \/ malloc_exhausted(size)
     \/ malloc_carve(size)
     \/ malloc_recycle(size)

(* The block becomes the tail of its class's list. *)
touchdb_pool_free(b) ==
  LET c    == hdr[b].idx
      list == free_blk_list[c]
      tail == list.tail_offset
      linked == IF list.size = 0 THEN hdr
                ELSE [hdr EXCEPT ![tail].next_offset = b]
  IN
  /\ ~wild
  /\ b \in DOMAIN live
  /\ hdr' = [linked EXCEPT
               ![b].prev_offset = IF list.size = 0 THEN NIL ELSE tail,
               ![b].next_offset = NIL]
  /\ free_blk_list' = [free_blk_list EXCEPT ![c] = PushList(list, b)]
  /\ live' = [x \in DOMAIN live \ {b} |-> live[x]]
  /\ UNCHANGED <<cur_offset, ret, wild>>

Init == touchdb_pool_init

Next ==
  \/ \E size \in Sizes : touchdb_pool_malloc(size)
  \/ \E b \in DOMAIN live : touchdb_pool_free(b)

Spec == Init /\ [][Next]_vars

-----------------------------------------------------------------------------
(* Every variable keeps the type of the C field it stands for; a header's  *)
(* links are block offsets or NIL.                                         *)
TypeOK ==
  /\ free_blk_list \in
       [Classes -> [header_offset : Blocks \cup {NIL},
                    tail_offset   : Blocks \cup {NIL},
                    size          : Nat]]
  /\ cur_offset \in 1 .. POOL_SIZE
  /\ Blocks \subseteq 1 .. POOL_SIZE
  /\ hdr \in [Blocks -> [next_offset : Blocks \cup {NIL},
                         prev_offset : Blocks \cup {NIL},
                         idx         : Classes]]
  /\ live \in [DOMAIN live -> Sizes]
  /\ DOMAIN live \subseteq Blocks
  /\ ret \in Blocks \cup {NIL}
  /\ wild \in BOOLEAN

(* The blocks, held or free, never share a byte and none reaches into the  *)
(* unallocated area, which stays inside the pool: touchdb_pool_malloc      *)
(* never carves over a block whatever was freed and recycled before.       *)
BlocksApart ==
  /\ cur_offset <= POOL_SIZE
  /\ \A b \in Blocks : End(b) <= cur_offset
  /\ \A a, b \in Blocks : a < b => End(a) <= b

(* s runs through the free list of class c: from header_offset along       *)
(* next_offset to tail_offset, and back along prev_offset.                 *)
Threads(s, c) ==
  LET list == free_blk_list[c]
      n    == list.size
  IN
  /\ list.header_offset = IF n = 0 THEN NIL ELSE s[1]
  /\ list.tail_offset = IF n = 0 THEN NIL ELSE s[n]
  /\ \A i \in 1 .. n :
       /\ hdr[s[i]].next_offset = IF i = n THEN NIL ELSE s[i + 1]
       /\ hdr[s[i]].prev_offset = IF i = 1 THEN NIL ELSE s[i - 1]

(* The free list of a class threads exactly the blocks of that class that  *)
(* nobody holds, each once, and its size field counts them: malloc and     *)
(* free neither lose a block nor list one that is in use.                  *)
FreeListsExact ==
  \A c \in Classes :
    \E s \in [1 .. free_blk_list[c].size -> FreeBlocks(c)] :
      /\ \A i, j \in DOMAIN s : s[i] = s[j] => i = j
      /\ \A b \in FreeBlocks(c) : \E i \in DOMAIN s : s[i] = b
      /\ Threads(s, c)

(* A block holds the bytes that were asked for, and free_list_idx wastes   *)
(* fewer than 8: a recycled block serves every size of its class.          *)
Fits ==
  \A b \in DOMAIN live :
    live[b] \in Capacity(hdr[b].idx) - 7 .. Capacity(hdr[b].idx)

(* No call indexes free_blk_list outside its bounds. *)
InBounds == ~wild

(* touchdb_pool_malloc never returns a block that is still held, whatever  *)
(* the lists have been through: carved blocks are new, recycled ones free. *)
NeverHandsOutHeld ==
  [][\A size \in Sizes :
       touchdb_pool_malloc(size) /\ ~wild' => ret' \notin DOMAIN live]_vars

(* Seen by its callers, the pool is an allocator of disjoint extents. *)
Held == [p \in {b + BLK_HDR_SIZE : b \in DOMAIN live} |->
           [size  |-> live[p - BLK_HDR_SIZE],
            bytes |-> Capacity(hdr[p - BLK_HDR_SIZE].idx)]]

Got == IF ret = NIL THEN 0 ELSE ret + BLK_HDR_SIZE

Abs == INSTANCE Allocator WITH held <- Held, got <- Got

AllocatesDisjoint == Abs!Spec
=============================================================================
