------------------------- MODULE TouchdbAllocProofs -------------------------
(***************************************************************************)
(* Proofs about TouchdbAlloc for every pool, set of sizes and wrap-around  *)
(* of the loop counter.                                                    *)
(*                                                                         *)
(* The address touchdb_malloc stores has pool index i - 1, where i counts  *)
(* the rounds of its loop, but the block is always one of pool 0.  The two *)
(* agree only because a second round is never served: the loop gets NULL   *)
(* for a reason that lasts until somebody frees or resets the pool, and    *)
(* nobody does while it runs.  AllocInv says so.  Another process that     *)
(* creates the same files does: see TouchdbOpen.                           *)
(***************************************************************************)
EXTENDS TouchdbAlloc, TouchdbPoolProofs

(* Why touchdb_pool_malloc returned NULL. *)
Refused(size) ==
  LET idx == free_list_idx(size) IN
  \/ idx > FREE_LIST_COUNT
  \/ /\ idx \in Classes
     /\ free_blk_list[idx].size = 0
     /\ cur_offset + blk_size(idx) > POOL_SIZE

AllocInv ==
  /\ PoolInv
  /\ i \in Nat
  /\ call \in Sizes \cup {Idle}
  /\ call # Idle /\ i # 1 => Refused(call)
  /\ AddrNamesItsPool

(* Every step of the loop is a call of the pool, or none. *)
LEMMA AllocStep ==
  ASSUME call \in Sizes \cup {Idle}, [AllocNext]_allocVars
  PROVE  [Next]_vars
<1>1. ASSUME NEW size \in Sizes, touchdb_malloc(size) PROVE UNCHANGED vars
  BY <1>1 DEF touchdb_malloc
<1>2. CASE malloc_round
  BY <1>2 DEF malloc_round, malloc_round_served, round_served_in, malloc_round_null, malloc_round_wild, Next
<1>3. ASSUME NEW b \in DOMAIN live, touchdb_free(b) PROVE Next
  BY <1>3 DEF touchdb_free, Next
<1> QED
  BY <1>1, <1>2, <1>3 DEF AllocNext, allocVars

(* A block that is handed out was not refused, and is one of the pool's. *)
LEMMA ServedBlock ==
  ASSUME PoolInv, PoolInv', call \in Sizes, malloc_round_served
  PROVE  ~Refused(call) /\ ret' \in Blocks'
<1>1. /\ touchdb_pool_malloc(call) /\ ~wild' /\ ret' # NIL
  BY DEF malloc_round_served, round_served_in
<1>2. malloc_carve(call) \/ malloc_recycle(call)
  BY <1>1 DEF touchdb_pool_malloc, malloc_too_large, malloc_exhausted, malloc_out_of_bounds, ReturnNull
<1>3. ~Refused(call)
  <2>1. free_list_idx(call) \in Classes
    BY <1>2 DEF malloc_carve, malloc_recycle
  <2>2. free_list_idx(call) \in Int /\ ~(free_list_idx(call) > FREE_LIST_COUNT)
    BY <2>1, PoolAssumption DEF Classes
  <2>3. CASE malloc_carve(call)
    <3>1. cur_offset \in Int /\ blk_size(free_list_idx(call)) \in Int
      BY <2>2, PoolAssumption DEF PoolInv, TypeOK, blk_size, Capacity
    <3> QED
      BY <2>2, <2>3, <3>1, PoolAssumption DEF malloc_carve, Refused
  <2>4. CASE malloc_recycle(call)
    BY <2>2, <2>4 DEF malloc_recycle, Refused
  <2> QED
    BY <1>2, <2>3, <2>4
<1>4. ret' \in Blocks'
  BY <1>1 DEF PoolInv, TypeOK
<1> QED
  BY <1>3, <1>4

(* NULL has a reason, and the call leaves it as it is. *)
LEMMA NullRefused ==
  ASSUME PoolInv, call \in Sizes, malloc_round_null
  PROVE  Refused(call)' /\ Blocks' = Blocks
<1>1. touchdb_pool_malloc(call) /\ ~wild' /\ ret' = NIL /\ call' = call
  BY DEF malloc_round_null
<1>2. ~malloc_out_of_bounds(call)
  BY <1>1 DEF malloc_out_of_bounds
<1>3. ~malloc_carve(call)
  <2>1. cur_offset # NIL
    BY DEF PoolInv, TypeOK, NIL
  <2> QED
    BY <1>1, <2>1 DEF malloc_carve, Hold
<1>4. ~malloc_recycle(call)
  <2> SUFFICES ASSUME malloc_recycle(call) PROVE FALSE
    OBVIOUS
  <2>1. ret' \in Blocks
    BY RecyclePoolInv DEF FreeBlocks
  <2> QED
    BY <1>1, <2>1, BlockBounds DEF PoolInv
<1>5. CASE malloc_too_large(call)
  BY <1>1, <1>5 DEF malloc_too_large, ReturnNull, Refused, Blocks
<1>6. CASE malloc_exhausted(call)
  BY <1>1, <1>6 DEF malloc_exhausted, ReturnNull, Refused, Blocks, blk_size
<1> QED
  BY <1>1, <1>2, <1>3, <1>4, <1>5, <1>6 DEF touchdb_pool_malloc

(* Every call of touchdb_malloc and touchdb_free keeps the invariant. *)
LEMMA NextAllocInv == AllocInv /\ [AllocNext]_allocVars => AllocInv'
<1> SUFFICES ASSUME AllocInv, [AllocNext]_allocVars PROVE AllocInv'
  OBVIOUS
<1>1. PoolInv'
  BY AllocStep, NextPoolInv DEF AllocInv
<1>2. CASE UNCHANGED allocVars
  BY <1>1, <1>2 DEF AllocInv, allocVars, vars, AddrNamesItsPool, Refused, Blocks, blk_size
<1>3. ASSUME NEW size \in Sizes, touchdb_malloc(size) PROVE AllocInv'
  BY <1>1, <1>3 DEF AllocInv, touchdb_malloc, vars, AddrNamesItsPool, Blocks
<1>4. CASE malloc_round_served
  <2>1. call \in Sizes
    BY <1>4 DEF AllocInv, malloc_round_served, round_served_in
  <2>2. ~Refused(call) /\ ret' \in Blocks'
    BY <1>1, <1>4, <2>1, ServedBlock DEF AllocInv
  <2>3. i = 1
    BY <2>2, <1>4 DEF AllocInv, malloc_round_served, round_served_in
  <2>4. addr' = [pool_idx |-> 0, offset |-> ret' + BLK_HDR_SIZE]
    BY <1>4, <2>3 DEF malloc_round_served, round_served_in
  <2>5. (ret' + BLK_HDR_SIZE) - BLK_HDR_SIZE = ret'
    BY <1>1, <2>2, PoolAssumption DEF PoolInv, TypeOK
  <2>6. AddrNamesItsPool'
    BY <2>2, <2>4, <2>5 DEF AddrNamesItsPool
  <2> QED
    BY <1>1, <1>4, <2>6 DEF AllocInv, malloc_round_served, round_served_in
<1>5. CASE malloc_round_null
  <2>1. call \in Sizes /\ call' = call /\ addr' = addr /\ i' = (i % MAX_ROUNDS) + 1
    BY <1>5 DEF AllocInv, malloc_round_null
  <2>2. Refused(call)' /\ Blocks' = Blocks
    BY <1>5, <2>1, NullRefused DEF AllocInv
  <2>3. i' \in Nat
    BY <2>1, AllocAssumption DEF AllocInv
  <2> QED
    BY <1>1, <2>1, <2>2, <2>3 DEF AllocInv, AddrNamesItsPool
<1>6. CASE malloc_round_wild
  <2>1. /\ UNCHANGED <<call, i, addr>>
        /\ UNCHANGED <<free_blk_list, cur_offset, hdr>>
    BY <1>6 DEF malloc_round_wild, AllocInv, PoolInv, TypeOK, touchdb_pool_malloc, malloc_too_large,
                malloc_exhausted, malloc_out_of_bounds, malloc_carve, malloc_recycle, ReturnNull
  <2> QED
    BY <1>1, <2>1 DEF AllocInv, AddrNamesItsPool, Refused, Blocks, blk_size
<1>7. ASSUME NEW b \in DOMAIN live, touchdb_free(b) PROVE AllocInv'
  <2>1. call = Idle /\ UNCHANGED <<call, i, addr>> /\ touchdb_pool_free(b)
    BY <1>7 DEF touchdb_free
  <2>2. Blocks' = Blocks
    BY <2>1 DEF touchdb_pool_free, Blocks
  <2> QED
    BY <1>1, <2>1, <2>2 DEF AllocInv, AddrNamesItsPool
<1> QED
  BY <1>2, <1>3, <1>4, <1>5, <1>6, <1>7 DEF AllocNext, malloc_round

(* The conjunction above holds in every reachable state. *)
THEOREM AllocInvariant == AllocSpec => []AllocInv
<1>1. AllocInit => AllocInv
  BY InitPoolInv DEF AllocInit, AllocInv, AddrNamesItsPool
<1> QED
  BY <1>1, NextAllocInv, PTL DEF AllocSpec

(* An address that touchdb_malloc stored names the pool of its block, for  *)
(* all that the loop counts rounds, not pools, while no other process      *)
(* resets the pool during the loop.                                        *)
THEOREM AllocAddrNamesItsPool == AllocSpec => []AddrNamesItsPool
<1>1. AllocInv => AddrNamesItsPool
  BY DEF AllocInv
<1> QED
  BY <1>1, AllocInvariant, PTL

(* What TouchdbPoolProofs proves of the pool alone holds of the pool under *)
(* touchdb_malloc and touchdb_free.                                        *)
THEOREM AllocUsesPool == AllocSpec => Spec
<1>1. AllocInit => Init
  BY DEF AllocInit
<1>2. AllocInv /\ [AllocNext]_allocVars => [Next]_vars
  BY AllocStep DEF AllocInv
<1> QED
  BY <1>1, <1>2, AllocInvariant, PTL DEF AllocSpec, Spec

(* Callers of touchdb_malloc see an allocator of disjoint extents. *)
THEOREM AllocAllocatesDisjoint == AllocSpec => AllocatesDisjoint
  BY AllocUsesPool, PoolAllocatesDisjoint
=============================================================================
