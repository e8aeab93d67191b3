---------------------------- MODULE TouchdbAlloc ----------------------------
(***************************************************************************)
(* touchdb_malloc and touchdb_free of touchdb.c, the calls every other     *)
(* part of touchdb makes.  touchdb_malloc walks pool_list and is meant to  *)
(* add a pool when no pool has room.  Its loop tests pool->shm_file, an    *)
(* array and so never NULL, and at the end of the body advances p instead  *)
(* of pool: every round asks pool_list[0] again, and lines 255-272 cannot  *)
(* be reached.  One process writes, so nothing is freed while it waits.    *)
(***************************************************************************)
EXTENDS TouchdbPool

CONSTANT MAX_ROUNDS   \* the loop counter wraps around here

ASSUME AllocAssumption == MAX_ROUNDS \in Nat \ {0, 1}

VARIABLES
  call,   \* the size touchdb_malloc was called with, or Idle
  i,      \* its loop counter; i - 1 is the pool index set_addr stores
  addr    \* the address the last call stored: pool_idx and offset

allocVars == <<vars, call, i, addr>>

Idle == -1

NULL_ADDR == [pool_idx |-> -1, offset |-> NIL]

-----------------------------------------------------------------------------

AllocInit ==
  /\ Init
  /\ call = Idle
  /\ i = 1
  /\ addr = NULL_ADDR

touchdb_malloc(size) ==
  /\ call = Idle
  /\ call' = size
  /\ i' = 1
  /\ UNCHANGED <<vars, addr>>

(* One round of the loop that found a block: set_addr, then return p. *)
round_served_in(idx) ==
  /\ call # Idle
  /\ touchdb_pool_malloc(call)
  /\ ~wild' /\ ret' # NIL
  /\ addr' = [pool_idx |-> idx, offset |-> ret' + BLK_HDR_SIZE]
  /\ call' = Idle
  /\ UNCHANGED i

malloc_round_served_counts_first == round_served_in(i)

malloc_round_served == round_served_in(i - 1)

(* One round that got NULL: p++, i++. *)
malloc_round_null ==
  /\ call # Idle
  /\ touchdb_pool_malloc(call)
  /\ ~wild' /\ ret' = NIL
  /\ i' = (i % MAX_ROUNDS) + 1
  /\ UNCHANGED <<call, addr>>

(* One round that left free_blk_list: the model stops inside the call. *)
malloc_round_wild ==
  /\ call # Idle
  /\ touchdb_pool_malloc(call)
  /\ wild'
  /\ UNCHANGED <<call, i, addr>>

touchdb_free(b) ==
  /\ call = Idle
  /\ touchdb_pool_free(b)
  /\ UNCHANGED <<call, i, addr>>

malloc_round == malloc_round_served \/ malloc_round_null \/ malloc_round_wild

AllocNext ==
  \/ \E size \in Sizes : touchdb_malloc(size)
  \/ malloc_round
  \/ \E b \in DOMAIN live : touchdb_free(b)

(* A process inside touchdb_malloc keeps running its loop. *)
AllocSpec == AllocInit /\ [][AllocNext]_allocVars /\ WF_allocVars(malloc_round)

-----------------------------------------------------------------------------
(* Some block nobody holds, or the unallocated area, can serve the size. *)
HasRoom(size) ==
  LET idx == free_list_idx(size) IN
  /\ idx \in Classes
  /\ FreeBlocks(idx) # {} \/ cur_offset + blk_size(idx) <= POOL_SIZE

(* A request the first pool has room for is served: no order of frees and  *)
(* allocations hides a free block from the loop of touchdb_malloc.         *)
ServedIfRoom ==
  \A size \in Sizes : (call = size /\ HasRoom(size)) ~> (call = Idle)

(* An address handed out names the pool the block is really in, whose free *)
(* lists touchdb_free will use, and not the one that the loop counter       *)
(* would name after a refused round: while nobody else resets the pool, a   *)
(* call is served in its first round or never.  (A creator that waits for   *)
(* a pool which another one has cleared is served later: TouchdbOpen.)      *)
AddrNamesItsPool ==
  addr # NULL_ADDR => addr.pool_idx = 0 /\ addr.offset - BLK_HDR_SIZE \in Blocks

(* Every call of touchdb_malloc returns: without room in the first pool a  *)
(* new one is created.                                                     *)
Served ==
  \A size \in Sizes : (call = size) ~> (call = Idle)
=============================================================================
