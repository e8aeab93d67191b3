-------------------------- MODULE TouchdbPoolCrash --------------------------
(***************************************************************************)
(* touchdb_pool.c, one write to the mapped files at a time.  The pool      *)
(* structure and the blocks live in files mapped MAP_SHARED, so what a     *)
(* process wrote before it was killed is what touchdb_new finds and        *)
(* touchdb_pool_init takes over unchanged (is_inited).  There is no log    *)
(* and no repair: the order of the writes is all the protection there is.  *)
(*                                                                         *)
(* todo holds the writes the call in progress has still to make, in the    *)
(* order of the source; the conditions are evaluated when it starts.       *)
(***************************************************************************)
EXTENDS TouchdbPool, Sequences, FiniteSets

CONSTANT MAX_CRASHES

ASSUME CrashAssumption == MAX_CRASHES \in Nat

VARIABLES
  todo,     \* the remaining writes of the call in progress
  arg,      \* its class c, its block b, and the size asked for (0: a free)
  crashes,  \* how often the process was killed inside a call
  torn      \* the classes where that happened in the middle of an unlink

crashVars == <<vars, todo, arg, crashes, torn>>

-----------------------------------------------------------------------------
(* The writes of touchdb_pool_malloc and touchdb_pool_free. *)

carve_writes_forgets_cur == <<"hdr->idx">>

carve_writes == <<"hdr->idx", "cur_offset">>

pop_writes_keeps_header(next) ==
  <<IF next # NIL THEN "q->prev" ELSE "list->tail=NIL", "list->size--">>

pop_writes(next) ==
  <<IF next # NIL THEN "q->prev" ELSE "list->tail=NIL",
    "list->header=next", "list->size--">>

push_writes_counts_first(size) ==
  IF size = 0
    THEN <<"list->size++", "blk->prev", "list->tail=blk", "list->header=blk", "blk->next">>
    ELSE <<"list->size++", "blk->prev", "tail->next", "list->tail=blk", "blk->next">>

push_writes_forgets_tail(size) ==
  IF size = 0
    THEN <<"blk->prev", "list->tail=blk", "list->header=blk", "blk->next", "list->size++">>
    ELSE <<"blk->prev", "tail->next", "blk->next", "list->size++">>

push_writes(size) ==
  IF size = 0
    THEN <<"blk->prev", "list->tail=blk", "list->header=blk", "blk->next", "list->size++">>
    ELSE <<"blk->prev", "tail->next", "list->tail=blk", "blk->next", "list->size++">>

(* What a write leaves in the list of the class, and in the block headers. *)
ListWrite(w, list, b) ==
  CASE w = "list->tail=NIL"     -> [list EXCEPT !.tail_offset = NIL]
    [] w = "list->header=next"  -> [list EXCEPT !.header_offset = hdr[b].next_offset]
    [] w = "list->size--"       -> [list EXCEPT !.size = @ - 1]
    [] w = "list->tail=blk"     -> [list EXCEPT !.tail_offset = b]
    [] w = "list->header=blk"   -> [list EXCEPT !.header_offset = b]
    [] w = "list->size++"       -> [list EXCEPT !.size = @ + 1]
    [] OTHER                    -> list

HdrWrite(w, list, b, c) ==
  CASE w = "hdr->idx"   -> [x \in Blocks \cup {b} |->
                              IF x = b THEN [next_offset |-> NIL, prev_offset |-> NIL, idx |-> c]
                                       ELSE hdr[x]]
    [] w = "q->prev"    -> [hdr EXCEPT ![hdr[b].next_offset].prev_offset = NIL]
    [] w = "blk->prev"  -> [hdr EXCEPT ![b].prev_offset =
                              IF list.size = 0 THEN NIL ELSE list.tail_offset]
    [] w = "tail->next" -> [hdr EXCEPT ![list.tail_offset].next_offset = b]
    [] w = "blk->next"  -> [hdr EXCEPT ![b].next_offset = NIL]
    [] OTHER            -> hdr

-----------------------------------------------------------------------------

Idle == todo = <<>> /\ ~wild

CrashInit ==
  /\ Init
  /\ todo = <<>>
  /\ arg = [c |-> 0, b |-> NIL, size |-> 0]
  /\ crashes = 0
  /\ torn = {}

(* list->size is not 0 but the offset read is NIL: ptr_of(pool, 0) is the   *)
(* start of the pool, which overlaps the first block.                      *)
use_nil_offset ==
  /\ wild' = TRUE
  /\ UNCHANGED <<free_blk_list, cur_offset, hdr, live, ret, todo, arg, crashes, torn>>

begin(c, b, size, writes) ==
  /\ arg' = [c |-> c, b |-> b, size |-> size]
  /\ todo' = writes
  /\ UNCHANGED <<free_blk_list, cur_offset, hdr, ret, wild, crashes, torn>>

(* The calls that return NULL write nothing, and TouchdbPool covers the     *)
(* sizes that have no class.                                               *)
begin_malloc(size) ==
  LET c    == free_list_idx(size)
      list == free_blk_list[c]
  IN
  /\ Idle
  /\ c \in Classes
  /\ \/ /\ list.size = 0
        /\ cur_offset + blk_size(c) <= POOL_SIZE
        /\ begin(c, cur_offset, size, carve_writes)
        /\ UNCHANGED live
     \/ /\ list.size # 0
        /\ list.header_offset # NIL
        /\ begin(c, list.header_offset, size, pop_writes(hdr[list.header_offset].next_offset))
        /\ UNCHANGED live
     \/ /\ list.size # 0
        /\ list.header_offset = NIL
        /\ use_nil_offset

begin_free(b) ==
  LET c    == hdr[b].idx
      list == free_blk_list[c]
  IN
  /\ Idle
  /\ \/ /\ list.size # 0 => list.tail_offset # NIL
        /\ begin(c, b, 0, push_writes(list.size))
        /\ live' = [x \in DOMAIN live \ {b} |-> live[x]]
     \/ /\ list.size # 0
        /\ list.tail_offset = NIL
        /\ use_nil_offset

(* The next write; after its last one touchdb_pool_malloc returns. *)
write ==
  LET w    == Head(todo)
      list == free_blk_list[arg.c]
  IN
  /\ todo # <<>>
  /\ free_blk_list' = [free_blk_list EXCEPT ![arg.c] = ListWrite(w, list, arg.b)]
  /\ hdr' = HdrWrite(w, list, arg.b, arg.c)
  /\ IF w = "cur_offset" THEN set_cur_ptr_offset(blk_size(arg.c)) ELSE UNCHANGED cur_offset
  /\ IF Len(todo) = 1 /\ arg.size # 0 THEN Hold(arg.b, arg.size) ELSE UNCHANGED <<live, ret>>
  /\ todo' = Tail(todo)
  /\ UNCHANGED <<wild, arg, crashes, torn>>

(* The process is inside an unlink: the list no longer begins or ends the   *)
(* way its size says.                                                      *)
Unlinking ==
  /\ todo # <<>> /\ todo[Len(todo)] = "list->size--"
  /\ \/ free_blk_list[arg.c].tail_offset = NIL
     \/ free_blk_list[arg.c].header_offset # arg.b

(* The process is killed; the next one continues with what is in the files. *)
crash ==
  /\ todo # <<>>
  /\ crashes < MAX_CRASHES
  /\ crashes' = crashes + 1
  /\ torn' = IF Unlinking THEN torn \cup {arg.c} ELSE torn
  /\ todo' = <<>>
  /\ UNCHANGED <<vars, arg>>

CrashNext ==
  \/ \E size \in Sizes : begin_malloc(size)
  \/ \E b \in DOMAIN live : begin_free(b)
  \/ write
  \/ crash

CrashSpec == CrashInit /\ [][CrashNext]_crashVars

-----------------------------------------------------------------------------
(* The blocks a list still serves: size steps along next_offset. *)
Served(c, s) ==
  LET list == free_blk_list[c] IN
  /\ s \in [1 .. list.size -> FreeBlocks(c)]
  /\ \A i, j \in 1 .. list.size : s[i] = s[j] => i = j
  /\ \A i \in 1 .. list.size :
       s[i] = IF i = 1 THEN list.header_offset ELSE hdr[s[i - 1]].next_offset

(* However often the process is killed, a list it was not unlinking from   *)
(* serves size different blocks of its class, none of them in use, and can *)
(* be appended to: the write order of free and of carving is crash-safe.   *)
ListsSurviveCrash ==
  Idle => \A c \in Classes \ torn :
    /\ \E s \in [1 .. free_blk_list[c].size -> FreeBlocks(c)] : Served(c, s)
    /\ free_blk_list[c].size # 0 => free_blk_list[c].tail_offset \in FreeBlocks(c)

(* The list of class c is not torn, or a single kill is all that happened. *)
Intact(c) == c \notin torn \/ crashes < 2

(* The block a malloc is about to return, or a free about to list, is held *)
(* by nobody, also after kills.  A torn list promises this after one kill  *)
(* only: when an earlier kill in touchdb_pool_free left a link behind the  *)
(* tail, an unlink that is killed makes it the header, and from there the  *)
(* list may lead to a block that is in use.                                *)
HandsOutFree == todo # <<>> /\ Intact(arg.c) => arg.b \notin DOMAIN live

(* To its callers the pool stays an allocator of disjoint extents across   *)
(* kills, as long as they deal with intact lists.                          *)
AllocatesAcrossKills ==
  Abs!Init /\ [][Intact(arg.c)' => [Abs!Next]_<<Held, Got>>]_crashVars

(* A kill loses at most one block: carved blocks that are neither held nor *)
(* counted by their list are no more than the kills there were outside an  *)
(* unlink.                                                                 *)
Unheld == {b \in Blocks \ DOMAIN live : b < cur_offset /\ hdr[b].idx \notin torn}

Counted == UNION {{c} \X (1 .. free_blk_list[c].size) : c \in Classes \ torn}

LossBounded ==
  Idle => Cardinality(Unheld) - Cardinality(Counted) <= crashes - Cardinality(torn)
=============================================================================
