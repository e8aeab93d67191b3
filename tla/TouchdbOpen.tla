---------------------------- MODULE TouchdbOpen -----------------------------
(***************************************************************************)
(* touchdb_new: processes open one directory, which may not exist yet,     *)
(* and put values once they have it.  Nothing locks the directory: a       *)
(* process decides by access() whether to load or to initialise, and the   *)
(* files it maps are seen by all others at every step.  Each action is one *)
(* system call or one group of writes to the mapped files; a process may   *)
(* be killed between any two.                                              *)
(*                                                                         *)
(* A put is atomic and carves a block: TouchdbPool and Touchdb have the    *)
(* rest; a put that a second creator overtakes in the middle is left out.  *)
(* The bucket array and an entry with its key and value take one unit of   *)
(* the pool each.  The mode is TOUCHDB_MAP.                                *)
(***************************************************************************)
EXTENDS Integers, FiniteSets

CONSTANTS
  Procs,      \* each opens the directory once and puts one value
  NoVal,      \* no entry
  MAX_KILLS

ASSUME OpenAssumption == IsFiniteSet(Procs) /\ NoVal \notin Procs /\ MAX_KILLS \in Nat

NIL == 0

(* An address whose pool_idx names a pool that does not exist: touchdb_ptr_of *)
(* gives NULL for it in every process.                                     *)
LOST == -1

(* Every process carves two blocks at most: a bucket array and an entry. *)
Offsets == 1 .. 2 * Cardinality(Procs) + 1

VARIABLES
  dir,    \* whether the directory exists
  file,   \* info and data file: "absent", "empty" or "full"
  info,   \* the info file: magic, named (pool_list[0].shm_file), pool (its
          \* size is set), cur_offset, bulk_list
  links,  \* the data file, by offset: the entries that buckets there lead to
  val,    \* and the process whose entry is there, or NoVal
  pc,     \* where each process is
  found,  \* what its access() of the info file said
  mapped, \* whether the process has a mapping of the data file
  bulk,   \* touchdb_map_init's local bulk_list
  waited, \* whether its touchdb_malloc was refused, that is, i > 1 there
  putAt,  \* the values put, with whether a process was initialising then
  kills

vars == <<dir, file, info, links, val, pc, found, mapped, bulk, waited, putAt, kills>>

shared == <<dir, file, info, links, val>>
local  == <<found, mapped, bulk, waited, putAt, kills>>

Step(p, here, next) == pc[p] = here /\ pc' = [pc EXCEPT ![p] = next]

ReadStep(p, here, next) == Step(p, here, next) /\ UNCHANGED <<shared, local>>

InfoStep(p, here, next, new) ==
  /\ Step(p, here, next)
  /\ info' = new
  /\ UNCHANGED <<dir, file, links, val, local>>

-----------------------------------------------------------------------------

Init ==
  /\ dir = FALSE
  /\ file = [f \in {"info", "data"} |-> "absent"]
  /\ info = [magic |-> FALSE, named |-> FALSE, pool |-> FALSE, cur_offset |-> 0,
             bulk_list |-> NIL]
  /\ links = [o \in Offsets |-> {}]
  /\ val = [o \in Offsets |-> NoVal]
  /\ pc = [p \in Procs |-> "access_dir"]
  /\ found = [p \in Procs |-> "unknown"]
  /\ mapped = [p \in Procs |-> FALSE]
  /\ bulk = [p \in Procs |-> NIL]
  /\ waited = [p \in Procs |-> FALSE]
  /\ putAt = [p \in {} |-> FALSE]
  /\ kills = 0

(* make_sure_dir *)
access_dir(p) == ReadStep(p, "access_dir", IF dir THEN "access_info" ELSE "mkdir")

(* mkdir fails when the directory was created since the access(). *)
mkdir_exits_unless_there(p) ==
  /\ Step(p, "mkdir", IF dir THEN "access_info" ELSE "exit")
  /\ dir' = TRUE
  /\ UNCHANGED <<file, info, links, val, local>>

mkdir(p) ==
  /\ Step(p, "mkdir", IF dir THEN "exit" ELSE "access_info")
  /\ dir' = TRUE
  /\ UNCHANGED <<file, info, links, val, local>>

access_info(p) ==
  /\ Step(p, "access_info", "open_info")
  /\ found' = [found EXCEPT ![p] = IF file["info"] = "absent" THEN "absent" ELSE "present"]
  /\ UNCHANGED <<shared, mapped, bulk, waited, putAt, kills>>

(* get_shm: open with O_CREAT; then fstat, and a write at the end when the *)
(* file is short; then mmap.                                               *)
get_shm_open(p, f, here, next) ==
  /\ Step(p, here, next)
  /\ file' = [file EXCEPT ![f] = IF @ = "absent" THEN "empty" ELSE @]
  /\ UNCHANGED <<dir, info, links, val, local>>

get_shm_mmap(p, f, here, next) ==
  /\ Step(p, here, next)
  /\ file' = [file EXCEPT ![f] = "full"]
  /\ mapped' = [mapped EXCEPT ![p] = (f = "data")]
  /\ UNCHANGED <<dir, info, links, val, found, bulk, waited, putAt, kills>>

open_info(p) == get_shm_open(p, "info", "open_info", "mmap_info")

mmap_info(p) ==
  get_shm_mmap(p, "info", "mmap_info", IF found[p] = "present" THEN "check_magic" ELSE "magic")

(* The load path.  "Data file is invalid" ends the process. *)
check_magic(p) == ReadStep(p, "check_magic", IF info.magic THEN "load" ELSE "exit")

(* The loop over pool_list: one pool, or none that has a name. *)
load(p) == ReadStep(p, "load", IF info.named THEN "open_data" ELSE "ready")

(* The other path: magic number and mode, then memset of pool_list, then    *)
(* the name of the data file.                                              *)
write_magic(p) == InfoStep(p, "magic", "memset", [info EXCEPT !.magic = TRUE])

memset_pool_list_from_start(p) ==
  InfoStep(p, "memset", "name", [info EXCEPT !.magic = FALSE, !.named = FALSE, !.pool = FALSE, !.cur_offset = 0])

memset_pool_list(p) ==
  InfoStep(p, "memset", "name", [info EXCEPT !.named = FALSE, !.pool = FALSE, !.cur_offset = 0])

name_pool_no_name(p) == InfoStep(p, "name", "open_data", info)

name_pool(p) == InfoStep(p, "name", "open_data", [info EXCEPT !.named = TRUE])

(* The path is read back from the info file.  Without a name it is that of  *)
(* the directory, which cannot be opened: get_shm returns NULL, and nobody *)
(* looks at the result.                                                    *)
open_data_named(p) ==
  info.named /\ get_shm_open(p, "data", "open_data", "mmap_data")

open_data_nameless(p) ==
  ~info.named /\ ReadStep(p, "open_data", IF found[p] = "present" THEN "ready" ELSE "pool_init")

open_data(p) == open_data_named(p) \/ open_data_nameless(p)

mmap_data_inits_always(p) == get_shm_mmap(p, "data", "mmap_data", "pool_init")

(* touchdb_pool_init with is_inited set writes nothing but its shm_info. *)
mmap_data(p) ==
  get_shm_mmap(p, "data", "mmap_data", IF found[p] = "present" THEN "ready" ELSE "pool_init")

touchdb_pool_init_no_size(p) ==
  InfoStep(p, "pool_init", "map_malloc", [info EXCEPT !.cur_offset = 1])

touchdb_pool_init_from_0(p) ==
  InfoStep(p, "pool_init", "map_malloc", [info EXCEPT !.pool = TRUE, !.cur_offset = 0])

touchdb_pool_init(p) ==
  InfoStep(p, "pool_init", "map_malloc", [info EXCEPT !.pool = TRUE, !.cur_offset = 1])

(* touchdb_map_init asks touchdb_malloc for the array.  While the size of   *)
(* the pool is 0 it is refused and asks the same pool in the next round.   *)
map_malloc_refused(p) ==
  /\ Step(p, "map_malloc", "map_malloc")
  /\ ~info.pool /\ ~waited[p]
  /\ waited' = [waited EXCEPT ![p] = TRUE]
  /\ UNCHANGED <<shared, found, mapped, bulk, putAt, kills>>

(* The header of the block is written through the mapping. *)
map_malloc_dies(p) == info.pool /\ ~mapped[p] /\ ReadStep(p, "map_malloc", "died")

(* The address gets pool_idx i - 1, which is 0 only in the first round. *)
map_malloc_served(p) ==
  /\ Step(p, "map_malloc", "map_clear")
  /\ info.pool /\ mapped[p]
  /\ bulk' = [bulk EXCEPT ![p] = info.cur_offset]
  /\ info' = [info EXCEPT !.bulk_list = IF waited[p] THEN LOST ELSE info.cur_offset,
                         !.cur_offset = @ + 1]
  /\ UNCHANGED <<dir, file, links, val, found, mapped, waited, putAt, kills>>

map_malloc(p) == map_malloc_refused(p) \/ map_malloc_dies(p) \/ map_malloc_served(p)

(* The buckets are cleared through the local pointer. *)
map_clear(p) ==
  /\ Step(p, "map_clear", "ready")
  /\ links' = [links EXCEPT ![bulk[p]] = {}]
  /\ val' = [val EXCEPT ![bulk[p]] = NoVal]
  /\ UNCHANGED <<dir, file, info, local>>

-----------------------------------------------------------------------------
(* touchdb_new ends for p in "ready" (it returned), "exit" or "died". *)
Ended(p) == pc[p] \in {"ready", "put", "exit", "died", "crashed", "killed"}

(* p works on the files as one that creates them. *)
Initialising(p) == found[p] = "absent" /\ ~Ended(p)

(* Where touchdb_ptr_of finds the buckets: not without a bucket array that  *)
(* has an address, and not while the pool has no size.                     *)
HasBuckets == info.pool /\ info.bulk_list \notin {NIL, LOST}

(* Otherwise get_bulk gives NULL, or the start of the pool, and touchdb_put, *)
(* which works on it, ends here; so it does without a mapping.             *)
put_crashes(p) ==
  /\ ~mapped[p] \/ ~HasBuckets
  /\ ReadStep(p, "ready", "crashed")

(* The entry is carved and linked into the buckets, or into whatever lies  *)
(* where the buckets were.                                                 *)
put(p) ==
  LET e == info.cur_offset IN
  /\ Step(p, "ready", "put")
  /\ mapped[p] /\ HasBuckets
  /\ info' = [info EXCEPT !.cur_offset = @ + 1]
  /\ links' = [links EXCEPT ![info.bulk_list] = @ \cup {e}]
  /\ val' = [val EXCEPT ![e] = p]
  /\ putAt' = [q \in DOMAIN putAt \cup {p} |->
                 IF q = p THEN \E r \in Procs : Initialising(r) ELSE putAt[q]]
  /\ UNCHANGED <<dir, file, found, mapped, bulk, waited, kills>>

kill(p) ==
  /\ ~Ended(p)
  /\ Step(p, pc[p], "killed")
  /\ kills < MAX_KILLS
  /\ kills' = kills + 1
  /\ UNCHANGED <<shared, found, mapped, bulk, waited, putAt>>

touchdb_new(p) ==
  \/ access_dir(p) \/ mkdir(p) \/ access_info(p) \/ open_info(p) \/ mmap_info(p)
  \/ check_magic(p) \/ load(p)
  \/ write_magic(p) \/ memset_pool_list(p) \/ name_pool(p)
  \/ open_data(p) \/ mmap_data(p)
  \/ touchdb_pool_init(p) \/ map_malloc(p) \/ map_clear(p)

Next == \E p \in Procs : touchdb_new(p) \/ put_crashes(p) \/ put(p) \/ kill(p)

(* A process inside touchdb_new keeps running, unless it is killed. *)
Spec == Init /\ [][Next]_vars /\ \A p \in Procs : WF_vars(touchdb_new(p))

-----------------------------------------------------------------------------

Creators == {p \in Procs : found[p] = "absent"}

(* Nobody was stopped inside touchdb_new: killed, or by a missing mapping. *)
Undisturbed == kills = 0 /\ \A p \in Procs : pc[p] # "died"

(* The values a get finds: linked from the buckets, with its entry intact. *)
Readable ==
  LET b == info.bulk_list IN
  IF ~HasBuckets \/ val[b] # NoVal THEN {} ELSE {val[e] : e \in links[b]}

(* A value put at a moment when no process was creating the files stays    *)
(* readable: with one creator whatever is killed, and with several that    *)
(* raced if none of them was killed, or died for want of a mapping, in the *)
(* middle.                                                                 *)
PutsStay ==
  Cardinality(Creators) <= 1 \/ Undisturbed =>
    \A p \in DOMAIN putAt : ~putAt[p] => p \in Readable

(* When the only creator has returned from touchdb_new, the directory is   *)
(* complete, so that any process that opens it later gets a pool and a     *)
(* map: a loader needs nothing but what the creator wrote.                 *)
CreatedIsUsable ==
  \A p \in Creators :
    Creators = {p} /\ pc[p] \in {"ready", "put"} =>
      /\ file["info"] = "full" /\ file["data"] = "full"
      /\ info.magic /\ info.named /\ info.pool
      /\ info.bulk_list \in 1 .. info.cur_offset - 1

(* No process is refused with "Data file is invalid" when another one has  *)
(* been let in.                                                            *)
LetInForAll ==
  [][\A p, q \in Procs :
       pc[p] = "check_magic" /\ pc'[p] = "exit" => pc[q] \notin {"ready", "put"}]_vars

(* A process that alone creates the files gets through touchdb_new and can *)
(* use them, whatever is loading them meanwhile.  With a second creator    *)
(* neither holds: it may find no name, no size, or no bucket array.        *)
CreatorNeverCrashes ==
  \A p \in Procs : Creators = {p} => pc[p] \notin {"died", "crashed"}

(* A new directory is not lost on all who open it: when those who came are *)
(* through and none was killed, touchdb_new has returned to one of them,   *)
(* though it sends away who was late with its mkdir or early with its load *)
(* and creators may have taken the name of the pool from each other.       *)
SomebodyGetsIn ==
  /\ kills = 0
  /\ \A p \in Procs : pc[p] = "access_dir" \/ Ended(p)
  /\ \E p \in Procs : pc[p] # "access_dir"
  => \E p \in Procs : pc[p] \in {"ready", "put", "crashed"}

(* Unless a process is killed, every touchdb_new ends: a creator that waits *)
(* in touchdb_malloc for a pool another one has cleared leaves the loop when *)
(* the pool is set up again, if only with an address that nobody can use.  *)
OpensEnd ==
  \A p \in Procs : (pc[p] # "access_dir") ~> (Ended(p) \/ kills > 0)
=============================================================================
