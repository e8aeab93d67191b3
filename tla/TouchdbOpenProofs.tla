------------------------- MODULE TouchdbOpenProofs --------------------------
(***************************************************************************)
(* Proofs about TouchdbOpen for any finite number of processes, creators   *)
(* among them, and of kills.                                               *)
(*                                                                         *)
(* OpenInv is inductive.  Its last part, Settled, is what makes a put      *)
(* stay: when it was made with nobody initialising, nobody ever will be    *)
(* again, so no step resets the pool under it.  That needs to know that    *)
(* the buckets then lie below cur_offset, hence the two parts before:      *)
(* OneCreator for any number of kills, ResetsEnd for any number of         *)
(* creators when none is killed, or dies for want of a mapping.            *)
(***************************************************************************)
EXTENDS TouchdbOpen, FiniteSetTheorems, TLAPS

Before == {"access_dir", "mkdir", "access_info"}
Resetting == {"name", "open_data", "mmap_data", "pool_init", "map_malloc"}
Building == {"open_info", "mmap_info", "magic", "memset"} \cup Resetting
In == {"ready", "put"}
HasArray == {"map_clear"} \cup In
Locations ==
  Before \cup Building \cup HasArray \cup {"check_magic", "load", "exit", "died", "crashed", "killed"}

Info ==
  [magic : BOOLEAN, named : BOOLEAN, pool : BOOLEAN, cur_offset : Nat,
   bulk_list : Nat \cup {LOST}]

TypeOK ==
  /\ dir \in BOOLEAN
  /\ file \in [{"info", "data"} -> {"absent", "empty", "full"}]
  /\ info \in Info
  /\ links \in [Offsets -> SUBSET Nat]
  /\ val \in [Offsets -> Procs \cup {NoVal}]
  /\ pc \in [Procs -> Locations]
  /\ found \in [Procs -> {"unknown", "absent", "present"}]
  /\ mapped \in [Procs -> BOOLEAN]
  /\ bulk \in [Procs -> Nat]
  /\ waited \in [Procs -> BOOLEAN]
  /\ DOMAIN putAt \subseteq Procs /\ putAt \in [DOMAIN putAt -> BOOLEAN]
  /\ kills \in Nat

(* What a process knows by where it is. *)
Control ==
  \A p \in Procs :
    /\ pc[p] \in Before => found[p] = "unknown"
    /\ pc[p] \in {"check_magic", "load"} => found[p] = "present"
    /\ pc[p] \in {"magic", "memset", "name", "pool_init", "map_malloc", "map_clear"} =>
         found[p] = "absent"
    /\ pc[p] \in {"open_info", "mmap_info", "open_data", "mmap_data"} \cup In =>
         found[p] # "unknown"
    /\ pc[p] \in Before \cup Building \cup {"check_magic", "load"} => bulk[p] = NIL
    /\ pc[p] \in Before \cup (Building \ {"map_malloc"}) \cup {"check_magic", "load"} => ~waited[p]
    /\ p \in DOMAIN putAt => pc[p] = "put"

(* What is on disk by where a process is: none of it is ever undone. *)
Files ==
  /\ \A p \in Procs :
       /\ found[p] # "unknown" /\ pc[p] \notin {"open_info", "killed"} => file["info"] # "absent"
       /\ pc[p] \in {"check_magic", "load", "magic", "memset"} \cup Resetting \cup HasArray =>
            file["info"] = "full"
       /\ pc[p] \in {"memset", "load"} \cup Resetting \cup HasArray => info.magic
       /\ found[p] = "absent" /\ pc[p] \in HasArray => mapped[p] /\ info.bulk_list # NIL
       /\ mapped[p] => file["info"] # "absent" /\ file["data"] = "full"
  /\ info.pool => info.cur_offset # 0

Carved == {p \in Procs : bulk[p] # NIL}

(* A process carves twice, so that the offsets suffice. *)
Room ==
  /\ info.cur_offset <= 1 + Cardinality(Carved) + Cardinality(DOMAIN putAt)
  /\ info.bulk_list \notin {NIL, LOST} => info.bulk_list \in Offsets
  /\ \A p \in Procs : bulk[p] # NIL => bulk[p] \in Offsets

AtMostOneCreator == \A c, d \in Creators : c = d

(* With one creator nothing is reset: it finds the name and the size it     *)
(* wrote itself, and the buckets are the first block.                      *)
OneCreator ==
  AtMostOneCreator =>
    /\ \A c \in Creators :
         /\ pc[c] \in (Resetting \ {"name"}) \cup HasArray => info.named
         /\ pc[c] \in {"map_malloc"} \cup HasArray => info.pool
         /\ pc[c] \in {"pool_init", "map_malloc"} => mapped[c]
         /\ ~waited[c] /\ pc[c] \notin {"died", "crashed"}
    /\ info.bulk_list # LOST
    /\ info.bulk_list = NIL => \A o \in Offsets : val[o] = NoVal
    /\ info.bulk_list # NIL =>
         /\ info.bulk_list < info.cur_offset /\ val[info.bulk_list] = NoVal
         /\ \E c \in Creators : pc[c] \notin Building

(* If nobody is stopped, whoever resets the pool, or finds its buckets     *)
(* used for an entry, also replaces or clears them.                        *)
ResetsEnd ==
  Undisturbed /\ info.bulk_list \notin {NIL, LOST} =>
    \/ \E q \in Creators : pc[q] \in Resetting
    \/ /\ info.bulk_list < info.cur_offset
       /\ \/ val[info.bulk_list] = NoVal
          \/ \E q \in Creators : pc[q] = "map_clear" /\ bulk[q] = info.bulk_list

Linked(p) ==
  \E e \in links[info.bulk_list] :
    e \in Offsets /\ e < info.cur_offset /\ val[e] = p

Settled ==
  /\ DOMAIN putAt # {} => info.bulk_list # NIL /\ file["info"] # "absent"
  /\ \A p \in DOMAIN putAt : ~putAt[p] =>
       /\ HasBuckets /\ \A q \in Procs : ~Initialising(q)
       /\ Undisturbed \/ AtMostOneCreator => Linked(p)

OpenInv ==
  TypeOK /\ Control /\ Files /\ Room /\ OneCreator /\ ResetsEnd /\ Settled

ProcStep(p) == touchdb_new(p) \/ put_crashes(p) \/ put(p) \/ kill(p)

(* A step of an opening process keeps the types. *)
LEMMA TypeOKStep ==
  ASSUME TypeOK, NEW p \in Procs, ProcStep(p)
  PROVE  TypeOK'
<1> USE OpenAssumption DEF Info, Before, Building, Resetting, In, HasArray, Locations,
                           NIL, LOST, Step, shared, local, TypeOK, Ended
<1>1. CASE \/ access_dir(p) \/ mkdir(p) \/ check_magic(p) \/ load(p) \/ put_crashes(p)
           \/ open_data_nameless(p) \/ map_malloc_dies(p)
  <2>1. CASE access_dir(p)
    BY <2>1 DEF access_dir, ReadStep
  <2>2. CASE mkdir(p)
    BY <2>2 DEF mkdir, ReadStep
  <2>3. CASE check_magic(p)
    BY <2>3 DEF check_magic, ReadStep
  <2>4. CASE load(p)
    BY <2>4 DEF load, ReadStep
  <2>5. CASE put_crashes(p)
    BY <2>5 DEF put_crashes, ReadStep
  <2>6. CASE open_data_nameless(p) \/ map_malloc_dies(p)
    BY <2>6 DEF open_data_nameless, map_malloc_dies, ReadStep
  <2> QED
    BY <1>1, <2>1, <2>2, <2>3, <2>4, <2>5, <2>6
<1>2. CASE access_info(p)
  BY <1>2 DEF access_info
<1>3. CASE open_info(p) \/ open_data_named(p)
  BY <1>3 DEF open_info, open_data_named, get_shm_open
<1>4. CASE mmap_info(p) \/ mmap_data(p)
  <2>1. CASE mmap_info(p)
    BY <2>1 DEF mmap_info, get_shm_mmap
  <2>2. CASE mmap_data(p)
    BY <2>2 DEF mmap_data, get_shm_mmap
  <2> QED
    BY <1>4, <2>1, <2>2
<1>5. CASE write_magic(p) \/ memset_pool_list(p) \/ name_pool(p) \/ touchdb_pool_init(p)
  <2>1. info' \in Info
    BY <1>5, 0 \in Nat, 1 \in Nat, Zenon
       DEF write_magic, memset_pool_list, name_pool, touchdb_pool_init, InfoStep
  <2>2. pc' \in [Procs -> Locations]
    BY <1>5 DEF write_magic, memset_pool_list, name_pool, touchdb_pool_init, InfoStep
  <2> QED
    BY <1>5, <2>1, <2>2, Zenon DEF write_magic, memset_pool_list, name_pool,
                                   touchdb_pool_init, InfoStep
<1>6. CASE map_malloc_served(p)
  <2>1. info.cur_offset \in Nat /\ info.cur_offset + 1 \in Nat
    OBVIOUS
  <2>2. info' \in Info
    BY <1>6, <2>1, Zenon DEF map_malloc_served
  <2>3. pc' \in [Procs -> Locations] /\ bulk' \in [Procs -> Nat]
    BY <1>6, <2>1 DEF map_malloc_served
  <2> QED
    BY <1>6, <2>2, <2>3, Zenon DEF map_malloc_served
<1>7. CASE map_clear(p)
  BY <1>7 DEF map_clear
<1>8. CASE put(p)
  <2>1. info.cur_offset \in Nat /\ info.cur_offset + 1 \in Nat
    OBVIOUS
  <2>2. info' \in Info
    BY <1>8, <2>1, Zenon DEF put
  <2>3. pc' \in [Procs -> Locations]
    BY <1>8 DEF put
  <2>4. links' \in [Offsets -> SUBSET Nat] /\ val' \in [Offsets -> Procs \cup {NoVal}]
    BY <1>8, <2>1 DEF put
  <2>5. DOMAIN putAt' \subseteq Procs /\ putAt' \in [DOMAIN putAt' -> BOOLEAN]
    BY <1>8, Zenon DEF put
  <2> QED
    BY <1>8, <2>2, <2>3, <2>4, <2>5, Zenon DEF put
<1>9. CASE kill(p)
  BY <1>9 DEF kill
<1>10. CASE map_malloc_refused(p)
  BY <1>10 DEF map_malloc_refused
<1> QED
  BY <1>1, <1>2, <1>3, <1>4, <1>5, <1>6, <1>7, <1>8, <1>9, <1>10
     DEF ProcStep, touchdb_new, open_data, map_malloc

(* A step keeps what the place of every process says of the files. *)
LEMMA ControlStep ==
  ASSUME TypeOK, Control, NEW p \in Procs, ProcStep(p)
  PROVE  Control'
<1> USE OpenAssumption DEF Info, Before, Building, Resetting, In, HasArray, Locations,
                           NIL, LOST, Step, shared, local, TypeOK, Control, Ended
<1>1. CASE \/ access_dir(p) \/ mkdir(p) \/ check_magic(p) \/ load(p) \/ put_crashes(p)
           \/ open_data_nameless(p) \/ map_malloc_dies(p)
  BY <1>1 DEF access_dir, mkdir, check_magic, load, put_crashes, open_data_nameless,
              map_malloc_dies, ReadStep
<1>2. CASE access_info(p)
  BY <1>2 DEF access_info
<1>3. CASE open_info(p) \/ open_data_named(p)
  BY <1>3 DEF open_info, open_data_named, get_shm_open
<1>4. CASE mmap_info(p) \/ mmap_data(p)
  BY <1>4 DEF mmap_info, mmap_data, get_shm_mmap
<1>5. CASE write_magic(p) \/ memset_pool_list(p) \/ name_pool(p) \/ touchdb_pool_init(p)
  BY <1>5 DEF write_magic, memset_pool_list, name_pool, touchdb_pool_init, InfoStep
<1>6. CASE map_malloc_served(p)
  BY <1>6 DEF map_malloc_served
<1>7. CASE map_clear(p)
  BY <1>7 DEF map_clear
<1>8. CASE put(p)
  BY <1>8 DEF put
<1>9. CASE kill(p)
  BY <1>9 DEF kill
<1>10. CASE map_malloc_refused(p)
  BY <1>10 DEF map_malloc_refused
<1> QED
  BY <1>1, <1>2, <1>3, <1>4, <1>5, <1>6, <1>7, <1>8, <1>9, <1>10
     DEF ProcStep, touchdb_new, open_data, map_malloc

(* A step keeps what the files on disk say of each other. *)
LEMMA FilesStep ==
  ASSUME TypeOK, Control, Files, NEW p \in Procs, ProcStep(p)
  PROVE  Files'
<1> USE OpenAssumption DEF Info, Before, Building, Resetting, In, HasArray, Locations,
                           NIL, LOST, Step, shared, local, TypeOK, Control, Files, Ended
<1>1. CASE \/ access_dir(p) \/ mkdir(p) \/ check_magic(p) \/ load(p) \/ put_crashes(p)
           \/ open_data_nameless(p) \/ map_malloc_dies(p)
  BY <1>1 DEF access_dir, mkdir, check_magic, load, put_crashes, open_data_nameless,
              map_malloc_dies, ReadStep
<1>2. CASE access_info(p)
  BY <1>2 DEF access_info
<1>3. CASE open_info(p) \/ open_data_named(p)
  BY <1>3 DEF open_info, open_data_named, get_shm_open
<1>4. CASE mmap_info(p) \/ mmap_data(p)
  BY <1>4 DEF mmap_info, mmap_data, get_shm_mmap
<1>5. CASE write_magic(p) \/ memset_pool_list(p) \/ name_pool(p) \/ touchdb_pool_init(p)
  <2>1. CASE write_magic(p)
    BY <2>1 DEF write_magic, InfoStep
  <2>2. CASE memset_pool_list(p)
    BY <2>2 DEF memset_pool_list, InfoStep
  <2>3. CASE name_pool(p)
    BY <2>3 DEF name_pool, InfoStep
  <2>4. CASE touchdb_pool_init(p)
    BY <2>4 DEF touchdb_pool_init, InfoStep
  <2> QED
    BY <1>5, <2>1, <2>2, <2>3, <2>4
<1>6. CASE map_malloc_served(p)
  BY <1>6 DEF map_malloc_served
<1>7. CASE map_clear(p)
  BY <1>7 DEF map_clear
<1>8. CASE put(p)
  BY <1>8 DEF put
<1>9. CASE kill(p)
  BY <1>9 DEF kill
<1>10. CASE map_malloc_refused(p)
  BY <1>10 DEF map_malloc_refused
<1> QED
  BY <1>1, <1>2, <1>3, <1>4, <1>5, <1>6, <1>7, <1>8, <1>9, <1>10
     DEF ProcStep, touchdb_new, open_data, map_malloc

(* The sets that the page counts are compared with are finite. *)
LEMMA Counts ==
  ASSUME TypeOK
  PROVE  /\ IsFiniteSet(Procs) /\ IsFiniteSet(Carved) /\ IsFiniteSet(DOMAIN putAt)
         /\ Cardinality(Procs) \in Nat
         /\ Cardinality(Carved) \in Nat /\ Cardinality(Carved) <= Cardinality(Procs)
         /\ Cardinality(DOMAIN putAt) \in Nat
<1>1. IsFiniteSet(Procs) /\ Carved \in SUBSET Procs /\ DOMAIN putAt \in SUBSET Procs
  BY OpenAssumption DEF TypeOK, Carved
<1> QED
  BY <1>1, FS_Subset, FS_CardinalityType

(* Who carves next has one of the offsets left. *)
LEMMA RoomLeft ==
  ASSUME TypeOK, Control, Room, NEW p \in Procs, pc[p] \in {"map_malloc", "ready"},
         info.cur_offset # 0
  PROVE  info.cur_offset \in Offsets
<1> DEFINE Others == Procs \ {p}
<1>1. /\ IsFiniteSet(Others)
      /\ Cardinality(Others) = Cardinality(Procs) - 1 /\ Cardinality(Others) \in Nat
  BY Counts, FS_RemoveElement, FS_CardinalityType
<1>2. Cardinality(DOMAIN putAt) <= Cardinality(Others)
  <2>1. DOMAIN putAt \in SUBSET Others
    BY DEF TypeOK, Control
  <2> QED
    BY <1>1, <2>1, FS_Subset
<1>3. Cardinality(Carved) <= Cardinality(Procs)
  BY Counts
<1> QED
  BY <1>1, <1>2, <1>3, Counts DEF Room, Offsets, TypeOK, Info

(* A step carves no more than it keeps count of: the offsets stay in the    *)
(* file.                                                                   *)
LEMMA RoomStep ==
  ASSUME TypeOK, Control, Files, Room, NEW p \in Procs, ProcStep(p)
  PROVE  Room'
<1> USE DEF Step, shared, local, NIL, LOST
<1>1. CASE map_malloc_served(p)
  <2>1. info.cur_offset \in Offsets /\ info.cur_offset \in Nat \ {0}
    BY <1>1, RoomLeft DEF map_malloc_served, Files, TypeOK, Info
  <2>2. p \notin Carved /\ Carved' = Carved \cup {p}
    BY <1>1, <2>1 DEF map_malloc_served, Carved, Control, Building, Resetting,
                      TypeOK
  <2>3. Cardinality(Carved') = Cardinality(Carved) + 1
    BY <2>2, Counts, FS_AddElement
  <2>4. info'.cur_offset = info.cur_offset + 1 /\ info'.bulk_list \in {LOST, info.cur_offset}
    BY <1>1 DEF map_malloc_served, TypeOK, Info
  <2>5. info'.cur_offset <= 1 + Cardinality(Carved') + Cardinality(DOMAIN putAt')
    BY <1>1, <2>1, <2>3, <2>4, Counts DEF map_malloc_served, Room
  <2>6. \A q \in Procs : bulk'[q] = IF q = p THEN info.cur_offset ELSE bulk[q]
    BY <1>1 DEF map_malloc_served, TypeOK
  <2> QED
    BY <2>1, <2>4, <2>5, <2>6 DEF Room, Offsets
<1>2. CASE put(p)
  <2>1. p \notin DOMAIN putAt /\ DOMAIN putAt' = DOMAIN putAt \cup {p}
    BY <1>2 DEF put, Control
  <2>2. Cardinality(DOMAIN putAt') = Cardinality(DOMAIN putAt) + 1
    BY <2>1, Counts, FS_AddElement
  <2>3. info'.cur_offset = info.cur_offset + 1 /\ info'.bulk_list = info.bulk_list
    BY <1>2 DEF put, TypeOK, Info
  <2>4. info.cur_offset \in Nat
    BY DEF TypeOK, Info
  <2> QED
    BY <1>2, <2>2, <2>3, <2>4, Counts DEF put, Room, Carved, Offsets
<1>3. CASE ~map_malloc_served(p) /\ ~put(p)
  <2>1. Carved' = Carved /\ putAt' = putAt /\ bulk' = bulk
    BY <1>3 DEF ProcStep, touchdb_new, Carved, access_dir, mkdir, access_info, open_info,
                mmap_info,
                check_magic, load, write_magic, memset_pool_list, name_pool, open_data, mmap_data,
                open_data_named, open_data_nameless, touchdb_pool_init, map_malloc,
                map_malloc_refused, map_malloc_dies, map_clear, put_crashes, kill, ReadStep, InfoStep,
                get_shm_open, get_shm_mmap
  <2>2. /\ info'.bulk_list = info.bulk_list
        /\ info'.cur_offset \in {info.cur_offset, 0, 1}
    BY <1>3 DEF ProcStep, touchdb_new, TypeOK, Info, access_dir, mkdir, access_info,
                open_info, mmap_info,
                check_magic, load, write_magic, memset_pool_list, name_pool, open_data, mmap_data,
                open_data_named, open_data_nameless, touchdb_pool_init, map_malloc,
                map_malloc_refused, map_malloc_dies, map_clear, put_crashes, kill, ReadStep, InfoStep,
                get_shm_open, get_shm_mmap
  <2> QED
    BY <2>1, <2>2, Counts DEF Room, Offsets
<1> QED
  BY <1>1, <1>2, <1>3

(* A step keeps one creator of the files at most. *)
LEMMA OneCreatorStep ==
  ASSUME TypeOK, Control, Files, Room, OneCreator, Settled, NEW p \in Procs, ProcStep(p)
  PROVE  OneCreator'
<1> USE OpenAssumption DEF Info, Before, Building, Resetting, In, HasArray, Locations,
                           NIL, LOST, Step, shared, local, TypeOK, Control, Files, Room,
                           OneCreator, Settled, AtMostOneCreator, Creators, Ended,
                           HasBuckets
<1>1. CASE \/ access_dir(p) \/ mkdir(p) \/ check_magic(p) \/ load(p) \/ put_crashes(p)
           \/ open_data_nameless(p) \/ map_malloc_dies(p)
  BY <1>1 DEF access_dir, mkdir, check_magic, load, put_crashes, open_data_nameless,
              map_malloc_dies, ReadStep
<1>2. CASE access_info(p)
  BY <1>2 DEF access_info
<1>3. CASE open_info(p) \/ open_data_named(p)
  BY <1>3 DEF open_info, open_data_named, get_shm_open
<1>4. CASE mmap_info(p) \/ mmap_data(p)
  BY <1>4 DEF mmap_info, mmap_data, get_shm_mmap
<1>5. CASE write_magic(p) \/ memset_pool_list(p) \/ name_pool(p) \/ touchdb_pool_init(p)
  <2>1. CASE write_magic(p)
    BY <2>1 DEF write_magic, InfoStep
  <2>2. CASE memset_pool_list(p)
    BY <2>2 DEF memset_pool_list, InfoStep
  <2>3. CASE name_pool(p)
    BY <2>3 DEF name_pool, InfoStep
  <2>4. CASE touchdb_pool_init(p)
    BY <2>4 DEF touchdb_pool_init, InfoStep
  <2> QED
    BY <1>5, <2>1, <2>2, <2>3, <2>4
<1>6. CASE map_malloc_served(p)
  <2> SUFFICES ASSUME AtMostOneCreator' PROVE OneCreator'
    BY DEF OneCreator
  <2>1. p \in Creators /\ Creators' = Creators /\ AtMostOneCreator
    BY <1>6 DEF map_malloc_served
  <2>2. info.bulk_list = NIL /\ \A o \in Offsets : val'[o] = NoVal
    BY <1>6, <2>1 DEF map_malloc_served
  <2>3. info.cur_offset \in Offsets /\ info.cur_offset # 0
    BY <1>6, RoomLeft DEF map_malloc_served
  <2>4. info'.bulk_list = info.cur_offset /\ info'.cur_offset = info.cur_offset + 1
    BY <1>6 DEF map_malloc_served
  <2> QED
    BY <1>6, <2>1, <2>2, <2>3, <2>4 DEF map_malloc_served
<1>7. CASE map_clear(p)
  BY <1>7 DEF map_clear
<1>8. CASE put(p)
  BY <1>8 DEF put
<1>9. CASE kill(p)
  BY <1>9 DEF kill
<1>10. CASE map_malloc_refused(p)
  BY <1>10 DEF map_malloc_refused
<1> QED
  BY <1>1, <1>2, <1>3, <1>4, <1>5, <1>6, <1>7, <1>8, <1>9, <1>10
     DEF ProcStep, touchdb_new, open_data, map_malloc

(* A step keeps a creator at its reset, or a map that was reset. *)
LEMMA ResetsEndStep ==
  ASSUME TypeOK, Control, Files, Room, ResetsEnd, NEW p \in Procs, ProcStep(p)
  PROVE  ResetsEnd'
<1> USE OpenAssumption DEF Info, Before, Building, Resetting, In, HasArray, Locations,
                           NIL, LOST, Step, shared, local, TypeOK, Control, Files, Room,
                           ResetsEnd, Undisturbed, Creators, Ended
<1>1. CASE \/ access_dir(p) \/ mkdir(p) \/ check_magic(p) \/ load(p) \/ put_crashes(p)
           \/ open_data_nameless(p) \/ map_malloc_dies(p)
  BY <1>1 DEF access_dir, mkdir, check_magic, load, put_crashes, open_data_nameless,
              map_malloc_dies, ReadStep
<1>2. CASE access_info(p)
  BY <1>2 DEF access_info
<1>3. CASE open_info(p) \/ open_data_named(p)
  BY <1>3 DEF open_info, open_data_named, get_shm_open
<1>4. CASE mmap_info(p) \/ mmap_data(p)
  BY <1>4 DEF mmap_info, mmap_data, get_shm_mmap
<1>5. CASE write_magic(p) \/ memset_pool_list(p) \/ name_pool(p) \/ touchdb_pool_init(p)
  BY <1>5 DEF write_magic, memset_pool_list, name_pool, touchdb_pool_init, InfoStep
<1>6. CASE map_malloc_served(p)
  BY <1>6 DEF map_malloc_served
<1>7. CASE map_clear(p)
  BY <1>7 DEF map_clear
<1>8. CASE put(p)
  BY <1>8 DEF put
<1>9. CASE kill(p)
  BY <1>9 DEF kill
<1>10. CASE map_malloc_refused(p)
  BY <1>10 DEF map_malloc_refused
<1> QED
  BY <1>1, <1>2, <1>3, <1>4, <1>5, <1>6, <1>7, <1>8, <1>9, <1>10
     DEF ProcStep, touchdb_new, open_data, map_malloc

(* A step keeps what is settled once the pool is ready. *)
LEMMA SettledStep ==
  ASSUME TypeOK, Control, Files, Room, OneCreator, ResetsEnd, Settled, NEW p \in Procs, ProcStep(p)
  PROVE  Settled'
<1> USE OpenAssumption DEF Info, Before, Building, Resetting, In, HasArray, Locations,
                           NIL, LOST, Step, shared, local, TypeOK, Control, Files, Room,
                           OneCreator, ResetsEnd, Settled, Linked, Initialising,
                           AtMostOneCreator, Creators, Ended, HasBuckets, Undisturbed
<1>1. CASE \/ access_dir(p) \/ mkdir(p) \/ check_magic(p) \/ load(p) \/ put_crashes(p)
           \/ open_data_nameless(p) \/ map_malloc_dies(p)
  BY <1>1 DEF access_dir, mkdir, check_magic, load, put_crashes, open_data_nameless,
              map_malloc_dies, ReadStep
<1>2. CASE access_info(p)
  BY <1>2 DEF access_info
<1>3. CASE open_info(p) \/ open_data_named(p)
  BY <1>3 DEF open_info, open_data_named, get_shm_open
<1>4. CASE mmap_info(p) \/ mmap_data(p)
  BY <1>4 DEF mmap_info, mmap_data, get_shm_mmap
<1>5. CASE write_magic(p) \/ memset_pool_list(p) \/ name_pool(p) \/ touchdb_pool_init(p)
  <2>1. CASE write_magic(p)
    BY <2>1 DEF write_magic, InfoStep
  <2>2. CASE memset_pool_list(p)
    BY <2>2 DEF memset_pool_list, InfoStep
  <2>3. CASE name_pool(p)
    BY <2>3 DEF name_pool, InfoStep
  <2>4. CASE touchdb_pool_init(p)
    BY <2>4 DEF touchdb_pool_init, InfoStep
  <2> QED
    BY <1>5, <2>1, <2>2, <2>3, <2>4
<1>6. CASE map_malloc_served(p)
  BY <1>6 DEF map_malloc_served
<1>7. CASE map_clear(p)
  BY <1>7 DEF map_clear
<1>8. CASE put(p)
  <2> DEFINE e == info.cur_offset
             b == info.bulk_list
  <2>1. e \in Offsets /\ b \in Offsets /\ mapped[p]
    BY <1>8, RoomLeft DEF put
  <2>2. /\ info'.cur_offset = e + 1 /\ info'.bulk_list = b
        /\ links' = [links EXCEPT ![b] = @ \cup {e}]
        /\ val' = [val EXCEPT ![e] = p]
        /\ \A q \in Procs : Initialising(q)' => Initialising(q)
        /\ AtMostOneCreator' = AtMostOneCreator /\ Undisturbed' = Undisturbed
    BY <1>8 DEF put
  <2>3. ASSUME \A q \in Procs : ~Initialising(q), Undisturbed \/ AtMostOneCreator
        PROVE  b < e
    BY <1>8, <2>3 DEF put
  <2>4. ASSUME NEW q \in DOMAIN putAt', ~putAt'[q], (Undisturbed \/ AtMostOneCreator)'
        PROVE  Linked(q)'
    <3>1. CASE q = p
      <4>1. \A r \in Procs : ~Initialising(r)
        BY <1>8, <2>4, <3>1 DEF put
      <4>2. e \in links'[b] /\ val'[e] = q /\ e < e + 1
        BY <2>1, <2>2, <3>1
      <4>3. \E d \in links'[info'.bulk_list] :
              d \in Offsets /\ d < info'.cur_offset /\ val'[d] = q
        BY <2>1, <2>2, <4>2
      <4> QED
        BY <4>3, Zenon
    <3>2. CASE q # p
      <4>1. q \in DOMAIN putAt /\ putAt'[q] = putAt[q]
        BY <1>8, <3>2 DEF put
      <4>2. Linked(q) /\ b < e
        BY <2>2, <2>3, <2>4, <4>1
      <4>3. PICK d \in links[b] : d \in Offsets /\ d < e /\ val[d] = q
        BY <4>2
      <4>4. d \in links'[b] /\ val'[d] = q
        BY <2>1, <2>2, <4>2, <4>3
      <4>5. \E c \in links'[info'.bulk_list] :
              c \in Offsets /\ c < info'.cur_offset /\ val'[c] = q
        BY <2>1, <2>2, <4>3, <4>4
      <4> QED
        BY <4>5, Zenon
    <3> QED
      BY <3>1, <3>2
  <2>5. ASSUME NEW q \in DOMAIN putAt', ~putAt'[q], NEW r \in Procs
        PROVE  ~Initialising(r)'
    BY <1>8, <2>2, <2>5 DEF put
  <2>6. HasBuckets' /\ info'.bulk_list # NIL /\ file'["info"] # "absent"
    BY <1>8, <2>1, <2>2 DEF put
  <2> QED
    BY <2>4, <2>5, <2>6, Zenon DEF Settled
<1>9. CASE kill(p)
  BY <1>9 DEF kill
<1>10. CASE map_malloc_refused(p)
  BY <1>10 DEF map_malloc_refused
<1> QED
  BY <1>1, <1>2, <1>3, <1>4, <1>5, <1>6, <1>7, <1>8, <1>9, <1>10
     DEF ProcStep, touchdb_new, open_data, map_malloc

(* Every step of every process keeps the invariant. *)
LEMMA NextOpenInv == OpenInv /\ [Next]_vars => OpenInv'
<1> SUFFICES ASSUME OpenInv, [Next]_vars PROVE OpenInv'
  OBVIOUS
<1>1. ASSUME NEW p \in Procs, ProcStep(p) PROVE OpenInv'
  BY <1>1, TypeOKStep, ControlStep, FilesStep, RoomStep, OneCreatorStep, ResetsEndStep, SettledStep
     DEF OpenInv
<1>2. CASE UNCHANGED vars
  <2>1. UNCHANGED <<dir, file, info, links, val, pc, found, mapped, bulk,
                  waited, putAt, kills>>
    BY <1>2 DEF vars
  <2>2. Creators' = Creators /\ Carved' = Carved /\ AtMostOneCreator' = AtMostOneCreator
    BY <2>1, Zenon DEF Creators, Carved, AtMostOneCreator
  <2>3. TypeOK' /\ Control' /\ Files' /\ Room'
    BY <2>1, <2>2, Zenon DEF OpenInv, TypeOK, Control, Files, Room
  <2>4. OneCreator' /\ ResetsEnd' /\ Settled'
    BY <2>1, <2>2, Zenon DEF OpenInv, OneCreator, ResetsEnd, Settled, Linked,
                             Initialising, Ended, HasBuckets, Undisturbed
  <2> QED
    BY <2>3, <2>4, Zenon DEF OpenInv
<1> QED
  BY <1>1, <1>2 DEF Next, ProcStep

(* Before any process opens the database the invariant holds. *)
LEMMA InitOpenInv == Init => OpenInv
<1> SUFFICES ASSUME Init PROVE OpenInv
  OBVIOUS
<1> USE DEF Init, NIL
<1>1. TypeOK
  BY Zenon, 0 \in Nat DEF TypeOK, Info, Locations, Before
<1>2. Control /\ Files
  BY DEF Control, Files, Before, Building, Resetting, In, HasArray
<1>3. Room
  BY <1>1, Counts DEF Room
<1>4. OneCreator
  <2>1. Creators = {} /\ info.bulk_list = 0 /\ \A o \in Offsets : val[o] = NoVal
    BY DEF Creators
  <2> QED
    BY <2>1 DEF OneCreator, LOST
<1>5. DOMAIN putAt = {}
  BY Zenon
<1>6. ResetsEnd /\ Settled
  BY <1>5 DEF ResetsEnd, Settled
<1> QED
  BY <1>1, <1>2, <1>3, <1>4, <1>6 DEF OpenInv

(* The conjunction above holds in every reachable state. *)
THEOREM OpenInvariant == Spec => []OpenInv
  BY InitOpenInv, NextOpenInv, PTL DEF Spec

(* The only creator gets a mapping, a pool and buckets, and keeps them.     *)
THEOREM OpenCreatorNeverCrashes == Spec => []CreatorNeverCrashes
<1>1. OpenInv => CreatorNeverCrashes
  BY DEF OpenInv, OneCreator, AtMostOneCreator, CreatorNeverCrashes, Creators
<1> QED
  BY <1>1, OpenInvariant, PTL

(* Nobody is refused after another process was let in: the magic number    *)
(* stays.                                                                  *)
THEOREM OpenLetInForAll == Spec => LetInForAll
<1>1. ASSUME OpenInv, Next, NEW p \in Procs, NEW q \in Procs,
             pc[p] = "check_magic", pc'[p] = "exit"
      PROVE  pc[q] \notin {"ready", "put"}
  <2>1. PICK r \in Procs : ProcStep(r)
    BY <1>1 DEF Next, ProcStep
  <2>2. r = p /\ ~info.magic
    BY <1>1, <2>1 DEF ProcStep, touchdb_new, access_dir, mkdir, access_info, open_info,
                      mmap_info,
                check_magic, load, write_magic, memset_pool_list, name_pool, open_data, mmap_data,
                open_data_named, open_data_nameless, touchdb_pool_init, map_malloc,
                map_malloc_refused, map_malloc_dies, map_malloc_served, map_clear,
                put_crashes, put, kill,
                ReadStep, InfoStep, get_shm_open, get_shm_mmap, Step, OpenInv, TypeOK
  <2> QED
    BY <1>1, <2>2 DEF OpenInv, Files, HasArray, In
<1>2. OpenInv /\ [Next]_vars =>
        [\A p, q \in Procs :
           pc[p] = "check_magic" /\ pc'[p] = "exit" => pc[q] \notin {"ready", "put"}]_vars
  BY <1>1
<1> QED
  BY <1>2, OpenInvariant, PTL DEF Spec, LetInForAll

(* The only creator leaves a directory that any process can open later.    *)
THEOREM OpenCreatedIsUsable == Spec => []CreatedIsUsable
<1>1. OpenInv => CreatedIsUsable
  BY DEF OpenInv, TypeOK, Info, Files, OneCreator, AtMostOneCreator, CreatedIsUsable,
         Creators,
         HasArray, In, Resetting, NIL
<1> QED
  BY <1>1, OpenInvariant, PTL

(* Such a creator is not stopped by a missing mapping: it has one, or will   *)
(* find the name it needs for it, or has yet to write the name.            *)
OnTheWay(c) ==
  \/ pc[c] \in {"open_info", "mmap_info", "magic", "memset", "name", "mmap_data", "crashed"} \cup HasArray
  \/ pc[c] = "open_data" /\ info.named
  \/ pc[c] \in {"pool_init", "map_malloc"} /\ mapped[c]

(* Whoever takes the name from a creator on its way is on its way itself;    *)
(* and before there is a creator somebody is about to become one.          *)
SomebodyGoesOn ==
  kills = 0 =>
    /\ Creators # {} => \E c \in Creators : OnTheWay(c)
    /\ Creators = {} =>
         /\ file["info"] = "absent" /\ \A p \in Procs : found[p] = "unknown"
         /\ (\E p \in Procs : pc[p] # "access_dir") =>
              \/ \E q \in Procs : pc[q] = "access_info"
              \/ ~dir /\ \E q \in Procs : pc[q] = "mkdir"

(* A step of an opening process leaves somebody on the way. *)
LEMMA SomebodyGoesOnStep ==
  ASSUME OpenInv, SomebodyGoesOn, NEW p \in Procs, ProcStep(p)
  PROVE  SomebodyGoesOn'
<1> USE OpenAssumption DEF Info, Before, Building, Resetting, In, HasArray, Locations,
                           Step, shared, local, OpenInv, TypeOK, Control, Ended, Creators,
                           OnTheWay, SomebodyGoesOn
<1>1. CASE \/ access_dir(p) \/ mkdir(p) \/ check_magic(p) \/ load(p) \/ put_crashes(p)
           \/ open_data_nameless(p) \/ map_malloc_dies(p)
  BY <1>1 DEF access_dir, mkdir, check_magic, load, put_crashes, open_data_nameless,
              map_malloc_dies, ReadStep
<1>2. CASE access_info(p)
  BY <1>2 DEF access_info
<1>3. CASE open_info(p) \/ open_data_named(p)
  <2>1. /\ UNCHANGED <<info, found, mapped, kills>> /\ Creators' = Creators
        /\ \A q \in Procs : q # p => pc'[q] = pc[q]
    BY <1>3 DEF open_info, open_data_named, get_shm_open
  <2>2. kills = 0 => Creators # {}
    BY <1>3 DEF open_info, open_data_named, get_shm_open
  <2>3. ASSUME NEW c \in Creators, OnTheWay(c) PROVE OnTheWay(c)'
    BY <1>3, <2>1, <2>3 DEF open_info, open_data_named, get_shm_open
  <2> QED
    BY <2>1, <2>2, <2>3, Zenon DEF SomebodyGoesOn
<1>4. CASE mmap_info(p) \/ mmap_data(p)
  <2>1. /\ UNCHANGED <<info, found, kills>> /\ Creators' = Creators
        /\ \A q \in Procs : q # p => pc'[q] = pc[q] /\ mapped'[q] = mapped[q]
    BY <1>4 DEF mmap_info, mmap_data, get_shm_mmap
  <2>2. kills = 0 => Creators # {}
    BY <1>4 DEF mmap_info, mmap_data, get_shm_mmap
  <2>3. ASSUME NEW c \in Creators, OnTheWay(c) PROVE OnTheWay(c)'
    <3>1. CASE c # p
      BY <2>1, <2>3, <3>1
    <3>2. CASE c = p /\ mmap_info(p)
      BY <3>2 DEF mmap_info, get_shm_mmap
    <3>3. CASE c = p /\ mmap_data(p)
      BY <3>3 DEF mmap_data, get_shm_mmap
    <3> QED
      BY <1>4, <3>1, <3>2, <3>3
  <2> QED
    BY <2>1, <2>2, <2>3, Zenon DEF SomebodyGoesOn
<1>5. CASE write_magic(p) \/ memset_pool_list(p) \/ name_pool(p) \/ touchdb_pool_init(p)
  <2>1. p \in Creators /\ Creators' = Creators /\ kills' = kills /\ mapped' = mapped
    BY <1>5 DEF write_magic, memset_pool_list, name_pool, touchdb_pool_init, InfoStep
  <2>2. CASE write_magic(p) \/ memset_pool_list(p) \/ name_pool(p)
    <3>1. OnTheWay(p)'
      BY <2>2 DEF write_magic, memset_pool_list, name_pool, InfoStep
    <3> QED
      BY <2>1, <3>1, Zenon DEF SomebodyGoesOn
  <2>3. CASE touchdb_pool_init(p)
    <3>1. ASSUME NEW c \in Creators, OnTheWay(c) PROVE OnTheWay(c)'
      BY <2>3, <3>1 DEF touchdb_pool_init, InfoStep
    <3> QED
      BY <2>1, <3>1, Zenon DEF SomebodyGoesOn
  <2> QED
    BY <1>5, <2>2, <2>3
<1>6. CASE map_malloc_served(p) \/ map_malloc_refused(p)
  BY <1>6 DEF map_malloc_served, map_malloc_refused
<1>7. CASE map_clear(p)
  BY <1>7 DEF map_clear
<1>8. CASE put(p)
  BY <1>8 DEF put
<1>9. CASE kill(p)
  BY <1>9 DEF kill
<1> QED
  BY <1>1, <1>2, <1>3, <1>4, <1>5, <1>6, <1>7, <1>8, <1>9
     DEF ProcStep, touchdb_new, open_data, map_malloc

(* Unless a process is killed, not everybody who opens a new directory is   *)
(* sent away or dies in it.                                                *)
THEOREM OpenSomebodyGetsIn == Spec => []SomebodyGetsIn
<1>1. Init => SomebodyGoesOn
  BY DEF Init, SomebodyGoesOn, Creators
<1>2. SomebodyGoesOn /\ UNCHANGED vars => SomebodyGoesOn'
  <2> SUFFICES ASSUME UNCHANGED vars, SomebodyGoesOn PROVE SomebodyGoesOn'
    OBVIOUS
  <2>1. UNCHANGED <<dir, file, info, pc, found, mapped, kills>> /\ Creators' = Creators
    BY DEF vars, Creators
  <2>2. \A c : OnTheWay(c)' <=> OnTheWay(c)
    BY <2>1, Zenon DEF OnTheWay
  <2> QED
    BY <2>1, <2>2, Zenon DEF SomebodyGoesOn
<1>3. OpenInv /\ SomebodyGoesOn /\ [Next]_vars => SomebodyGoesOn'
  BY <1>2, SomebodyGoesOnStep, Zenon DEF Next, ProcStep
<1>4. OpenInv /\ SomebodyGoesOn => SomebodyGetsIn
  BY DEF OpenInv, SomebodyGoesOn, SomebodyGetsIn, OnTheWay, Ended, Creators, HasArray, In
<1> QED
  BY <1>1, <1>3, <1>4, OpenInvariant, PTL DEF Spec

(* A value put while nobody was initialising stays readable, for any       *)
(* number of processes: with one creator whatever is killed, with several  *)
(* when nobody is stopped inside touchdb_new.                              *)
THEOREM OpenPutsStay == Spec => []PutsStay
<1>1. ASSUME OpenInv, Cardinality(Creators) <= 1 PROVE AtMostOneCreator
  <2>1. IsFiniteSet(Creators)
    BY OpenAssumption, FS_Subset DEF Creators
  <2>2. ASSUME NEW c \in Creators, NEW d \in Creators, c # d PROVE FALSE
    <3>1. IsFiniteSet(Creators \ {c}) /\ Cardinality(Creators \ {c}) = Cardinality(Creators) - 1
      BY <2>1, FS_RemoveElement
    <3>2. Cardinality(Creators \ {c}) = 0
      BY <1>1, <2>1, <3>1, FS_CardinalityType
    <3> QED
      BY <2>2, <3>1, <3>2, FS_EmptySet
  <2> QED
    BY <2>2 DEF AtMostOneCreator
<1>2. ASSUME OpenInv, Undisturbed \/ AtMostOneCreator, NEW p \in DOMAIN putAt, ~putAt[p]
      PROVE  p \in Readable
  <2>1. Linked(p) /\ HasBuckets /\ \A q \in Procs : ~Initialising(q)
    BY <1>2 DEF OpenInv, Settled
  <2>2. val[info.bulk_list] = NoVal
    BY <1>2, <2>1 DEF OpenInv, OneCreator, ResetsEnd, Initialising, Creators, Ended,
                      Resetting, HasBuckets
  <2> QED
    BY <2>1, <2>2 DEF Linked, Readable
<1>3. OpenInv => PutsStay
  BY <1>1, <1>2 DEF PutsStay
<1> QED
  BY <1>3, OpenInvariant, PTL
=============================================================================
