# TLA+ specifications of touchdb

touchdb is a key-value store that lives in files mapped into memory with
`MAP_SHARED`, so that several processes can use it and its contents outlive
them. This directory holds TLA+ models of its C code (`src/src/*.c`), the TLC
configurations that check them and proofs checked by TLAPS. The modules are
translated from the code; where a comment or a test says something else, the
models follow the code and the difference is a finding (below).

Run a check with `tlc -config X.cfg M`, a proof with `tlapm M.tla`.
`PROJECT.json` lists the runs, which lines of the source every definition stands
for, and the plausible bug that each property detects.

## 1. The system

| Component | Source | State | Operations |
|---|---|---|---|
| Pool allocator | `touchdb_pool.c` | `cur_offset`; per size class a doubly linked free list (`header_offset`, `tail_offset`, `size`); block headers with `prev`, `next`, `idx`, all in the mapped files | `touchdb_pool_init`, `touchdb_pool_malloc`, `touchdb_pool_free` |
| touchdb_malloc/free | `touchdb.c:231-287` | `pool_list`, addresses `(pool_idx, offset)` | `touchdb_malloc`, `touchdb_free` |
| Chain | `touchdb_chain.c` | `header`, `tail`, `size`; nodes with `prev`, `next`, `val` in blocks of the pool | pushes, pulls, insert, delete, search, iteration, destroy |
| Map | `touchdb_map.c` | buckets (`header`, `tail`, `size`), entries, `map_size` | `touchdb_map_put`, `touchdb_map_put2`, gets, iteration |
| Strings, values | `touchdb_str.c`, `touchdb_common.c` | `touchdb_val_t` (type, address), `touchdb_str_t` (length, address) | new, data, destroy, compare |
| Data operations | `touchdb.c:289-438` | none of their own | put, get, put_str, get_str, list_push, list_pop, list_node_idx, sizes |
| Opening | `touchdb.c:37-213`, `touchdb_map_init`, `touchdb_pool_init` | the directory; the info file with the magic number, the list of pools and the bucket address; the data file | `touchdb_new`, `get_shm`, `make_sure_dir` |
| Readers and killed writers | the repository's README: "multiple processes can read while a process is writing to it" | the files | `touchdb_get_str`, `touchdb_list_node_idx`, `touchdb_iter` in other processes, without a lock |
| Red-black tree | `touchdb_rbtree.c` | nodes with colours | put, get, rotations; not used by `touchdb.c` |
| Worker | `touchdb_worker.c` | none | an interactive client of the data operations |
| Unfinished or empty | `touchdb_map2.c`, `touchdb_array.c`, `touchdb_cli.c`, `touchdb_btree.c`, `touchdb_cow_map.c` | | |

**Interaction.** Everything the upper parts keep is a block of the pool. A
block is freed and handed out again without being cleared, and nothing but the
code's own discipline says who owns it: the chain, the map and the strings share
state through recycled blocks. A value passed to a put is copied
(`touchdb_val_t` by `memcpy`), the string it points to is not.

**What is hard.** There is no concurrency control and no log. The hard
behaviours are: long sequences of allocations and frees that must keep lists,
counters and blocks in agreement; stale links and stale values that refer to
blocks that have been recycled; the order of single writes when a process is
killed, and when another process reads meanwhile; processes that create one
directory at the same time; sizes at the edge of a class or of the pool; and the
retry loop of `touchdb_malloc`. `PROJECT.json` lists each under "hazards" at its
line, with the properties that cover it.

**What makes each component correct.**

- Pool: blocks never overlap; a free list holds exactly the free blocks of its
  class, once; a block is large enough; a caller never gets a held block; a kill
  loses little and never makes two owners.
- `touchdb_malloc`: it returns; the address names the right pool.
- Chain: it is a sequence of values; iteration ends; a call touches only nodes
  the chain owns.
- Map, strings, data operations: they are a key-value store whose values are
  texts and lists of texts; a call for one key does not change another; each
  block has one owner; nothing is freed twice; nothing leaks.
- Opening: what a creator leaves is complete; what was put stays readable however
  other processes load the directory; nobody is turned away from, or hangs on, a
  directory that somebody uses; somebody gets in.
- Readers and killed writers: what a call answers was right at some moment of the call; an
  iteration passes every key once; a call ends; the files hold a state of the store
  between any two writes; a kill damages no more than the key whose call it cuts short,
  as long as the pool does not run into a free list that the kill has torn.

## 2. The modules

| Module | Models | Abstract specification |
|---|---|---|
| `TouchdbPool` | `touchdb_pool.c`, a call at a time | `Allocator`: disjoint extents |
| `TouchdbPoolProofs` | theorems about `TouchdbPool` | |
| `TouchdbPoolCrash` | the same code a write at a time, with kills | `Allocator`, also across kills |
| `TouchdbAlloc` | the loop of `touchdb_malloc` over the pool; extends `TouchdbPool` | `Allocator`, through the pool |
| `TouchdbAllocProofs` | theorems about `TouchdbAlloc`, from those about the pool | |
| `TouchdbChain` | `touchdb_chain.c` over recycled blocks | `AbsList`: a sequence |
| `TouchdbChainProofs` | theorems about `TouchdbChain` | |
| `Touchdb` | map, strings, values and data operations together, over the pool's size classes | `KvStore` |
| `TouchdbProofs` | theorems about `Touchdb` | |
| `TouchdbShm` | one writer a write at a time, killed and succeeded by another; readers a read at a time | `KvStore`, at every write |
| `TouchdbShmProofs` | theorems about the writer of `TouchdbShm`, until a call is killed | |
| `TouchdbShmReaderProofs` | theorems about the readers of `TouchdbShm` | |
| `TouchdbOpen` | `touchdb_new` in several processes, with kills | |
| `TouchdbOpenProofs` | theorems about `TouchdbOpen` | |
| `MC...` | the constants and symmetry of the runs | |

**TouchdbPool.** A block is the offset of its header. `hdr` is the memory of
the headers, kept for freed blocks as well; `live` is the set of blocks held by
callers (the program does not record it) with the size asked for. The five ways
through `touchdb_pool_malloc` are five disjuncts in the order of the source. The
check `idx > free_blk_list_count` is as it stands in the code: an index equal to
the count, and -1 for a request of 0 bytes, goes through, `wild` is set and the
model stops, because what follows depends on neighbouring memory.
`ptr_of` and `ptr_offset_of` convert between offsets and this process's addresses
and are the identity on offsets. A freed block is one that was held: freeing
anything else is the caller's fault and is looked for in the callers' models.

**TouchdbPoolCrash.** The same calls as lists of writes in the order of
the source (`list->header_offset = list->tail_offset = x` assigns the tail
first). A kill is a kill of the process, not of the machine: the files are
mapped `MAP_SHARED`, so every write made before it is seen by the next process,
and `touchdb_pool_init` does not touch a pool whose `is_inited` is set. Writes
are taken in program order. A list whose `size` is not 0 but whose offset is
NIL makes the code use the start of the pool as a block; the model stops there.

**TouchdbAlloc.** A round of the loop is an action, in three ways: the block is
found, NULL comes back and the next round begins, or the round left the free
lists and the model stops. `pool->shm_file` is an array, so the loop condition is
always true, and the body advances `p`, not `pool`. The address gets the pool index
`i - 1`, a count of refused rounds; that this is the block's pool (`AddrNamesItsPool`) rests on
nobody else changing the pool between two rounds, which `TouchdbOpen` shows going wrong.
The code that would create a second pool is unreachable and is not modelled. `i` counts rounds and is an
`int`; MAX_ROUNDS stands for where it wraps around.

**TouchdbChain.** `touchdb_malloc` is any free block. Freed nodes keep their
links, so that stale links are followed just as in C; `fault` is set by a NULL
dereference, by a write to or a second free of a node not owned. After
`pull_head` the new header's `prev` is stale, after `pull_tail` the new tail's
`next` is, so not every mixture of calls is sound; `discipline` picks one of the
three uses under which the chain should work: `push_tail`/`pull_head`
(`touchdb_list_push` and `touchdb_list_pop`), `push_tail`/`pull_tail`, and
`push_tail`/`insert`/`del` (as `test/chain_test.c` does, with `insert` in place of
`insert_idx`). `AbsList` has the same three kinds, each with its own operations: a
queue gives back the value pushed first, a stack the one pushed last. `touchdb_val_cmp` has no `return` for strings and chains, so
`touchdb_chain_node` may find any node or none. `touchdb_chain_del` returns the
node without freeing it, so only the queue promises that no node leaks.

**Touchdb.** `db` is the contents of the files: blocks by size class,
each with what was last written to it, a FIFO free list per class (the
behaviour `TouchdbPool` shows: take the header, append at the tail), and the
buckets. `touchdb_val_t` and `touchdb_str_t` have one layout (an int and an
address) and one class, so a freed string read as a value yields what it would
yield in C; a text block read for something else gives `Garbage`. Keys and texts
are members of small sets. The aliasing in the code is kept: `old_val` in
`touchdb_map_put2` is the address of the field just overwritten, so the *new*
value is destroyed, and the same in `touchdb_map_put`. Calls are atomic, which
is the code for a single process. `touchdb_iter` passes the entries bucket by bucket
and `touchdb_size` is the map's own count; `MapSound` relates the two. `view` records what a client can read and
`rewritten` whether a key was ever put twice; neither exists in the code.

Conventions of the clients, taken from `touchdb_worker.c`: a value is made
freshly for each `touchdb_list_push` and its block is freed afterwards; a popped
value is read at once. `popped` is the set of the blocks of popped values, which
no call ever frees. Memory is unbounded in `Touchdb`: what a
full pool does is `TouchdbAlloc`'s subject. A look-up in an empty bucket
follows an address whose `pool_idx` is -1 and whose offset is 0, reads an entry
out of the first bytes of the pool, and finds a hash that no key of the
model has; it is modelled as finding nothing.

**TouchdbShm.** What `Touchdb` does in one step is a list of writes here, in the
order of the source; a call of the writer computes them (nobody else
writes) and `Write` makes them one by one. Each block and each field that a reader
looks at, or that decides what a later call does, is kept: the buckets' and chains'
`header`, `tail` and `size`, an entry's `next`, `hash`, `key` and `val`,
a node's `next` and `val`, strings and the two halves of a text. A read of
a field that the block does not have gives `WILD`, an address made of other bytes. The
free lists, `map_size` and the prev links are the writer's own; they change with
the call. `view` is what the fields add up to for a client, kept like `Touchdb`'s.

The writer may stop after any write for good: killed, or in the endless
loop of `touchdb_malloc`, which a pop enters *after* it has unlinked its element. After
a `kill` another writer goes on with the files as they are: what was not written never
is, and blocks that were allocated and not linked are lost. `lost` remembers, for each key whose call was cut
short, what it held then. A push to a chain whose `size` is not 0 and whose tail is
NULL writes through NULL: `crash`.

A call's blocks are computed when it begins; nobody else allocates or frees, so they are those it
gets when it asks. *When* it asks matters to a kill, and is kept in `asks`: a block is asked
for right before the first write that names it. A kill comes before, after or between those
requests, or inside one, in the unlink of `touchdb_pool_malloc` (`kill_in_unlink`). There
are two cuts that leave something: after `header_offset` the list counts one block too many,
after `tail_offset = NIL` its only block is not its tail. `torn` remembers them.
The successor goes on with such a list. When it asks for the block that is counted but
not there, or frees a block behind the tail that is not there, the code uses the start of the pool, which is the
bucket array, as a block (`use_nil_offset`): `ruined` is set and the model stops, as `TouchdbPoolCrash` does.

A reader is a state machine with one read of the files a step. `seen` collects the
right answers since its call began (for `touchdb_iter`, the keys that it must pass) and
`disturbed` the readers whose own list was popped meanwhile: a pop frees the string and
the node such a reader may be at, and the code makes no promise about it (see the
observations). When a call ends only the verdict on its answer is kept, so that states
which differ by finished calls are one. Keys are put once; `Touchdb` has the rewritten ones.

**TouchdbOpen.** Each system call of `touchdb_new` and each group of writes to the
info file is a step of its process: `access` and `mkdir` of the directory, `access`
of the info file, `open` and `mmap` of both files (with the `write` that extends them
between the two), the test of the magic number, the magic number itself, the `memset` of
the pools, the pool's name, `touchdb_pool_init`, the bucket array and its clearing.
What is decided once is remembered: `found` is the answer of `access`, whatever other
processes do afterwards. What is read again from the shared files is read again in the model:
the name of the data file is, so that a creator whose name another one has cleared opens the
directory instead, gets NULL from `get_shm`, resets the pool all the same and dies in
`touchdb_map_init` (`open_data_nameless`, `map_malloc_dies`). A creator that is refused its
bucket array since another one has cleared the pool's size (`map_malloc_refused`) goes round the loop
of `touchdb_malloc`; when it is served, the address gets the number of the round for its
pool, and `touchdb_ptr_of` gives NULL for it ever after (`LOST`). One refused round stands for
all, since any number above 0 names no pool.

A put stands for all calls made later; it carves an entry,
links it where the info file says that the buckets are, and overwrites whatever was at
its offset. So an array that a second creator's reset has given away, and an entry
under a newly carved array, show up as values that cannot be read. Without a mapping, without
an array that has an address, and while the pool has no size (`HasBuckets`), `get_bulk` works on NULL
or on the start of the pool, and the process crashes, whether it created the files or not (`put_crashes`).

## 3. The runs

| Run | Shows | Bounds |
|---|---|---|
| `malloc` (`MCTouchdbAlloc.cfg`) | the pool under `touchdb_malloc` and `touchdb_free`: `TypeOK`, `BlocksApart`, `FreeListsExact`, `Fits`, `NeverHandsOutHeld`, the pool implements `Allocator` (`AllocatesDisjoint`), `AddrNamesItsPool`, and `ServedIfRoom` (liveness) | 2 classes, 113 bytes, filled exactly by two blocks of each class and with room for four of the smaller: lists of up to four (head, two inner, tail), both classes mixed, exhaustion, the exact fit; sizes 1, 8 (ends of class 0), 9, 17 (the mistaken bound), 25 (too large); MAX_ROUNDS 3 |
| `pool_bounds` | finding: `InBounds` is violated by size 17 | 2 classes, 120 bytes |
| `malloc_returns` | finding: `Served` is violated, a real cycle of the loop | 97 bytes, sizes 8 and 9 |
| `pool_crash` (`MCTouchdbPoolCrash.cfg`) | `ListsSurviveCrash`, `HandsOutFree`, `LossBounded`, and `Allocator` across kills (`AllocatesAcrossKills`) | 97 bytes, 2 classes, 2 kills at any write: a second kill meets what the first one left, in the same or in the other list; four blocks of class 0, since the shortest way to a block with two owners needs three freed and one held |
| `chain` (`MCTouchdbChain.cfg`) | `ForwardSound`, `BackwardSound`, `NoFault`, `NoNodeLeaks`, and each discipline implements `AbsList` | 4 blocks, 2 values, unbounded calls: a stale link can point at a block that is another node by now, with nodes on both sides |
| `chain_test`, `chain_push_head` | findings: `insert_idx` dereferences NULL; two `push_head`s make a circle | the same |
| `db_mixed` (`DbMixed.cfg`) | `NoDoubleFree`, `MapSound`, `OwnersApart`, `ReadYourWrite`, `OnlyPopsLeak`, and the keys not rewritten implement `KvStore` (`ImplementsStableStore`) | 5 calls, 3 keys in one bucket, two with one hash, 2 texts; k1 is used with every call, k2 with strings, k3 with lists |
| `db_rewrite` | finding: with a rewritten key the whole is no `KvStore` | 4 calls |
| `open` (`MCTouchdbOpen.cfg`) | `PutsStay`, `CreatedIsUsable`, `CreatorNeverCrashes`, `SomebodyGetsIn`, `LetInForAll`, and `OpensEnd` (liveness) | 3 processes: two creators that race and one that comes before, between or after them; 1 kill |
| `readers` (`Readers.cfg`) | `ReadsCurrent`, `IteratesAll`, `ReadsEnd` (liveness); with and without a kill, the files implement `KvStore` at every write (`ImplementsStore`), no write changes another key (`OnlyOwnKey`) and no key but the killed call's makes a call crash (`OneKeyPerKill`), until a torn list runs empty; without a kill no call writes through NULL (`NoNullWrite`) | 3 calls of the writer and a killed one, 2 lists and a string in one bucket of two, the string and a list with one hash; places 1 and 2 of a list; 1 reader, or 1 kill |
| `readers_recycled` | finding: `ReadsCurrent` is violated when a text is as long as an entry | the same, texts in lists take blocks of entries |

In `db_mixed`, five calls cover: a put, its replacement (which frees the blocks of the
new value), puts and pushes of the other keys that take those blocks,
and a further replacement or pop. In `readers`, three calls cover: a list, a pop
that frees node, string and text, and a put or push that takes them, each with
the reader at any block; a further element to walk past; two lists, of which one is
popped while the other is read. One reader is enough: readers write nothing, so
that no reader notices another. A behaviour has a reader or a kill, since a reader cannot
tell a dead writer from one that does not move; what the *successor* of a killed writer
writes is not read concurrently in the model. With a kill, four calls cover: a
list, its pop or push cut short at any write, a call of another key that takes
blocks freed by then, and a call for the damaged list that uses its stale links or sizes. A
pop and a push are also enough for a kill to tear a free list, and for a later call to run it empty.
The complete run has 698,220 distinct states and takes about two minutes.

The `.cfg` files say `CHECK_DEADLOCK FALSE` where the model may stop: the pool at
an access out of bounds or through NIL (`malloc` stops inside the call then), the
chain at a fault, when it was destroyed or no block is free, the database and the
writer of `TouchdbShm` after MAX_OPS calls or at the start of the pool, the processes of `open` after their put. `malloc_returns`
checks for deadlock.

**Symmetry.** Chain nodes are exchangeable, since `touchdb_malloc` may
return any of them and no call orders addresses; texts are, since they are copied
but never compared (keys are). No liveness property is checked under symmetry. `readers`, which
checks one, makes use of the same fact without it: the action constraint `FirstTextIsX` leaves out the
behaviours whose first text is the other one, each of which is one of the rest with the texts
exchanged.

**Fairness.** Weak fairness only, and only of code that is in the middle of a call:
`malloc_round` (a process inside `touchdb_malloc` keeps executing its loop),
`touchdb_new(p)` for each process (it runs until it returns, exits or is killed), and
`read(r)` for each reader. A creator that waits in `touchdb_malloc` for a pool that
another one has cleared is not enabled there after its first round; fairness of the *other* process
lets it go on. No fairness is assumed of callers, of kills or of the writer of `TouchdbShm`:
nothing says that a client calls again, or frees, or that the writer comes back.

### Findings

1. `touchdb_pool.c:70`: sizes of 0, and of 1 to 8 above the largest block, index
   the free lists out of bounds (`pool_bounds`).
2. `touchdb.c:251`: a request the first pool cannot serve never returns
   (`malloc_returns`); a size no class can serve hangs the same way.
3. `touchdb_chain.c:200`: `insert_idx` uses a value's address as a node's
   (`chain_test`); inserting after the tail dereferences NULL as well.
4. `touchdb_chain.c:116`: `push_head` links `next` instead of `prev`
   (`chain_push_head`).
5. `touchdb_map.c:217`: replacing a value destroys the new one (`db_rewrite`), while
   the old one leaks. `ReadYourWrite` shows why a simple test does not see it:
   the new value can be read until another call takes its blocks.
6. `touchdb_map.c:243`: an entry is linked into its bucket before its `next` is
   cleared; in a recycled block it still holds other bytes, and a reader in another
   process follows them (`readers_recycled`). With shorter texts no entry
   gets a recycled block, which is why `readers` passes.

Observations without a statement of the repository that they violate:

- A kill inside the unlink of `touchdb_pool_malloc` leaves a list that counts one
  block too many (`torn` in `TouchdbPoolCrash`), and the code ends up using the
  start of the pool as a block. Decrementing `size` first would turn this into the
  loss of one block. In `TouchdbShm` the start of the pool is the bucket array, so this is
the one way in which a single kill reaches the keys of other calls: without `~ruined`,
`OneKeyPerKill` would claim what nothing in the code ensures.
- After one kill no block has two owners. After two it may: a kill in
  `touchdb_pool_free` behind `tail->next` leaves a link to a block the list does not
  count; if the tail is then unlinked by a call that is killed before `size--`, that
  block is the header, and its own old link may lead to a held block. `Intact`
  in `TouchdbPoolCrash` excludes just this: without it `HandsOutFree` is violated.
- Every pop leaks the block of the value it returns, whose address the caller
  never learns (`OnlyPopsLeak`), and that value refers to a string and a text that
  the pop has freed (`touchdb_chain.c:154`): the next put overwrites the text. A reader
  that walks the list while it is popped may meet the same; `ReadsCurrent` leaves
  it out (`disturbed`).
- A process that loads while another one still creates the files gets no pool or
  no map and crashes at its first put (`put_crashes`), and so do all later ones when
  the creator was killed between the magic number and the bucket array. Killed before
  the magic number, it leaves a directory that every later process refuses.
- A push killed before the count is raised, or a pop killed before it is lowered, leaves
  a list whose `size` is wrong for good. When it is too large and the list is empty, every
  push to it crashes (`crash`); when it is 0 with an element in it, the next push drops
  the element. A key put last into an empty bucket and killed before the count can be read by
  `touchdb_get_str` but is not passed by `touchdb_iter`, and the next put into that bucket
  removes it. `OneKeyPerKill`, `OnlyOwnKey` and `ImplementsStore` say that it ends there: other
  keys keep their values, and no call for them crashes.
- With two kills it does not end there. A pop killed before the count and a push killed
  between `tail->next` and `chain->tail` in one list, followed by a pop, leave a tail that
  is freed; when another list has taken the block, a push to the first list appears in the
  other one. With MAX_KILLS = 2, TLC, led through these calls,
  finds `OnlyOwnKey` violated.
- Of two processes that both create the directory, the one whose `mkdir` fails exits.
- Two creators lose what was put between their resets; `PutsStay` says what is kept. They
  can also stop each other, without a kill. A put between the other one's `memset` and its
  `touchdb_pool_init` dereferences NULL (`put_crashes`). One that asks for its bucket array then gets
  it under a pool index that names no pool, and every later put crashes. One that looks for the pool's
  name then maps nothing, yet resets `cur_offset` before it dies; the next put of the other
  creator overwrites its own bucket array. `SomebodyGetsIn` says what is left: `touchdb_new`
  returns to one of them.

## 4. The proofs

The theorems about seven modules are in eight modules of proofs; each takes only the named assumptions about the constants,
and shows for every value of them what a run shows on a small instance. Five theorems about `TouchdbShm`
take one more assumption about a constant, which is discussed there.

### `TouchdbPoolProofs`

For every pool size, number of classes, header size and set of sizes
(`PoolAssumption`: the first three are positive, sizes are naturals):

- `PoolInvariant`: `PoolInv == TypeOK /\ BlocksApart /\ FreeListsExact /\ Fits` is
  inductive, hence holds always; `PoolTypeCorrect`, `PoolBlocksApart`,
  `PoolFreeListsExact`, `PoolFits` are its parts.
- `PoolInBounds`: the only sizes that reach an index out of bounds are 0 and those
  between 1 and 8 bytes above the largest block.
- `PoolNeverHandsOutHeld`: an allocation never returns a held block.
- `PoolAllocatesDisjoint`: the pool implements `Allocator`: every answer is NULL or a
  new extent inside the pool, with room for that request, apart from all that are held.

**Why the conjunction.** None of the four is inductive alone. That a recycled
block is not held needs the list to contain only free blocks; that the list still does
after an unlink or an append needs header, tail, both links and `size` to
agree on *one* sequence of distinct blocks, with every free block in it; that a
carved block overlaps nothing needs every block to end at or before `cur_offset`; that a
recycled block fits needs a size to determine its class. `FreeListsExact` states
the sequence as an existential, so no recursion along links is needed: the
proof picks the witness before the step, and gives the witness after it
(`s` without its first element for a recycled block, `s` followed by `b` for a freed
one, `s` itself for the other classes). One lemma treats each action: `CarvePoolInv`,
`RecyclePoolInv`, `FreePoolInv`. `IdxFits` is the arithmetic of `free_list_idx`, and
`BlockBounds` places a block in the pool.

### `TouchdbPoolCrashProofs`

For the same constants and any number of kills (`MAX_CRASHES`), all four properties of the
run `pool_crash`: `CrashListsSurvive`, `CrashHandsOutFree`,
`CrashLossBounded` and `CrashAllocates`, the last one a refinement: the writes of one
call, with kills between them, implement `Allocator` for everybody who deals with
lists that are not torn, or torn by the only kill so far.

**The invariant.** `FreeListsExact` is false here: a kill inside `touchdb_pool_free`
leaves a link behind the tail, a kill inside an unlink a size that is too large, and the
next kill finds the list like that. `CrashInv` says what is left of it, in five parts:

- `MemoryOK`: as in the pool, but the header at `cur_offset` may exist already;
- `LinksOK`: links, headers and tails stay in their class and below `cur_offset`;
- `KillsOK`: a pool that was never killed has no torn list, and nothing goes wild;
- `ListsOK`: the blocks from the header on form a `Line`, a path of *m* different
  unheld blocks through the tail. Only the path is existential; *m* is at least
  `size` if no unlink was killed there, it may be larger since a freed block whose
  `size++` never happened stays linked, and it ends in NIL as long as nothing else was
  killed. A list of size 0 may hold anything: the code does not read its links;
- `CallOK`: what the call in progress has done to its own list, one predicate per stage
  (`PushBeforeLink`, `PopBeforeSize`, ...). Each stage has a lemma for the write
  that ends it (`WritePushBeforeLink`, ...), and `CrashPopping` and `CrashPushing` show
  that a kill in any stage leaves a `Line`.

A torn list keeps its `Line` only while that kill is the only one (`Intact`): with a second
one a link left behind the tail may lead out of the free blocks.
`LossInv` bounds the loss: a block between `begin_free` and `size++` is the one that is
neither held nor counted, and a kill that tears a list takes out of the account both its
blocks and its count, which are no fewer (`PoppingCount`, by an injection from the path).

### `TouchdbAllocProofs`

- `AllocUsesPool`: every step of the loop is a step of the pool or none, so that all
  theorems above hold under `touchdb_malloc`; `AllocAllocatesDisjoint` is one of them.
- `AllocInvariant`, `AllocAddrNamesItsPool`: the address gets the pool index `i - 1`,
  though the block is always one of pool 0, and the two agree. The inductive part is
  `call # Idle /\ i # 1 => Refused(call)`: a second round is made only after the pool
  refused the request for want of a class or of room, nothing changes that while the
  loop runs, so a later round is never served. That is a statement about one process: it
  is false while another one resets the pool (`TouchdbOpen`).

### `TouchdbOpenProofs`

For every finite set of processes and number of kills (`OpenAssumption`):
`OpenPutsStay`, `OpenCreatedIsUsable`, `OpenCreatorNeverCrashes`, `OpenLetInForAll`
and `OpenSomebodyGetsIn`, from the inductive `OpenInv`. Its parts: `Control` (what a process knows by where it is),
`Files` (what is on disk then; none of it is undone), `Room` (each process carves at most
twice, so that the model's offsets suffice: the count of processes that carved bounds
`cur_offset`), `OneCreator` (a creator that is alone finds the name and the size it wrote itself, so
that it is never refused, never without a mapping, and the pool is not reset
once it has buckets), `ResetsEnd` (if nobody is stopped, by a kill or by a missing mapping, whoever
resets the pool is still busy and will replace the buckets, or the buckets are safe below
`cur_offset`) and `Settled` (a value put while nobody was initialising is linked from the buckets, and
nobody will ever initialise again, since the info file exists).

`OpenSomebodyGetsIn` has an invariant of its own, `SomebodyGoesOn`: some creator is always
`OnTheWay`, with a mapping, or with a name in the file to get one by, or still about to write
the name. Only the `memset` of another creator can take the name away, and that one is then
itself about to write it.

### `TouchdbChainProofs`

For every finite set of blocks and every set of values (`ChainAssumption`), in each of
the three disciplines: `ChainForwardSound`, `ChainBackwardSound`, `ChainNoFault`,
`ChainNoNodeLeaks`, `ChainTypeCorrect`, from the inductive `ChainInv`, and
`ChainImplementsList`: the chain implements `AbsList`. `ChainInv` says that some
sequence `s` of different allocated nodes is threaded by the links (`Threads`): always
backward from the tail, forward too unless the chain is a stack, with NIL in front of the
first node unless it is a queue, and with no allocated node outside `s` if it is one.
These exceptions are just the stale links. Each call has a lemma that gives the
sequence afterwards: `PushTail`, `PullHead`, `PullTail`, `Insert`, `Del`, `Destory`.

What an iteration visits is `Walk`, a recursive function. `WalkExists` shows that a
function satisfies its recursion and `WalkFollows` that step k of it is place k + 1 of
`s`: were it not, there would be a least length, or step, for which it is not
(`LeastElement`, from the well-foundedness of `<` on the naturals, since the library's
induction rules are out of reach). Hence the values of the chain are those of the nodes of `s` (`ContentsFollow`).
The lemma of a call also gives the values afterwards, and five lemmas about sequences say that
they are what `AbsList` computes: `AppendListed`, `FrontListed`, `TailListed`,
`InsertListed`, `RemoveListed`. So each call is the abstract step, and `ChainImplementsList`
follows. That a size never exceeds the number of blocks is `ListingSize`: `s` is an injection.

### `TouchdbProofs`

For any keys, texts, hash function, number of buckets, set of keys that may be rewritten
and number of calls (`DbAssumption`), all six properties of the run `db_mixed`, which has
three keys, two texts and five calls:

- `NothingFreedTwice`: no call frees a block that is not held;
- `MapStaysSound`: each bucket is walked in `size` steps, forward and backward, every entry
  is in the bucket of its hash and found by its key, and `touchdb_iter` passes as many
  entries as `touchdb_size` says;
- `OwnersStayApart`: the blocks of the map, of keys, chains, lists and pops are held and
  each is in one place, although replaced values are freed by mistake;
- `WritesAreRead`: a put is read back, also when it freed what it wrote;
- `PopsLeakOnly`: before a key is rewritten, every held block is reached from the table or
  is the value of a pop;
- `StableIsStore`: the keys that are never rewritten implement `KvStore`, whatever
  happens to the others. Put, push and pop change the value of their own key as `KvStore`
  says, and a pop answers with the head of the list, read out of blocks freed by
  the same call.

**The invariant.** `DbInv` (`DbInvariant`) says that the memory is `Sound` for *some*
tables, that `view` is what the blocks hold, and that the last put is read back. The tables
are what the code does not have: `own` gives every held block an owner (a role, a key,
and for a part of a value the block that points to it), `ent` the entry of each key, `es`
the keys in each bucket in the order of its links, `ns` the nodes of each key's chain.
`Sound` says that entry, key, string, text, chain and nodes are held and owned by their
key; that the links are those of the tables; that `map_size` adds up; that free lists hold
carved blocks, once, none of them held; and, until something was replaced, that
each held block is used or belongs to the running call (tag `TMP`) or to a client who popped
it (`POPPED`). Distinct owners need no further argument: a block has one value of
`own`. Of a text
under a rewritten key `Sound` says only which class its address is of: a put over it frees
the *new* value's blocks while the entry goes on naming them, so that they may be another
key's by then. A list stays whole even under a rewritten key, since what the put frees is
never the old value.

**The steps.** The first half follows the functions of the code from memory to memory.
`NewKeeps`, `FreeKeeps` and `SetKeeps` treat the pool and a write; `TmpNew`, `TmpFree` and
`TmpSet` the same for the blocks of the running call; `KeyFrame` and `KeyChange` are the frame rule:
a step that leaves the blocks of a key alone leaves its value alone, and the tables of
one key may be replaced while all others stay. Then come the structural changes, each with
the tables after it: an entry appended to its bucket (`BindNew`), a value assigned
(`Assign`), a node appended (`Push`) and unlinked (`Pull`). In the second half these are put
together to the calls in the order of the source (`PutStr`, `PutRaw`, `PutList`,
`PushNew`, `PushOld`, `Pop`), a case for a new key and one for a bound one, and the tables
are hidden again (`StepText`, `StepPush`, `StepPop`) before the actions use them. Every walk of the code is a
recursive function, whose values `StepsExist` and `SameSteps` give from the sequence
that the links thread: `GetEntry`, `NodeIdx`, `ValueIs`, `IterIs`, `TotalIs`. `OwnersApart`
counts blocks, and the proof counts them with the library's theorems about cardinality
(`Sizes`).

### `TouchdbShmProofs` and `TouchdbShmReaderProofs`

For any keys, texts, hash function, number of buckets, readers, calls of the writer and
kills (`ShmAssumption`), five of the six safety properties of the run `readers`, which has three
keys, two texts, one reader and three calls:

- `ReadersAnswerRight` (`ReadsCurrent`): what `touchdb_get_str` and `touchdb_list_node_idx`
  answer was right at some moment of the call, unless its own list was popped meanwhile;
- `IterationIsComplete` (`IteratesAll`): `touchdb_iter` passes every key that was put before
  it began, none twice and none that is not there;
- `ShmImplementsStore` (`ImplementsStore`): seen between any two writes, each call happens
  at one of its writes, and the files are a `KvStore`;
- `WritesOnlyOwnKey` (`OnlyOwnKey`): no write changes what is read under another key;
- `ShmNoNullWrite` (`NoNullWrite`): until a call is killed, none writes through the NULL tail of
  a chain, or to any other NULL.

**The assumptions.** The two theorems about answers assume `ListTextClass = "text"`:
that the texts put in lists do not have the size of an entry. Otherwise they are false
(finding 6, run `readers_recycled`). They hold for any MAX_KILLS, though in the model a reader runs
only while nothing was killed. `ShmImplementsStore` and `WritesOnlyOwnKey` assume
MAX_KILLS = 0, and `StoreUntilAKill` and `OwnKeyUntilAKill` say the same with
any number of kills of every step before the first one. What holds *after* a kill is not proved (below).

**The writer.** As in `TouchdbProofs`, the invariant `WriterOK` says that there are tables
`ent`, `es`, `ns` and `own`, here with the values `kv`: `Live` says that the memory holds what they say. But between two
writes of a call no tables of the writer hold, a node may be linked and not counted, and a freed
string may still be named. So `Sound(C, N, fin, n)` has two sets of tables: clients read those of
C *now*, while the writes that `todo` still holds turn the memory into `fin`
(`Pending`), which is as the tables N say in every respect, counts and tails included. The
n-th pending write, if n is not 0, is the one at which C gives way to N: the first of a bucket's
or chain's `header` or the last entry's or node's `next`, for a pop the chain's `header`
(`Ahead`). The writes before it go to blocks that nobody owns yet or to a tail, and those
after it change nothing that is read (`Quiet`). That one write is the linearization point of the
call; that it is a *link*, made after key and value are written, is what
the proof is about. Once it is made, n is 0 and C = N (`Linked`). Four
lemmas say of the calls that the writes they compute are such
(`PutStarts`, `NewStarts`, `PushStarts`, `PopStarts`), and `WriterUnkilled` says what any step of the writer does:
its `Effect` is that nothing changes for clients, or that the tables become `Grown`, which is a step of
`KvStore` for the call's own key.

**The readers.** `ReaderOK` says of each reader that it `Minds` the tables C: it has `Finished`
with a right answer, it is `Seeking`, or it is `Iterating`. A seeking one is at an entry or node
of the tables at its place in the sequence, and the value it is on its way
to is in `seen`; or its list is being popped and it is in `disturbed`. An iterating one
has passed what lies before its place, once. A step of the reader moves along the links, which are
those of C although the call may be halfway through. A step of the writer changes the
blocks that a reader is on only so far as `Grown` and `Steady` allow: entries are never unlinked, a push
appends, what owned blocks contain stays, and only a pop takes blocks away from an owner. A bucket is read by its `header` and links
and never by its `size` during a look-up, but an iteration
asks for the size first, which is why an entry that is linked and not counted needs a
case of its own (`BeingPut`).

`EntryOf` and `TextsOf` walk the memory recursively; the lemmas `GoesExists`, `EntryIs` and
`TextsIs` give their values from the sequences in the tables.

### Only model-checked

- Liveness (`ServedIfRoom`, `OpensEnd`, `ReadsEnd`): fairness and ENABLED are out of the
  prover's reach.
- What the calls do after a kill in `TouchdbShm`: `ImplementsStore` and `OnlyOwnKey`
  are proved up to the first kill and checked beyond it, and `OneKeyPerKill`, which is only about what
  comes after a kill, is checked. An invariant would have to say what every prefix of
  the writes of a call leaves in a list or bucket, and what later calls make of that;
  it cannot be one for any number of kills, since with two of them `OnlyOwnKey` is
  false (see the observations).
- That the free lists are first-in first-out, which `Touchdb` assumes: `FreeListsExact`
  does not fix the order between steps.

## 5. Not modelled

- **Red-black tree.** `touchdb_rbtree.c` is not part of the program: no rule of the
  Makefile builds it, it refers to a global pool that nothing defines, calls
  `ptr_of` on it, and its test passes `touchdb_new` five arguments. `touchdb_rbtree_insert`
  never writes the key of a node, and leaves the links and the colour of
  the first one unset, so what a look-up compares is undefined from the second put on; there
  is no state from which its rotations could be checked as they would run.
- **`touchdb_map2.c`, `touchdb_array.c`** do not compile. Command line, B-tree,
  copy-on-write map: empty. The worker only calls the operations of `Touchdb`. Logging
  and string helpers have no state.
- **Paths.** The directory is *a* directory in `TouchdbOpen`. In the code, a path
  without a `/` at its end is replaced by `/` (`touchdb.c:64`, `strcpy` where `strcat` is
  meant), and the copy of the path is one byte too short (`touchdb.c:149`): both are listed
  as hazards; they are about the text, which the model leaves out.
- **`hash`, `hash_code` and the rounding of the bucket count** are pure functions: a
  constant gives each key its hash, with collisions and shared buckets in the runs. The
  count is 1024 in every database, since `touchdb_new` always asks for 1000.
- **`touchdb_chain_cmp`, `touchdb_chain_index_of`**: their results come from the
  undefined `touchdb_val_cmp`. `touchdb_chain_range`, `touchdb_map_del`, `touchdb_map_cmp`,
  `touchdb_map_destory`, `touchdb_new2` are empty in the source. `touchdb_str_cpy` and
  `touchdb_str_cmp` have no caller.
- **Readers** of the values of `touchdb_put`, and of a chain by `touchdb_chain_iter`; keys that
  are rewritten while they are read: the value's blocks are then free (finding 5), with
  or without a reader.
- **Two writers.** Nothing in the code allows them: the repository promises readers only.
- **Power failure**: nothing in the code calls `msync`.

## 6. What is left

In the order in which it would add most:

1. Proofs about `TouchdbShm` after one kill: what a damaged list or bucket may look like,
   as `Line` says it of a torn list of the pool.
2. Readers while the successor of a killed writer writes.
