# A TLA+ verification of mai-fa-sp-4-sem

The repository holds the programs of two university courses: *fundamental
algorithms* (allocators, loggers, big numbers, search trees, each with tests) and
*systems programming* (`src/SP/task1` to `task7`, small C programs around processes,
semaphores, threads, message queues, files and sockets). This directory models the
parts whose correctness depends on long sequences of calls or on concurrency,
model-checks them with TLC and proves theorems about them with TLAPS.

## 1. Inventory

| Component | State | Operations | Interacts through | What is hard | What makes it correct |
|---|---|---|---|---|---|
| `allocator_sorted_list` | headers in one trusted area, first free block, fit mode, mutex | allocate (search, cut), deallocate (walk, link, merge), set_fit_mode, get_blocks_info | parent resource, logger; shared by threads | every walk trusts the sizes and links all earlier calls left | blocks tile the area, free list sorted and merged, no overlap, fit mode honoured, no false refusal, loops end |
| `allocator_boundary_tags` | doubly linked occupied blocks, first block, fit mode, mutex | allocate, deallocate, get_blocks_info, set_fit_mode | the same | the iterator derives holes from addresses | links symmetric and sorted, walk accounts for every byte, the allocator's promise |
| `allocator_buddies_system` | power-of-two blocks with one-byte headers, fit mode, mutex | allocate (search, split), deallocate (merge) | the same | buddy addresses, sizes against metadata, sizes that are no power of two | tiling at aligned addresses, buddies merged, payloads fit and lie inside the area |
| `allocator_red_black_tree` | a list of all blocks by address; the free ones also in a tree by size; fit mode, mutex | allocate (search, cut), deallocate (merge), set_fit_mode, get_blocks_info | the same | tree and block list change together, a node in the tree changes its size with its neighbours | list whole, tree holds exactly the free blocks in order of size, the promise, fit mode honoured |
| `allocator_global_heap` | sizes stored before each block | allocate, deallocate | operator new | nothing beyond foreign pointers | each block given back once |
| `client_logger` and builder | global map path -> (count, stream); handles in builders and loggers | build, copy, move, assign, destroy, log | file system; one map for the process | shared counts across all copies and moves, exceptions in the constructor | counts exact, no stream closed or truncated under a logger |
| `server_logger` and builder | the address of a server | build, log | HTTP requests to a logging server that is not in the repository | lost requests | each message sent once, in order |
| `binary_search_tree`, `AVL_tree`, `red_black_tree`, `splay_tree` | nodes with parent, children and what balancing needs; `_size` | insert, insert_or_assign, erase, clear, bounds, iterators in six orders, copies | allocator, logger | links of three nodes change at a time, the repair of the whole path, erases that leave a tree which only a later call breaks | order, balance, content equal to a multiset of keys, each iterator meets each node |
| `b_tree`, `b_plus_tree`, `b_tree_disk` | nodes of many keys, in memory or in a file; `_size` | insert (split), erase (borrow, merge), clear, find, bounds, iterators | allocator; a file | splits up to the root; a stop between two writes | order, fill, content equal to a set of keys, searches and walks complete |
| `scapegoat_tree`, `b_star_tree`, `b_star_plus_tree`, `hash_table`, `continued_fraction` | none | mostly `throw not_implemented` | | | |
| `big_int`, `fraction` | digits and sign; numerator, denominator | arithmetic, comparison, conversion | allocator | carries, signs, normal form | equal to the integers and rationals |
| `SP/task1` login shell | users, sanctions, files | register, login, commands | files | a stop between reading and rewriting | no login beyond the limits |
| `SP/task2` file utilities | processes per file | copy, find, checksums | fork and wait | children not reaped | every child accounted for |
| `SP/task3` philosophers | one semaphore set, six processes | take and return forks, remove the set, kill, wait | semaphores, signals, exit statuses | circular wait, a call failing anywhere | fork exclusion, end of the family, nothing left behind, honest status |
| `SP/task4` river crossing | sessions in the server; queues in the kernel | init, take, put, move, fin | message queues | queue ids used again, kills, interleaved clients | one session per queue, replies in step, rules of the puzzle |
| `SP/task5` bathroom | a state, a counter, a mutex, 20 threads | enter, leave, create, join | shared memory | polling, two genders, joining | one gender at a time, limit, everyone served |
| `SP/task6` listing over TCP | sockets | request, answer | TCP | partial sends | whole answers |
| `SP/task7` ls clone | none | print a directory | | | |

The list of what is hard to test, line by line, is in `PROJECT.json` under `hazards`;
each entry names the properties that cover it, or why none does yet.

## 2. Modules

| Module | Models |
|---|---|
| `AllocatorSpec` | what any of the four allocators promises its callers: regions inside the area that never overlap, taken back only by the call that names them, and refusal only when no hole could serve the request |
| `SortedListAllocator` | `allocator_sorted_list`; implements `AllocatorSpec` (`KeepsPromise`) |
| `BoundaryTagsAllocator` | `allocator_boundary_tags`; implements `AllocatorSpec` |
| `BuddiesAllocator` | `allocator_buddies_system`; implements `AllocatorSpec` |
| `TreeLinks` | nodes with three links, the rotations, the stores that attach, move and remove a node, the nodes in order: what all binary trees of the repository share |
| `RedBlackLinks` | the repairs of the colours after an insertion and a removal, which `allocator_red_black_tree` and `red_black_tree` share |
| `RedBlackTreeAllocator` | `allocator_red_black_tree`; implements `AllocatorSpec` |
| `TreeWalks` | searches, bounds and iterators of the binary trees |
| `SearchTreeKinds` | insertion, erasure and repair in `binary_search_tree`, `AVL_tree`, `red_black_tree`, `splay_tree` |
| `IndexTreeKinds` | the same for `b_tree` and `b_plus_tree`, with their searches and iterators |
| `SearchTrees` | one tree of any of the six kinds and the calls of its user |
| `TreeComments` | what the headers of the trees say of them, as statements about `SearchTrees`, and which of these a user has seen contradicted |
| `Philosophers` | `SP/task3`: the parent, the philosophers and the semaphore set |
| `WolfGoatCabbage` | the puzzle as its players know it |
| `RiverCrossing` | `SP/task4`: server, clients and queues; implements `WolfGoatCabbage` (`PlaysThePuzzle`) |
| `Bathroom` | `SP/task5` |
| `ClientLogger` | the shared streams of `client_logger` and its builder |
| `*_proofs` | the theorems, each module about the one it is named after |
| `MC*` | instances for TLC, one per configuration |

An operator commented *Wrong: ...* stands beside the definition it deforms. It is used by
nothing: it records a plausible mistake in that piece of the code, under which the
property named in `PROJECT.json` (`mutants`) fails.

### The allocators

A pointer is an offset in the trusted area and the memory is the function `heap`, whose
domain is the set of offsets that hold a header. Payload bytes are not modelled; that no
header lies in a payload is what `Tiled` and `HeldIntact` say, and that no payload is given out twice `KeepsPromise`. In three of them a
call is three phases, as in the code: the call (`CallAllocate`, `CallDeallocate`), the lock
(`BeginSearch`, `BeginWalk`), and the steps under it: one action per iteration of a loop
(`SearchStep`, `WalkStep`, and for the buddies one per split and one per merge), one for the straight
rest of the function (`FinishAllocate`, `FinishDeallocate`). Modelling the loops step by
step makes their termination a property (`MutexReleased`) instead of an assumption, and
keeps what a loop has read in `loc`, the locals of the thread that holds the mutex.
`held` is what callers may still free; it is bookkeeping of the environment, which keeps
the contract of `memory_resource` (no double free). Pointers of another allocator are
passed in where the code rejects them. The sorted list rejects them only with a logger,
so `HasLogger` chooses.

`KeepsPromise` maps the occupied blocks of each allocator to the `regions` of
`AllocatorSpec` and checks that every step is a step or a stutter of it. What a refusal
means differs, and is a parameter (`Needed`): the sorted list needs room for a second
header behind every block, boundary tags needs one header, the buddies need an aligned
block, for which a hole twice the rounded request is enough.

`RedBlackTreeAllocator` takes a call as one step, because each call holds the mutex from its first line to
its last. Its state is the list of blocks (`heap`: the headers, whose distance is a block's size, so `SizeIn`
takes the list) and the tree of the free ones. The nodes of the tree are blocks, and a free node that swallows
its neighbour, or is cut, changes its size while it is in the tree: `TreeHoldsFree` is what could go wrong
with that. The tree is the one of `TreeLinks`, with the links of the code, so a wrong repair shows as a null link followed.
`crashed` records that, and a call that does it is the last one: what it leaves, between marking a block free and joining it, is not
constrained.

### The search trees

A binary tree is a function from its nodes to their links, as the code leaves them: a link to a node that is gone
is a state of the model and not excluded by a shape. `Wild` stands for a read of memory that is not the
tree's, and `crashed` records a null link followed. A call is one action, because the trees are for one
thread. `SearchTrees` calls a tree only while it is `Sound`: what C++ does after undefined behaviour
is not followed. Which calls are sure to leave a tree that can be used is what `StaysUsable` states. `content`
counts the elements with a key, as a user would, and every search and every iterator is compared to it in
every state. The properties of `SearchTrees` claim nothing where the code and a comment of its header disagree:
these places are outside their conditions, and `TreeComments` states the comments themselves.

A node is a key and a number: the binary trees take a key that is there a second time, and the number keeps the two apart.
`insert` and `emplace` reach the same code (`create_node` passes its arguments on as lvalues), so they are one
action; `insert_or_assign` is another one.

Trees of a `B_tree` and a `BP_tree` have one level or two, which is no bound of the model. A split below the root of a
`B_tree` puts the two parts of a leaf into the root and leaves the pointer to the old leaf behind them (`b_tree.h:1427` to
`:1429`). `stale` counts these pointers. If it was the last leaf that was split, the old pointer is behind all children, no
way down leads to it, and the tree is used further, as `bTreePositiveTests.test4` does. If it was another leaf, the old one takes a
place among the children, with a key too many, and the last leaf is out of reach: such a tree is not `Sound`. Each split takes two
of the `2 * t + 1` pointers of the root, so a later one throws halfway, long before the root has separators enough to be split itself
(`ShapeKept` has the bound). The stale pointers come back into play when the last leaf has to borrow: the node to its right is
an old one with keys to spare, and the code reads the separator between them, which is not there (`:1745`). A `BP_tree` has no stale pointers; the
overflow of its root takes a leaf for a node above, and the tree is not used after that.

### The programs

`Philosophers` has the control points of each process as `pc` and those of the parent as
`ppc`; a semaphore call that fails, because the set is gone or from outside, goes to
`check`, which removes the set and exits, as the macro `CHECK` does. `others` records that
`kill` was called with -1. `RiverCrossing` has the queue of the server, one queue per
client, the message the server is handling, and the program of each client; `Start` uses
a queue id again after its client is gone, and the server or a client may be killed
between any two steps. `Bathroom` has one action per critical section. `ClientLogger` follows
the constructors, assignments and destructors of the handles over the map of streams
(`ForEach`), in the order in which the containers call them; counts are words that wrap.

## 3. Runs

Every passing run explores its whole instance, in less than three minutes on two workers.

| Run | Bounds | Shows |
|---|---|---|
| `sorted_list` | two threads, 10 bytes, headers of 2, requests 0, 1, 3, a logger | `Tiled`, `ListSorted`, `Coalesced`: the area is never torn by cuts and merges; `HeldIntact`; `FitHonoured`; `KeepsPromise` (refinement); `MutexReleased` |
| `boundary_tags` | two threads, 9 bytes, headers of 2, requests 0, 1, 3 | `AreaWhole` (links symmetric and sorted, the walk accounts for every byte), `FitHonoured`, `KeepsPromise`, `MutexReleased` |
| `buddies` | two threads, 64 bytes, requests 0, 9, 25 | `AreaWhole` (tiling at aligned addresses, buddies merged), `FitHonoured` (of first and best fit), `KeepsPromise` |
| `red_black_allocator` | 14 bytes, headers of 1, a tree node that needs 1 more, requests 1, 2, 3 | `ListWhole`, `TreeHoldsFree`, `FitHonoured`, `KeepsPromise` |
| `buddies_comments` | one thread, 40 bytes, request 8 | findings 1 to 3: `SomeCommentHolds` is violated |
| `philosophers` | 4 philosophers, 2 places, 2 rounds, up to 2 failing calls | `ForksExclusive`, `SuccessMeansAllAte`, `NothingLeftBehind`, `FamilyEnds`, with and without failures |
| `river_crossing` | three histories: 2 clients with 2 commands each and every fault of the server; 2 clients of whom one is killed at any moment of the other; 1 client with up to 19 commands, whose id is used twice | `OneSessionPerQueue`, `ReplyInStep`, `MovedIsTrue`, `PlaysThePuzzle` (refinement, along complete solutions), `ClientsEnd`, `SessionsFreed` |
| `bathroom` | 4 + 4 threads, a room for 2 | `OneGender`, `Counted`, `JoinedAll`, `EveryoneServed` |
| `client_logger` | 3 paths (one cannot be opened), 2 logger variables, 2 handles per builder | `CountsExact`, `LoggersWritable`, `NoTruncation` |
| `search_trees` | six kinds; binary trees of up to 5 or 6 nodes, a `B_tree` of degree 2 and 8 keys, a `BP_tree` of degree 2 and 10 keys | `ContentKept`, `SearchesAnswer`, `ShapeKept`, `IteratorsComplete`, `StaysUsable` |
| `red_black_erase` | the red-black tree alone | finding 4: `NoNullFollowed` is violated |
| `tree_comments` | an AVL tree of 4 keys, a `B_tree` and a `BP_tree` of degree 2 with 4 and 6 keys and a second element with one of them | findings 5 to 19: `SomeCommentHolds` is violated |

Why the bounds are enough. In 10 bytes with headers of 2 up to five blocks fit, so a free block
can have free, occupied or no neighbours on each side, a rest can be too small to cut by one, and
each fit mode has candidates of equal and of different sizes; boundary tags has the same in 9 bytes. 64 bytes are four
smallest buddies: a merge can climb two levels and stop at each. Two threads are enough for the mutex, whose
holder excludes all others alike. Four philosophers with two places are the smallest table at which a place is
refused while no neighbour eats (the safety properties are proved for every table); two failures cover a
second failure while the first is being cleaned up, two rounds that a neighbour comes back. A client needs 19
commands for the puzzle's shortest solution, and two runs of one id are enough for an old session
or message to meet a new client. Four threads of a gender are enough to fill a room for two, wait
at it and enter after it. In 14 bytes with headers of one the red-black allocator has up to six blocks, so its tree gets the
insertions with rotations; removals with rotations need more blocks than TLC can enumerate (16 bytes do not reach them), and
are met by the red-black tree of `search_trees`, which has the same repairs. Five keys and six nodes give every erase a node with
both children, with its predecessor near or far, and equal keys; with 8 keys a `B_tree` of degree 2 has splits of the last leaf and of others
below the root, up to two stale pointers, a root without room, borrowings and merges on both sides, and erases that turn to a stale node; with 10
a `BP_tree` has every split, borrowing and merge. `SizeBits` is small so that `_size` wraps. Two handles per builder and two loggers give every order of sharing a path between builder and
loggers, and a moved-from one beside a live one.

Fairness. The allocators assume that a thread inside a critical section goes on
(`WF_vars(ThreadWork(t))`): nothing in it blocks. The processes of `Philosophers` and the threads of
`Bathroom` are scheduled fairly, and a semaphore that stays positive, or a room that stays open,
lets a waiting process in; this is weak fairness and no queueing is assumed. No call is ever forced to
fail: fairness is about the steps that are no fault, or a fault would always break a circular wait. Server and
clients of `RiverCrossing` are scheduled fairly and nothing makes a caller call again, nor a client start. Kills are never fair.
The programs of task3 and task4 may stop, so these runs do not look for deadlock: `FamilyEnds` and
`ClientsEnd` say that they stop only at their ends. For the allocators, the bathroom and the logger deadlock is checked.

## 4. Findings

Nineteen statements in comments of the headers disagree with the code. Where one run shows several, its property
`SomeCommentHolds` says that not all of them are contradicted, each being a predicate of its own, so the counterexample contains
every one.

Run `buddies_comments`, at the end of one search (`allocator_buddies_system.h`, `.cpp`):

1. `:67` and `:75` make the metadata of an occupied block 9 bytes, but `do_allocate_sm` (`:76`) adds the size of the constant that
   holds the 9, which is 8: a request that fills its block exceeds it by one byte (`PayloadFits`).
2. `:52` calls `size_k` "Степень двойки размера доверенной памяти". For a size that is no power of
   two it is rounded up while the memory (`:51`) is not, and blocks are handed out behind its end (`InsideTrusted`). The tests use such sizes.
3. `:49-50` names the modes "первый подходящий, наиболее/наименее подходящий". Worst fit (`:277`) takes the last block that
   fits, which need not be the least suitable (`WorstTaken`).

Run `red_black_erase`:

4. In the repair after an erase of a `red_black_tree` (`red_black_tree.h:891` to `:898`) the third case rotates at the
   parent where its mirror image rotates at the sibling. The fourth case, of which `:895` says that the sibling's left
   child is red, then finds no such child and writes to it. The compiled tree stops in the same way after insert 1, 4, 5, 2, erase 1
   and 2, insert 1, 3, 2, erase 4.

Run `tree_comments`, along a user's AVL tree, `B_tree` and `BP_tree`. The code lines are in `PROJECT.json`:

| | Says | Does | Statement |
|---|---|---|---|
| 5 | `AVL_tree.h:633-634`: the left subtree, or an element found below, takes the place of the erased one | follows a null pointer at the root and without a left subtree; a subtree that moves up keeps the erased node for a parent | `ElementIsReplaced` |
| 6 | `AVL_tree.h:635-636`: rebalances up to the root, "О(log n) остается" | starts at the element that moved up; when a leaf is erased there is none, and nothing is rebalanced | `RebalancesUpwards` |
| 7 | `binary_search_tree.h:101` (also `:306`, `:510`): at the end `_backup` is the last node | `end_prefix` stops at a node with a right child only | `BackupIsLastNode` |
| 8 | `binary_search_tree.h:82-91`: a reverse iterator is at the element before | the reverse prefix and postfix walks leave out elements of some trees | `ReverseIsBefore` |
| 9 | `b_tree.h:99-106`: the path of an iterator begins `<root, 0>`, `<root->_pointers[i1], i1>` | `find` has the root twice | `PathGoesDown` |
| 10 | `b_tree.h:320`, `find`: "Returns end() if not exist" | reads behind the pointers of a leaf | `FindReturnsEnd` |
| 11 | `b_tree.h:320`, `lower_bound`, `upper_bound`: the same | in two levels they return a key of the root, or what lies behind its keys | `BoundsReturnEnd` |
| 12 | `b_tree.h:341`, `insert`: "Does nothing if key exists" | compares one key of a node, mostly another one, and inserts it again | `BInsertsOnce` |
| 13 | `b_tree.h:360`, `erase`: "end() if key not exists" | reads behind the pointers of a leaf | `EraseReturnsEnd` |
| 14 | `b_tree.h:1091`: what follows copies `begin` and `end` but for const | `cend` stands behind the last pointers, `end` behind the keys of the root | `ConstEndIsEnd` |
| 15 | `b_plus_tree.h:179`, `at`: "Returns a reference to the mapped value of the element" | throws for a key that begins an inner leaf | `AtReturnsElement` |
| 16 | `b_plus_tree.h:210`, the bounds: "Returns end() if not exist" | return `end()` for an element that begins the next leaf | `BPBoundsReturnElement` |
| 17 | `b_plus_tree.h:231`, `insert`: "Does nothing if key exists" | compares keys of inner nodes only | `BPInsertsOnce` |
| 18 | `b_plus_tree.h:252`, `erase`: returns "iterator to node next" | does not find a key that begins a leaf | `BPErasesElement` |
| 19 | `b_plus_tree.h:252`, `erase`: the same | steps over `_next`, which a merged leaf lacks, and which leads the leaf before it to a deleted node | `BPStepsToNext` |

Further, `insert_or_assign` and `emplace_or_assign` of the index trees (`b_tree.h:350`, `b_plus_tree.h:243`: "Updates value if key exists") are declared to
return an iterator and return nothing, which is undefined behaviour at their end; they are not modelled.

Behaviour that is odd, on which no comment and no test was found to the contrary, is in the model as the code has it:

* `_size` misses the first element of a binary tree, and two kinds do not count what they erase (`ContentKept`).
* The two `lower_bound` of a binary tree disagree (`SearchesAnswer`). The balance of an AVL node is told as an unsigned number (`ShapeKept`).
* `erase` of an absent key follows a null pointer in a `splay_tree` (`LostErasing`); erases of the other binary trees outside
  `ErasesWell` do so or leave links that disagree.
* The split of a `B_tree` leaf that is not the last, a split that finds no room in the root, and the overflow of the root of a `BP_tree`
  (`SplitsTooFar`); an erase that turns to a stale node (`TurnsToStale`); and `clear` of a `BP_tree`,
  which leaves links to nodes that are gone.

The definitions of the two index trees were compared with the compiled templates along 20,000 random
sequences of calls each (those of the `B_tree` with degrees 2, 3 and 4: splits, stale pointers, throws, borrowings, merges and clears), with two lines of `b_plus_tree.h` (`:416`, `:1119`) that do not compile repaired in a copy. The const `find` and
`contains` of a `B_tree` do not compile either; these are left out.

The other modelled behaviours hold, some of them for non-obvious reasons: for
instance the iterator of the sorted list takes a header at or past `space_size` for the end, which is
right only because a rest is never cut without a header and one byte, and a block is only granted with
room for a second header.

## 5. Proofs

Eight modules of theorems, each about one component, checked by TLAPS for every value of the constants. They rest only on the
assumptions of the modules they are about: `SortedListAssumption` (a non-empty area, non-empty headers,
`Nobody` is no thread), `BoundaryTagsAssumption` (the same, and an area that
holds a header), `BuddiesAssumption` (the same, an area of at most 2^30 bytes, because `size()` is `1 << size_k`, an int, and requests
that with the 8 bytes added to them fit a `size_t`), `RedBlackTreeAssumption` (non-empty headers, an area that holds one and the links behind it, and no
request shorter than these links, the case section 6 leaves out), `PhilosophersAssumption` (at least two philosophers, one place, one round),
`RiverAssumption` (the limits are numbers, the queue of the server holds a message), `BathroomAssumption` (the limit is an integer, possibly a useless one)
and `ClientLoggerAssumption` (finitely many loggers, fewer handles than a `size_t` counts, no stream with an empty path).
Three theorems about the buddies name a condition more; see below.

| Theorem | Proves of every behaviour |
|---|---|
| `SortedListAllocator_proofs!TypeCorrect`, `TiledAlways` | headers stay well-formed and tile the area |
| `SortedListAllocator_proofs!ListSortedAlways`, `CoalescedAlways` | the free list is complete and sorted, no two free blocks touch |
| `SortedListAllocator_proofs!HeldIntactAlways` | what a caller holds stays occupied and large enough |
| `SortedListAllocator_proofs!FitHonouredAlways` | the block given out is the one the fit mode names |
| `SortedListAllocator_proofs!KeepsPromiseAlways` | the allocator implements `AllocatorSpec` |
| `BoundaryTagsAllocator_proofs!TypeCorrect`, `AreaWholeAlways` | the list of occupied blocks is linked both ways in order, `get_blocks_info` accounts for every byte |
| `BoundaryTagsAllocator_proofs!FitHonouredAlways` | the hole cut is the one the fit mode names |
| `BoundaryTagsAllocator_proofs!KeepsPromiseAlways` | the allocator implements `AllocatorSpec` |
| `BuddiesAllocator_proofs!TypeCorrect`, `AreaWholeAlways` | the blocks tile the area at multiples of their sizes, no two free buddies are left |
| `BuddiesAllocator_proofs!BuddyIsBlockAlways`, `HeldOnceAlways` | the buddy `get_buddy` computes is the header of a block; a block is held, or being freed, once |
| `BuddiesAllocator_proofs!FitHonouredAlways` | a search that finds a block ends with a free one that is large enough, by first fit the lowest and by best fit the smallest |
| `BuddiesAllocator_proofs!KeepsPromiseAlways`, `PayloadFitsUnlessExact` | if no request fills a block to its last byte, the allocator implements `AllocatorSpec` and every payload fits |
| `BuddiesAllocator_proofs!InsideTrustedUnlessOdd` | if the size of the memory is a power of two, every block lies inside it |
| `RedBlackTreeAllocator_proofs!Invariance`, `TreeAlwaysHoldsFree` | the tree holds each free block once, in order of the sizes they have now, and its links agree, until a null pointer is followed |
| `RedBlackTreeAllocator_proofs!ListAlwaysWhole` | the list leads over all blocks both ways, no two free blocks touch, until a null pointer is followed |
| `RedBlackTreeAllocator_proofs!FitHonouredAlways` | the block given out is the one the fit mode names |
| `RedBlackTreeAllocator_proofs!KeepsPromiseAlways` | the allocator implements `AllocatorSpec` |
| `Philosophers_proofs!TypeCorrect`, `ForksExclusiveAlways`, `RoomBoundAlways` | semaphores are used as locks and as a counter correctly, whatever fails |
| `Philosophers_proofs!SuccessMeansAllAteAlways`, `NothingLeftBehindAlways` | what the parent's exit code and its end mean |
| `RiverCrossing_proofs!OneSessionAlways`, `ReplyInStepAlways` | one session per queue id; every reply read is the one to the last request |
| `RiverCrossing_proofs!MovedIsTrueAlways` | "All objects moved" is the truth |
| `RiverCrossing_proofs!PlaysThePuzzleAlways` | the sessions implement the puzzle |
| `Bathroom_proofs!TypeCorrect`, `OneGenderAlways`, `CountedAlways`, `JoinedAllAlways` | one gender inside, counted; `main` ends after everyone |
| `ClientLogger_proofs!TypeCorrect`, `CountsExactAlways` | a reference count is the number of handles, whatever is built, copied, moved, assigned, destroyed or thrown |
| `ClientLogger_proofs!LoggersWritableAlways`, `NoTruncationAlways` | no logger writes to a closed stream, and no file is truncated while a logger writes to it |

Each follows from one inductive invariant, `IInv` (or one that contains it: `PInv` of the sorted list's search, `JInv` of the puzzle), and none of the properties is inductive alone.

*Sorted list.* Whether a call leaves the memory in order depends on what its loop has found. `IInv`
joins the memory (`Tiles`, `Sorted`, `Apart`), the callers (`Callers`: a block being freed is
occupied, no longer held, and freed by one call), and the locals under the mutex (`Searching`: the candidate is
free, its predecessor is the greatest free block below it, its size is the one remembered;
`Walking`: the iterator has not passed the block to be freed, and its own walk of the free list has kept step).
The steps that change memory rest on lemmas about a heap and a first pointer, free of the state machine:
`Cutting` and `Whole` for `do_allocate_sm`, `Linking`, `Merging` and `MergingLast` for `do_deallocate_sm`. The last two
are applied one after the other, which is why they speak of any heap and not of the variable.
`Walking` also shows why the iterator's test against `space_size` is harmless: a block to be freed
lies ahead of the iterator and before that offset.

`PInv` adds to `IInv` what the search has ruled out. `Seen`: while it has found nothing, no free block behind the iterator
fits; once it has, none behind it is better by the fit mode, which cannot change before the mutex is released. At the end of the list
that is `FitHonoured`. A refusal needs one fact more, that every offset of the area is in a block (`Covered`):
the block over the start of a hole would be free and too small, and what follows a free block is in use (`Apart`), so no hole has
room for the request and two headers. `CutCovers`, `WholeCovers`, `TryCovers` and `FreeingCovers` carry `Covered` through
the stores and show that each call changes the use of one block only, which makes the steps those of `AllocatorSpec`.

*Boundary tags.* The memory is `Placed` (the blocks lie apart, inside the area) and `Linked` (each stop is followed by the
next block and that block knows it), again stated of any headers and first pointer; `Inserting` and `Removing` carry them through the stores of
`do_allocate_sm` and `do_deallocate_sm`. `Summing` says that the sum of `get_blocks_info` is the position of the iterator.
`Searching` says what the search has found and what it has passed over: no hole behind the iterator is better than the candidate (`FitHonoured`),
and while there is no candidate, no offset behind the iterator has room for the request. That last part is about offsets and not
about holes, so a refusal maps to the refusal of `AllocatorSpec`, whose `Vacant` knows neither headers nor links; it needs
the fact that two stops with nothing between them bound every region that touches no block (`RoomInHole`).

*Buddies.* `IInv` says that the blocks tile the area, each at a multiple of its size (`Tiles`), that no two buddies are free except
the one being merged (`MergedBut`), what a caller holds or gives back (`Holding`, `GivingBack`), and what the walk has
passed over (`Searching`). Tiling and alignment together make `get_buddy` right: the offset it computes is the header of a block of the same
size or of one cut smaller, never one in a payload. They also carry a refusal: a hole twice as long as a power of two contains a
multiple of it with that much room, whose blocks are all free and, being merged, make one block of that size at least,
so a walk that found no block leaves no such hole. The lemmas on cutting and merging speak of a heap and its successor, and the splits
and merges of one call apply them once each.
The first two findings of section 4 are delimited here. `NoExactFit` says that no request and its 8 bytes are exactly the size of a block: under
that condition alone payloads fit and `AllocatorSpec` is implemented, so the missing ninth byte matters for these requests and for
no others. `SpaceSize = Total` says that the memory is a power of two long: then every block lies inside, so the rounding is the
only way out of it. The run `buddies_comments` has constants for which both conditions fail.

*Red-black allocator.* A lemma about the tree speaks of its value `T`, its nodes `M`, any keys, and a ghost: `sub` names for each node what
hangs below it. `Grown` says that the links and the ghost agree at every node (`Shape`) and that the keys below a node are on their sides (`SortedAt`);
`IsTree` is that for some ghost. A rotation (`RotateKeeps`), a new leaf at the end of the descent (`InsertKeeps`) and a removal with each of the places its
successor can have (`RemoveKeeps`) keep `IsTree`, whatever the colours are, as the repairs are rotations and colours: by induction on their rounds they keep
it too, or have followed a null pointer. So a wrong case of a repair can unbalance the tree or stop the program, but loses no block and never
puts one where a search misses it. That the third case of the removal is wrong (finding 4) is therefore not a contradiction to the theorems, which say
nothing of the state it stops in.

`IInv` has the list (`ListOK`: no gap, links both ways, each block long enough for its links), the callers (`Callers`), and, until a null pointer
is followed, `Searchable`: no two free neighbours, and `IsTree` of the free blocks with their sizes as keys. A size is a distance in the list, so a
cut or a joint changes keys: `CutActs` and `JoinActs` say that it changes one key only, of a block that is out of the tree at that moment (`SameKeys` for the
others), and `JoinStep` is the removal and the joint as the code does them, once for each neighbour. The searches go by induction on what hangs below
a node (`TreeInduction`; `TreeRecursion` shows first that the recursive functions exist): `FirstFitFinds`, `BestFitFinds`, `WorstFitFinds` compare what they
return with every node below, which is `FitHonoured`. The walks are sequences that list what hangs below a node, in order and once (`Lists`), and the sums of
`TreeHoldsFree` agree because both count each byte of each free block (`SumCounts`). For a refusal, no free block is long enough; a hole with room for the
request and a header would begin in a free block or at the end of an occupied one, and no free neighbours (`NoTwoFree`) leave it one block to lie in (`NoRoom`).

*Powers of two.* The provers know no law of `2^n`. Each is an induction, and those come as `NatSet`: a set of naturals with 0 and the
successor of each member has all of them. That takes a set instead of an operator, and follows from the library's facts about finite sets. Three modules need it (the buddies for powers,
the red-black allocator for the rounds of a repair and the depth of a tree, the logger for its loops) and each states it for itself. The
value of `2^n` itself is the number of subsets of a set of `n` (`PowCard`), from which its successor, order and multiples follow (`PowMonotone`, `Aligned`).

*Philosophers.* `ForkCount` and `RoomCount` say what a semaphore's value allows: a held fork has value 0, places
taken and places left are at most `Room` (fewer after a failure, as nothing is undone). `RoundCount` ties the exit code
of a process to its rounds. `ParentOK` says what the parent has established at each point of its program, which
carries the theorems about its end.

*River crossing.* `RiverCrossing_proofs` numbers the messages the server has still to see: place 0 is the one it handles, then comes
its queue, and a step of the server or of another client moves a client's messages by at most one place (`Frame`). `Protocol` says of
one client which messages those can be, given what it does next: at most the `MSG_FIN` of the old client before the `MSG_INIT` of the new one (`InOrder`),
requests only while it waits and has no reply (`InitWaits`, `RequestWaits`, `ReplyAlone`). `FinUnderway` is what makes
`register_client` right without a look at the list: a session whose client left has its `MSG_FIN` ahead of the next `MSG_INIT`.
`JInv` adds what a session says about the messages: once something was eaten no command of that client is under way and
its next reply is the error (`Over`), and a client told that all is moved has a session in which it is (`Told`, `Done`). With that a move is a
crossing of the puzzle (`Carries`: an object of the other shore in the boat stays where it is), `MSG_FIN` and the loss of the sessions are restarts, and every other
step is a stutter.

*Bathroom.* The state names the gender of everyone inside (`Claimed`), the counter is their number (`Counted`), and
`Progress` follows `main`'s index through the creation and the joining of threads.

*Client logger.* A tally counts the handles on each path; the map of streams agrees with it (`Tallies`), an entry exists exactly for the paths
with a handle, and every path a logger writes to is open (`AllOpen`). The operations are loops over lists of handles, so each needs
an induction over the handles passed, and before it one that the function in `ForEach` exists; both are inductions over a set of numbers
(`NatSet`). The loops are then `Filled` (copies), `Emptied` (destructors) and `Moved`, from which every assignment and the
constructor that throws are composed. A destructor removes an entry only with the last handle of its path, hence no logger's stream is ever closed
(`LoggersWritable`), and a file that is not open has no writer (`NoTruncation`).

The invariants were checked by TLC on the instances of section 3 before they were proved; the type invariants of
the proved modules, `RoomBound`, `BuddyIsBlock` and `HeldOnce` are left to the proofs. Elsewhere types are
conjuncts of the safety invariants (`AreaWhole`, `OneSessionPerQueue`). Only model-checked are the
liveness properties (`MutexReleased`, `FamilyEnds`, `EveryoneServed`, `ClientsEnd`, `SessionsFreed`), which
need fairness and are out of the prover's reach, and the properties of
`SearchTrees`: `TreeWalks`, `SearchTreeKinds`, `IndexTreeKinds`, `SearchTrees` and `TreeComments` follow the code's walks, which may leave a broken tree, with recursive
operators, and are for TLC only. No other module has one. `TreeLinks` and `RedBlackLinks` have recursive functions instead, and what is proved of them
for the allocator is about the code both trees share. The invariant of the red-black allocator contains the ghost, which TLC cannot choose; it was checked through
`ListWhole` and `TreeHoldsFree`, which say the same of the walks.

## 6. What is not modelled

* The lifetime of an allocator object (moves, the destructor's size), `get_blocks_info` of the sorted list, which
  walks without the mutex, and requests near the end of `size_t`. In the red-black allocator, requests shorter than the
  links of a tree node, whose payload the links overwrite past the block.
* Double frees: the callers of the models keep the contract of `memory_resource`.
* Logging inside the allocators, formats and texts of the loggers, printing in the programs.
* In task4, clients whose `msgsnd` or `msgrcv` fails and the reading of the command file; in task5 `StringToInt`
  and a `pthread_create` that fails; in task3 process ids, hence the kill of an id used again.
* In the search trees: range constructors and range erasures, copies, moves, assignment, swap and destructors; `find` and
  `contains` of the binary trees, whose search strategy is not implemented and whose results are inverted; `split` of the
  splay tree, which nothing calls; stepping a `B_tree` iterator backwards.
* `b_tree_disk` (with a stop between two writes), `big_int` and `fraction`: sizeable code that could be modelled and is not yet.
* A stream of `client_logger` with an empty path: every handle that was moved from counts down under that path.
* `server_logger`: its server is not in the repository, and the client only formats requests. task1, task2, task6 and task7 are input and output.
* The components listed as `not_modelled` in `PROJECT.json`: unimplemented ones, pure I/O, and those planned below.

## 7. Plan

Done: the four allocators with their common promise, the concurrent programs, the shared streams of the loggers, the six
search trees. Left, in this order:

1. `get_blocks_info` without the lock and the lifetime of the allocator object in `SortedListAllocator`; `StringToInt`
   over bounded words in a module of its own.
2. `BTreeDisk` with a stop between two writes, on the operators of `IndexTreeKinds`.
3. `BigInt` and `Fraction` over a small digit base, checked against the integers.
4. Copies, moves and range operations of the trees.
5. Which states of the colours keep the repairs of `RedBlackLinks` from following a null pointer, as an invariant of the allocator's tree;
   `ContentKept` of the `red_black_tree` from the lemmas about `IsTree`, with its walks as recursive functions.
