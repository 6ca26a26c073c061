# Verification of c-containers

TLA+ models of the containers in `src/src/*.c` and `src/include/cc/*.h`, the TLC
runs that check them on small instances, and TLAPS proofs of what holds for
every instance. Paths below are relative to `src/` of the project tree
(`src/queue.c` is `src/src/queue.c` in `PROJECT.json`).

## 1. The system

The library is a set of independent containers, each a struct with a flexible
array member that holds the elements, and a header of macros that wrap the
functions of one `.c` file. There are no threads, no locks, no callbacks and
nothing on disk; what is difficult is the arithmetic on positions, the pointers
into a buffer that a resize replaces, an allocation that fails in the middle of
an operation, and long sequences of legal calls. Every call runs to its end
before the client makes the next one, so a call is one step of a model; the
rehash of the hash maps, a loop of insertions with probes that may not end, is
split into the steps of that loop.

| Component | State | Operations | What is hard | What makes it correct |
|---|---|---|---|---|
| `common.h` | none | `CC_NEXT_POW2`, `CC_MIN`, default and maximal capacities, `CC_CALLOC` | unparenthesised macros; builds override them | a grown capacity exceeds the old one |
| `queue` | ring buffer: length, head, tail, capacity | push, pop, clear, head | full and empty ring look the same; wrap during resize; failed resize | FIFO order; head, tail and length agree |
| `deque` | the same ring | push, pop and read at both ends | two ends that move both ways around the buffer | double-ended queue |
| `free_list` | bitmap, slots, length, `next_free` | insert, remove, clear, get, iterate | three pieces of state say which slots are free | first fit; no slot with two owners; pointers stay valid |
| `vector` | array, length, capacity | insert at both ends, remove, set, swap, get, clear | pointers into itself; boundaries | a dynamic array |
| `stack` | array, length, capacity | push, pop, head, clear | pointers into itself | LIFO |
| `priority_queue` | two blocks in one buffer, sorted by value | push, pop, top, find, remove by value, iterate both ways | the blocks move together; a binary search on unsigned bounds; iterators into a queue that changes | sorted list of pairs; a value keeps its data; an iteration visits every pair once |
| `unordered_map` | control bytes and nodes, length, load count | insert, find, delete, clear, iterate, rehash | open addressing with deleted marks; clashing tags; probes that may not end | dictionary; every probe ends |
| `unordered_map_str` | the same with allocated keys | the same | who owns a key string across delete, clear, resize | dictionary; every key freed once |
| `tree` | nodes with child lists | insert along a path, find, delete, clear, print, serialize | several allocations in one insert | a tree of paths |
| `test/main.c` | - | prints | - | asserts nothing |

The components share `common.h`. Queue and deque share their ring algorithms
textually, stack and vector their array, the two maps their table. They meet in
a client: it may pass the element pointer that one container returned to
another, or back to the same one, and the insertions read through that pointer
after they have resized or shifted the buffer (`Arrays.tla`).

## 2. Modules

Each detailed module keeps the fields of the C struct in a record named as the
code's parameter (`qu`, `list`, `umap`, `stk`, `vec`, `tree`) and has one action
per macro of the header, resizes and failed allocations included. `out` is what
the last call returned: pointers are abstracted to the element, slot or value
that they lead to. A failed `CC_CALLOC` is always possible where one is called
(`PushRefused`, `InsertRefused`, `Allocate`). Definitions with a comment "Slip"
are the operation with one plausible mistake; no specification uses them, they
show that the properties notice it.

| Module | Models | Notes |
|---|---|---|
| `Common` | `common.h` | capacities, growth with the macro's expansion, the allocator's limit |
| `Ring` | the buffer of `queue.c`, `deque.c` | resize, store at the tail, drop at the head, as operators on the record |
| `Queue`, `MCQueue` | `queue.c`, `queue.h` | `Push`, `Pop`, `Clear`, `Front`; refines `Fifo` |
| `Deque`, `MCDeque` | `deque.c`, `deque.h` | both ends; refines `DoubleEnded` |
| `FreeList`, `MCFreeList` | `free_list.c`, `free_list.h` | the bitmap is the set `used`; `held` is what the client owns; its names begin with `List` where the arrays' would clash |
| `Table` | the hash table of `unordered_map.c`, `unordered_map_str.c` | probe, placement, load factor, deletion, as operators on the record |
| `UMap`, `MCUMap` | `unordered_map.c`, `unordered_map.h` | insert, find, delete, clear, rehash in steps; refines `Dictionary` |
| `UMapStr`, `MCUMapStr` | `unordered_map_str.c`, its header | the string hash; `strings` counts the allocated copies of each key; refines `Dictionary`'s `ForgetfulSpec` |
| `PriorityQueue`, `MCPriorityQueue` | `priority_queue.c`, `priority_queue.h` | both blocks, sort, binary search, both `memmove`s; `it` is the client's iterator; refines `PriorityList` |
| `Buffer` | the array of `stack.c`, `vector.c` | resize, insertion with shift |
| `Stack`, `Vector` | `stack.c`, `vector.c` | one container each |
| `Arrays`, `MCArrays` | a client of both | elements copied within and between them; refines `Lists` |
| `Tree`, `MCTree` | `tree.c`, `tree.h` | `node` is the heap of its nodes, with child lists; every allocation of a call may fail; refines `PathMap` |
| `Fifo`, `DoubleEnded`, `Dictionary`, `PriorityList`, `Lists`, `PathMap` | the headers' promises | abstract specifications |
| `Lemmas`, `TableProofs` | - | lemmas on induction, recursion and sequences; on the operators of `Table` |
| `RingProofs` | - | lemmas on the operators of `Ring`, the theorems on `Queue` and `Deque` |
| `ArraysProofs` | - | lemmas on the operators of `Buffer`, the theorems on `Arrays` and on `FreeList` |
| `UMapProofs`, `UMapStrProofs`, `PriorityQueueProofs`, `TreeProofs` | - | the theorems on the module in the name |

Abstractions. Elements and values are members of small sets. Zeroed memory is
`Zero`, freed memory and memory behind the buffer is `Junk`. FNV-1a is
abstracted to the two results the map uses: `H1`, the start of a key's chain,
and `H2`, its tag; the hash of strings is computed, as its defect is one of the
things looked at. A key of a tree is the sequence of its tokens. A step of a
client that cannot be made in C (an index out of range that the header's
function would dereference) is not offered. In the ring, a read behind the
buffer gives `Junk`; in `Arrays`, a read through a pointer into a freed buffer
gives the element or `Junk`. Sizes in bytes and their overflow tests are left
out (see 7).

Some functions of the code are subtle enough to state what the model says of
them:

* `_queue_remove` clamps the head to the tail if the head is not beyond the tail
  and would get beyond it (`DropAtHead`). A full ring has head = tail, so the
  clamp strikes there, unless the new head wraps to 0.
* `_free_list_bit_clr(list, index+i)` lacks parentheses: it clears bit `index`
  of byte `index`, i.e. slot `9 * index` while that byte is in the bitmap, or a
  bit of an element (`ClearedSlots`, `ClobberedCells`).
* `_umap_str_hash` shifts its mask by a count of bytes where bits are meant, so
  that it clears the low four bits after every character. Only bits 4 to 6 of a
  key's last character reach the tag (`Look`).
* `_tree_find_node` uses `strtok_r` on the client's own string and cuts it after
  its first token. The tokens of a call are the sequence in `Path`; the cut
  string is another member of `Path` (`PathAssumption`).
* `tree_delete` expands to `_tree_clear`, whatever its key, and `tree_clear` to a
  `_tree_delete` of everything: the actions `TreeDelete` and `DeleteAll`. Nothing
  in the header leads to `_tree_delete` of a path; the action `Delete` is a
  client's call of the function itself.
* `_priority_queue_find_index` has the result `capacity` for a miss and does not
  look at it before it compares data there, behind the buffer (`ReadsBehind`).
* `_priority_queue_it_prev` compares before it adds one, and goes one beyond the
  top.

## 3. Runs

| Run | Specification | Instance | Shows |
|---|---|---|---|
| `queue_fifo` | `CarefulSpec` | capacities 1, 2, 4; two elements | a queue that is not popped at a full ring is a FIFO (`IsFifo`), head, tail and length agree (`RingAgrees`) through wraps, resizes and failed resizes, and a resize copies from the buffer only (`CopyStaysInside`) |
| `deque` | `DequeSpec` | same | the client that avoids full rings when it pops and position 0 when it pushes at the back has a double-ended queue (`IsDeque`); `RingAgrees` and `CopyStaysInside` as above |
| `free_list` | `ListSpec` | default capacity 8, 4-byte elements | `FirstFit`, `LengthWithinUsed`, `HeldIsUsed`, `NeverGrows`, `JamEndsAtSlotZero` for any client |
| `umap` | `MCSpec` | 8 slots growing to 16; three keys, two with one tag, chains that overlap and wrap | keys with a tag of their own form a dictionary (`IsDictionary`); an empty slot always remains, chains are unbroken, the counters cover the slots, only a clash can hang (`EmptySlotRemains`, `ChainsUnbroken`, `CountersCover`, `HangIsAClash`); a rehash ends (`RehashEnds`) |
| `umap_str` | `MCSpec` | 8 slots growing to 16; keys "Aa", "Ab", "A1"; at most five strings in memory | every live slot owns a string (`EverySlotOwnsAString`); strings are lost a table at a time (`StringsLostByTable`); a probe spins only at a key with the same bits in its last character (`HangIsALookalike`); a key of its own tag is forgotten only by a rehash without memory for it (`IsForgetfulDictionary`) |
| `pqueue` | `SafeSpec` | capacities 2, 4; three values | a sorted list of pairs, later pushes first among equals, and an iteration that visits each pair once while others are popped, or pushed above it (`IsPriorityList`); the binary search for a stored value finds it if two pairs have it, and if a single pair has it finds it or misses it (`OnlySingleValuesAreMissed`) |
| `arrays` | `MCSpec` | vector capacities 1, 2, 4; stack of at most two | stack and vector are the lists of `Lists`, also when elements are copied within a container that has room (`AreLists`) |
| `tree` | `Spec` | heap of five nodes; paths of up to three tokens, with a fork | the length counts the nodes (`LengthCountsNodes`); they stay a tree (`IsTree`) that its print shows (`PrintShowsPaths`); failed inserts and deletes of subtrees lose no node (`NothingLostPiecemeal`); the tree is a map closed under prefixes, as far as `tree.h` and `tree.c` agree on one (`IsPathMap`) |

Four runs are expected to find their property *violated*: each states what a
header says of a call, and the code does otherwise. `PROJECT.json` quotes both
sides.

| Run | Specification | Shows |
|---|---|---|
| `queue_full_pop` | `Spec` | a pop of a full ring returns the same front twice (`IsFifo`) |
| `free_list_remove` | `ListSpec` | remove does not free its slot; neither does a clear free all of them (`RemoveFreesSlot`) |
| `umap_clash` | `Spec` | a key whose tag clashes is not found (`IsDictionaryForAll`) |
| `pqueue_remove` | `Spec` | a removal by value separates other values from their data (`RemoveTakesThatValue`) |

The passing run next to each of them uses a client that stays away from the place,
or an abstract specification that grants it (below); the guards that describe such
a client are `PopIsSafe`, `PopFrontIsSafe`, `PopBackIsSafe`, `PushBackIsSafe`,
`SafeForStack`, `SafeForVector`, `PushIsSafe` and `ItValueIsSafe`.
What the careful client gives up is part of the result.
`CarefulNext` of `Deque`, for instance, excludes `PushBack` at head 0 because
`deque.c:88` would store behind the buffer, and `SafeNext` of `PriorityQueue`
pushes below an iterator only into a full queue, because a push in place moves
other pairs under it (one that grows frees the queue it points to, and the client
drops it).

### Where a passing run does not mean that the header is kept

Each of these calls departs from its header whenever it is made, or for a client
that the runs exclude. The runs neither assert the header's sentence nor its
contrary: the abstract specification allows both, or the client does not make
the call.

| Code | The header, or a comment, says | What the code does | In the runs |
|---|---|---|---|
| `queue.c:42` | `queue.c:40` "one copy will get everything" | after pops of a full ring (head 1, tail 2, length 4, capacity 4) the copy reads behind the buffer | excluded by `PopIsSafe`; `CopyStaysInside` fails under `Spec` |
| `deque.h:30` | `deque.h:27` "Get the front element of the deque." | reads the slot behind it | `DoubleEnded` leaves `GetFront`'s answer open |
| `deque.c:88` | `deque.h:43` "Add an element to the back of the deque." | at head 0 stores behind the buffer | excluded by `PushBackIsSafe` |
| `deque.c:101`, `112` | `deque.h:53` "Remove the element at the back of the deque.", and of the front | a pop of a full ring can remove the other end | excluded by `PopFrontIsSafe`, `PopBackIsSafe` |
| `vector.c:72` | `vector.h:74` "Remove the element at the end of the vector.", `vector.h:94` "Remove all elements from the vector." | nothing | `Lists` lets a removal that ends at the last element do nothing |
| `vector.c:64`, `stack.c:54` | `stack.h:32` "Add a new element to the top of the stack." | an element of the container's own is read from freed, or shifted, memory | excluded by `SafeForVector`, `SafeForStack` |
| `priority_queue.c:157`, `167` | `priority_queue.h:47` "Void data pointer to inserted element, or NULL on failure" | a push that stored its pair may compare behind the buffer and return NULL | `PriorityList` lets a push return NULL; `OnlySingleValuesAreMissed` says when |
| `priority_queue.c:160` | `priority_queue.h:93` "starting at the given value" | the iterator may start at a popped pair | excluded by `ItValueIsSafe` |
| `priority_queue.c:250` | `priority_queue.h:103` "Move the iterator to the previous element." | from the top it moves behind the last pair | `PriorityList` lets it show anything once |
| `unordered_map.h:67` | `unordered_map.h:60` "Get the number of elements in the map." | a clear keeps the length | `CountersCover` bounds it from below |
| `unordered_map_str.h:66`, `unordered_map_str.c:53` | `unordered_map_str.c:242` "Deallocate all strings" | clear and resize drop a table with its strings | `StringsLostByTable` leaves out these two |
| `unordered_map_str.c:48` | `unordered_map_str.h:48` "Find the element if it exists in the map." | a rehash without memory for a key's copy drops the key | `ForgetfulSpec` forgets it |
| `tree.c:132` | `tree.h:41` "Add a new element to the tree if it does not already exist." | the element that is there is overwritten | `PathMap` allows the old and the new element |
| `tree.h:60` | `tree.h:56` "Remove the element from the tree." | `tree_delete` removes all elements | `PathMap` allows both |
| `tree.c:195` | `tree.h:66` "Get the depth of a certain node in the tree." | -1, as the key has lost its separators | `PathMap` allows any depth |
| `tree.c:216` | `tree.h:73` "Get the deepest node in the tree.", `tree.h:75` "@return Tree depth" | the number of nodes minus one | `PathMap` allows any depth |
| `tree.c:95`, `153` | `tree.h:37` "Deallocate a tree." | without memory for its worklists a destroy loses the nodes | `NothingLostPiecemeal` leaves it out |

Besides, `Lists` lets a swap do nothing when there is no memory, and in `PathMap`
a failed insert leaves the prefixes it made, a delete without memory does
nothing, and `tree_clear` leaves a tree that takes no more calls (`DeleteAll`
sets the length to 0).

### Bounds, and why they are enough

* Rings: `HeapLimit = 4` with default capacity 1 gives two resizes (1 to 2 to
  4), a resize that wraps and one that does not, and a full buffer that can no
  longer grow. All positions modulo 4 occur with all lengths. The
  proofs lift this bound, and those of the other runs.
* Free list: the library's own default capacity; `HeapLimit = 32` would let it
  grow. More than 9 slots is a different case, see `NoSlotHasTwoOwners` below.
* Hash map: `HeapLimit = 16` allows one rehash, from 8 to 16 slots. Tags `H2`
  are shared by `a` and `b`; all three chains begin at the last slot of the
  small table, those of `a` and `c` at the last slot of the large one and `b`'s
  in its middle, so that probes wrap, overlap and pass deleted slots, and a
  clash in the small table is none in the large one. `LoadBound = 8` in `MCUMap`
  lets the load reach the threshold 7 of the first table and the insert that
  resizes. The client stores `v2` only under `c`, the key whose values are
  followed.
* String map: "Aa" and "Ab" have one hash, "A1" another tag; all chains start at
  the last slot but one. `StringLimit = 5` lets strings run out at every place
  that allocates one, also in the middle of a rehash, and leaves room for the
  copies that clears and rehashes lose. `LoadBound` is 7 in the small table, the
  threshold, and 4 in the large one. `HashRange` is 2^27 for the code's 2^32, as
  TLC's integers have 32 bits and the hash is shifted by four before it is cut;
  the tags are the same, and the proofs hold for every multiple of 256.
* Tree: five addresses run out within an insert, between inserts and for the
  root of a clear; the paths have a chain of three, a fork at its end and a
  sibling of its first node. Lost nodes keep their addresses, so that the heap
  also shrinks. There is one element: no call compares two of them, and `Zero`
  tells a path that was stored at from one on the way.
* Priority queue: three values with two elements make equal values with equal
  and with different data; four places make every path of the binary search. In
  `pqueue_remove` the values differ from the elements, so that one read as the
  other is seen. One iterator at a time: an iterator reads the queue and changes
  nothing in it.
* Arrays: as for the rings; `StackBound = 2` makes the stack grow once and then
  use its last element, and keeps the product with the vector small.

### Fairness

Only `umap` has a liveness property. `MCSpec` has weak fairness on `hung = NULL
/\ Rehash`: a C function runs on until it returns. Nothing is assumed of the
client, which may stop calling at any time, nor of the allocator. A probe that
does not end is a state, `hung # NULL`, in which the program makes no more
steps: all runs of the two maps therefore have `CHECK_DEADLOCK FALSE`. The other models always have a next step.

## 4. What is proved

All theorems hold for every value of the constants that satisfies these named
assumptions; TLC evaluates each of them on the instances of the runs.

* `Common`'s `GrowthAssumption`: capacities are positive, a grown capacity
  exceeds the old one and is at most `HeapLimit`.
* `FreeList`'s `ElementAssumption`: an element has at least one byte.
* `Table`'s `HashAssumption`, `SlotAssumption`, `CapacityAssumption`: a hash map
  has 8 slots or more and grows to twice as many at least, the hash is any
  function to the numbers, the marks of empty and deleted slots are no nodes.
* `UMapStr`'s `KeyAssumption` (keys are strings of the codes 1 to 127) and
  `StringHash`: here the hash is no free parameter but the function that the
  code computes. `HashRangeAssumption`: it is cut to a whole number of bytes, as
  the 32 bits of the code. `PendingAssumption`: NULL is no insert under way.
* `PriorityQueue`'s `NumberAssumption` (values and elements are integers, and
  the model's marks are not) and `IteratorAssumption`: NULL is no iterator.

* `Tree`'s `PathAssumption` (keys are sequences of tokens, and with a key the
  client passes the string that `strtok_r` leaves of it), `HeapAssumption`
  (addresses are numbers, finitely many) and `NullAssumption`: NULL is no
  address, no element and no tree.

The assumptions about NULL and other marks are about the model's values: the
code has null pointers there, which differ from every object.

**`Lemmas`.** The proofs cannot use the library's induction theorems, which take
a predicate as a parameter. `InductionUpTo` says the same of a set: one that has
0, and `i` whenever it has `i - 1`, has all of `0..n`; it follows from the least
element of what is missing (`LeastElement`). `Recursion` says that a function
defined at `i` by its value at `i - 1` exists and stays in a set that its steps
stay in. With these two, the loops that the models have as recursive functions
can be unfolded: the hash of a string (`HashUnfolds`), the insertion sort
(`SortedUnfolds`), the binary search (`SearchUnfolds`). The other lemmas write
the operations on sequences that the abstract specifications use as functions on
indices.

**`RingProofs`, the queue.** `TypeCorrect` (`Spec => []TypeOK`) says that the
fields stay in range for any client, so that a push stores in the buffer and the
front is read from it: `IsRing` is kept by each of `StoreAtTail`, `Resized` and
`DropAtHead` (lemmas `StoreKeepsRing`, `ResizeKeepsRing`, `DropKeepsRing`), and it
is inductive by itself. It does not say so of what a resize reads: that is
`CopyStaysInside`, which fails for a client that pops full rings (section 3), and
which `CarefulCopyStaysInside` and `DequeCopyStaysInside` prove for the
careful ones. There head and tail of a full ring are equal, so that the copy goes
around the end of the buffer (`CopiesAround`, `CopiesInside`).
`CarefulRingAgrees` needs `TypeOK /\ RingAgrees`: that tail and head are
`length` places apart is what makes `tail <= head` in the resize mean "wrapped",
what makes a store hit a free cell, and what `PopIsSafe` protects from the
clamp. `CarefulQueueIsFifo` is the refinement of `Fifo`: with the mapping `items
<- Elements(qu)` a store appends (`StoreAppends`), a resize changes nothing
(`ResizeKeepsElements`), a drop takes the head (`DropTakesHead`,
`DropTakesAll`), and every step of `CarefulSpec` maps to a step of `Fifo` or a
stutter. The arithmetic is in `ModSmall`, `ModWraps`, `Around`, `NextAround` and
`ApartAround`: positions modulo the capacity.

**`RingProofs`, the deque.** The invariant is the same (`IInv == TypeOK /\
RingAgrees`), so are the lemmas on the common ring; for the other end, a store at the head prepends (`StorePrepends`), a drop at the tail
takes the last element (`DropTakesLast`). `DequeRingAgrees` and
`CarefulDequeIsDeque` hold for the client of the run.

**`ArraysProofs`, stack and vector.** `IInv` says more than `TypeOK`: every position below the
length holds an element of the client (`IsUsed`), so that no pointer a careful
client passes leads to memory nobody wrote. Then `ArraysTypeOK`, and
`CarefulArraysAreLists`: an insertion into a buffer that was resized or not
appends (`InsertAppends`) or prepends (`InsertPrepends`), the source element is
read unharmed where `SafeForStack` or `SafeForVector` holds (`SourceElement`),
and each call maps to one of `Lists`.

**`ArraysProofs`, the free list.** The inductive invariant `ListInv` joins
`ListTypeOK`, `FirstFit` and `LengthWithinUsed` with `list.capacity = DefaultCapacity`. `FirstFit` says
that all slots below `next_free` are in use; `LengthWithinUsed` that the length,
which every remove lowers, stays within the number of used bits, which a remove
lowers by at most one, and only when it hits. Together they give
`RoomForInsert`: when `next_free` is free the length is below the capacity, so
that the branch which resizes cannot be reached. Hence `BufferIsNeverReplaced`.
`OnlySlotZeroUnjams` follows because a jammed list has no free slot below
`next_free`, and a remove makes `next_free` its own index: only index 0 clears
its own bit. `NoSlotHasTwoOwners` needs at most 9 slots, as only then does a
wrong bit never hit a slot of another owner (bit `9 * index`). The default
capacity of 8, which the run uses, is among them.

**`TableProofs`, `UMapProofs`.** The heart is `GoodTable`: the fields are in
range; the load count is at least the number of slots that are not Empty, the
length at least the number of live ones; the load is below the capacity; and
`ChainLeadsTo` for every live slot. The counting gives `GoodHasEmpty`: as the
load count never goes down, not even when a slot is deleted, it bounds the used
slots from above, and the load factor of 7/8 with at least 8 slots leaves one
over. With an Empty slot on every chain (`ModReaches`: a chain passes every
position) a probe stops at it or at a tag that matches (`ProbeStops`), it finds
a stored key whose tag is its own (`ProbeFinds`), and if it stops elsewhere two
keys share a tag (`ClashSharesTag`). `NewIsGood`, `PlacedIsGood`,
`WithoutSlotIsGood`, `ClearedIsGood` say that the operations keep a table good;
the unbroken chains survive a placement because the first free slot of the chain
is taken, and a deletion because Deleted is not Empty. `IInv` is
`GoodTable(umap)` and, during a rehash, `Rehashing`: the new table is good, at
least twice as large and has a load of at most one per slot passed, so that it
cannot become overloaded; the insertions of a rehash never resize.
`MapInvariants` follows. `LoneKeysAreDictionary` needs `DInv`: a lone key
occupies one slot at most (`Single`), and the new table holds exactly the lone
nodes of the slots already passed (`Copying`), so that replacing the table at
the end changes nothing in the dictionary. Keys that share their tag are
excluded by `Lone`; for them `umap_clash` shows the opposite.

**`UMapStrProofs`.** The table is good for the same reasons, by the lemmas of
`TableProofs`, wherever an allocation of a key's copy fails. Three more things
are proved.

* The hash: after each character it is a multiple of 16 (`TurnOfHash`), so that
  of all characters but the last nothing remains in the low four bits, and the
  tag is `16 * Look(key)` (`TagOfHash`; 19 for the empty string). Equal tags
  therefore mean equal looks (`TagShowsLook`), and `HangIsALookalike` follows as
  `HangIsAClash` does for the other map. The width of the hash does not matter as
  long as cutting it leaves its lowest byte alone (`OverflowKeepsLowByte`).
* The strings: `Slots(t, k)` counts the live slots of a key, and each operation
  changes it by one at one key or not at all (`PlacedSlots`, `WithoutSlotSlots`).
  `EverySlotOwnsAString` is inductive together with the table's invariant
  (`IInv`), as a slot becomes live only after an allocation, and a string is
  freed only with the slot that it belongs to. `StringsLostByTable` is an action
  property: every step keeps the balance of each key (`SameLoss`), except those
  that drop a table, which lose exactly its strings (`TableLost`).
* The dictionary: `DInv` is that of `UMapProofs`, with the keys in
  `pending.dropped`, which the rehash has found no memory for, taken out of what
  is copied (`Copied`) and known to be below the next slot (`DroppedBelow`). At
  the end the new table holds all lone keys but those: the step of
  `ForgetfulSpec` that forgets.

`StringMapInvariants`, `StringsAreLostByTable` and `LoneStringsAreDictionary`
hold for any client: no step of it is excluded.

**`PriorityQueueProofs`.** `IInv` says that the values ascend up to the length
(`Ascending`), and that an iterator in range points to its own position or
nowhere. In a queue that is sorted up to its last pair all turns of the
insertion sort but the last do nothing, and the last one moves that pair down
past the larger ones (`SortedMovesLast`, `SortedTakesIn`): the pair ends where
`PriorityList` inserts it, above its equals (`TakesInInserts`). A resize sorts
what is sorted (`ResizedIsTheSame`). The binary search for a value that is in
the queue keeps it in its window, which loses a position at least with every
turn (`TurnStaysAround`), and so it does with all positions that have the value;
hence it ends, at one of them or, when the window shrinks to the one position it
should have looked at, without it (`SearchFinds`). That gives
`PriorityQueueInvariants`: the search's own reads are in the buffer, and a miss,
after which a push compares its data behind the buffer (`priority_queue.c:167`),
is of a value that one pair has. It also gives what a push
may return (`FindsTheData`) and that an iterator begins at the topmost pair of a
value (`FindsTheTopmost`). `SafeQueueIsPriorityList` maps each call to one of
`PriorityList`: a pop does not touch what a cursor shows, as its pairs stay in
the block behind the length; a push does not because `PushIsSafe` puts it above
the iterator. `RemoveValue` and the unrestricted pushes are not among the steps
of `SafeSpec`: `pqueue_remove` shows what they do.

**`TreeProofs`.** What makes this component hard to reason about is that its
properties speak of what can be reached in a graph that the steps change.
`Reached(nodes, n)` is the least set that has `n` and the children of its
members; being the least, it can be used without induction: what is closed
contains it (`ReachedLeast`), and all of its members but `n` have a parent in it
(`ReachedParent`).

* `IInv` says more than the properties, and of more nodes. All allocated nodes,
  the ones that were lost included, form a heap of trees (`IsHeap`): each is in
  range, its children are all different and have different keys, and no
  two nodes share a child (`OneParent`). That holds of lost trees too, as
  `Min(Free)` is an address no allocated node points to. In the heap of an open
  tree (`IsCounted`) the root is a node without a buffer and thus nobody's child
  (`IsRooted`), the length is the number of reached nodes, and each of them but
  the root is at the end of one of the map's paths (`IsPathed`).
* An insert changes the heap once per token. `Enter` either finds a child, or
  adds a leaf (`LinkedIsHeap`), which becomes reached and changes nothing else
  (`LinkedReached`, `ReachedWithLeaf`), or stops. `WalkSound`, by induction on
  the tokens of the key (`PathInduction`), says of every outcome of a walk that
  the heap, the count and the lost nodes are right, and which elements
  each path has: zero bytes on the way that is new, and what was there elsewhere
  (`IsExtended`), as far as the walk got (`IsStopped`) or all the way
  (`IsArrived`).
* A delete frees `Reached(node, n)` and takes `n` from its parent's children. In
  a heap of trees nobody but that parent points into the freed part, so that no
  pointer dangles (`PrunedFacts`) and the others stay reached (`ReachedPruned`).
  The paths that lead into the freed part are those with the deleted one as a
  prefix (`BelowIsPrefix`), and the others lead where they led (`NodeAtPruned`).
* `TreeCorrect` is three of the invariants of the run, `NoNodeIsDropped` the action
  property: `Kept` says of each step that what is lost afterwards is what was
  lost before, or, after a clear or a destroy, all there is.
* `TreeIsPathMap` maps each call of any client to one of `PathMap`. What `PathMap`
  leaves open (section 3) is not proved: which element a second insert leaves,
  what a depth is, what is left after the macro `tree_delete`.
* `NodeAtInjective` and `IsPathed` make paths and nodes correspond one to one: the
  number of nodes is the number of paths plus the root (`CountPaths`), which the
  print's number of lines needs.
* `PrintIsRight`: what `_tree_print` writes, read back by its indentation, is the
  set of the tree's paths. `FlattenSeq` and the recursion of `PrintedLines` are
  chosen functions; `Recursion` (`Lemmas`) shows that there are functions which
  solve their equations, and with them what they are (`FlattenUnfolds`,
  `LinesUnfold`). `Shows(L, f, k, S)` says that the lines `L` show the paths `S`,
  path `f[j]` on line `j`, and that from position `k + 1` on the closest line
  above of each level has the path's token; `ReadIsShown` turns that into
  `ReadPath`. The text of a node (`IsBlock`) shows its own path and all beyond
  it: `BlockStep` adds the children's texts one by one, `ShowsJoined` being the
  reason why a later sibling does not hide an ancestor, and `BeyondParts` why
  nothing is shown twice or not at all. The recursion counts levels, and
  `PathIsShort` shows that it does not run out of them: the nodes along a path
  are all different. It does not use that the root has its key: the lines below
  it are right after a clear as well, when the program no longer gets to them.

All calls of `Next` are covered: no client is excluded, and no allocation but
those of a print.

## 5. What is only model-checked

* `RehashEnds`: liveness under fairness is beyond TLAPS.
* What the violated runs show: a counterexample needs no proof.

## 6. What remains

* The bytes of a node of `unordered_map.c` (`_umap_node_size`), which need a
  model of slots in bytes.
* The iterators of the free list and the maps, once `free_list_it` and its like
  pass the pointer that the callee expects.

## 7. What is not modelled, and why

* Iterators of the free list and the maps: `free_list_it` and its like pass the
  address of a local where the callee expects the pointer itself. What follows
  is undefined and has no bounded set of outcomes.
* Byte sizes: `_*_size` and its overflow tests, the rounding of
  `_umap_node_size`, `*_bytes`. The models have slots, not bytes; the one place
  where bytes matter to the control, the clobbered element of `free_list`, is
  modelled with `ElementSize`, and the priority queue with 4-byte elements, the
  size of a value, as in `test/main.c`.
* A build that lowers `*_MAX_CAPACITY` below what the heap can hold:
  `GrowthAssumption` excludes it. `Resized` would then return the same capacity
  and the insert would store behind the buffer (`queue.c:24`, listed under
  hazards).
* Printing and serialising, except for what `_tree_print` shows of the tree
  (`PrintShowsPaths`). `_priority_queue_print` goes on with its iterator after
  the last step has freed it; `_tree_print` of a cleared tree reads through the
  root's NULL key, and one that runs out of memory (`tree.c:233`, `250`) takes the
  length of a NULL string (`tree.c:248`): `PrintShowsPaths` is about a print of a
  tree with keys that gets its memory; `_tree_serialize` follows the NULL entries of its worklist;
  `_tree_deserialize` is empty.
* Keys of a tree that begin with a separator, and an insert with no token, which
  writes through the root's NULL buffer.
* `vector_sort`, whose function is empty; `deque_clear`, whose function does not
  exist; `vector_insert`, which passes a pointer of the wrong type, so that an
  index inside the vector is never inserted at.
* NULL containers (every function returns at once) and destroy (frees the
  object; the model ends before it), but for the tree's destroy, which can lose
  nodes and is an action. The maps' destroy frees the table, and for strings the
  keys of its live slots, which `EverySlotOwnsAString` shows to be allocated.
* The sort's buffer for one element (`priority_queue.c:107`), which is used without
  a test: when there is no memory for it and two pairs or more are sorted, the
  program copies through NULL and ends. `Sorted` is a sort that has its buffer; a
  behaviour of the model may stop before any push or resize.
* The client's copy of a container pointer: the macros pass `&q` and the code
  writes the new address there, so the container has one owner in the models.

## 8. Running

    tlc -config queue_fifo.cfg MCQueue      # and so on: module and cfg in PROJECT.json
    tlapm UMapProofs.tla                    # and the seven other modules with proofs
