---------------------------- MODULE PriorityQueue ---------------------------
(***************************************************************************)
(* priority_queue.c: one priority_queue_t and the client that calls        *)
(* priority_queue.h's macros on it.  _buffer holds a block of int32 values *)
(* and then a block of elements, which are 4 bytes long here, as in        *)
(* test/main.c: an element read as a value is that number.                 *)
(***************************************************************************)
EXTENDS Common, Integers, SequencesExt

CONSTANTS
  Value, Data,   (* the client's values and elements, numbers               *)
  NULL,
  Lost,          (* a search that has left the buffer                       *)
  Junk           (* an element read behind the buffer                       *)

Number == Value \cup Data \cup {0}

ASSUME NumberAssumption ==
  Number \subseteq Int /\ NULL \notin Int /\ Lost \notin Int /\ NULL # Lost

(* An iterator, and what the client sees of it.                            *)
Iterator == [index : Nat, data : Nat \cup {NULL}, value : Number]

Cursor ==
  [below : Seq([value : Number, data : Number]),
   shown : [value : Number, data : Number \cup {NULL, Junk}]]

ASSUME IteratorAssumption == NULL \notin Iterator \cup Cursor

VARIABLES
  qu,   (* *qu; the pair at i is (qu.value[i], qu.data[i])                  *)
  it,   (* *it, the iterator in the client's hands, or NULL; it.data is the *)
        (* position that the pointer leads to                               *)
  out   (* the pair, or the part of it, that the last call handed back      *)

vars == <<qu, it, out>>

Pair(v, d) == [value |-> v, data |-> d]

Positions(q) == 0..q.capacity-1

-----------------------------------------------------------------------------
NewQueue(c) ==
  [length |-> 0, capacity |-> c,
   value |-> [i \in 0..c-1 |-> 0], data |-> [i \in 0..c-1 |-> 0]]

Init == qu = NewQueue(DefaultCapacity) /\ it = NULL /\ out = Pair(NULL, NULL)

(* The pair at i re-inserted at j, the pairs between them one further up.  *)
Reinserted(q, i, j) ==
  LET from == [n \in Positions(q) |-> CASE n = j        -> i
                                        [] n \in j+1..i -> n - 1
                                        [] OTHER        -> n]
  IN  [length |-> q.length, capacity |-> q.capacity,
       value |-> [n \in Positions(q) |-> q.value[from[n]]],
       data |-> [n \in Positions(q) |-> q.data[from[n]]]]

(* Slips: the pair never moves to position 0; it moves past equal ones.    *)
MovedDownToOne(q, i) ==
  Reinserted(q, i, Min({j \in 1..i : \A n \in j..i-1 : q.value[n] > q.value[i]}))

MovedPastEquals(q, i) ==
  Reinserted(q, i, Min({j \in 0..i : \A n \in j..i-1 : q.value[n] >= q.value[i]}))

(* One turn of the insertion sort: down past the larger ones next to it.   *)
MovedDown(q, i) ==
  Reinserted(q, i, Min({j \in 0..i : \A n \in j..i-1 : q.value[n] > q.value[i]}))

(* _priority_queue_sort, of a queue that is not empty.  Its buffer for one *)
(* element comes from a CC_MALLOC that is not tested: without that memory, *)
(* a sort of two pairs or more copies through NULL and the program ends,   *)
(* as a behavior may after any step.                                       *)
Sorted(q) ==
  LET turn[i \in 0..q.length-1] == IF i = 0 THEN q ELSE MovedDown(turn[i-1], i)
  IN  turn[q.length-1]

Resized(q) ==
  LET c == GrownCapacity(q.capacity)
      Grown(block) == [i \in 0..c-1 |-> IF i < q.capacity THEN block[i] ELSE 0]
  IN  Sorted([length |-> q.length, capacity |-> c,
              value |-> Grown(q.value), data |-> Grown(q.data)])

-----------------------------------------------------------------------------
(* The window of the binary search, and r, what it has found: NULL while    *)
(* it goes on.                                                             *)
Window(lo, hi, r) == [lo |-> lo, hi |-> hi, r |-> r]

(* One turn of its loop, which ends when hi meets lo, without a look at    *)
(* that last position.  When they pass each other instead, hi - lo is a    *)
(* huge size_t and the search is Lost.                                     *)
Halved(q, value, w) ==
  LET md == w.lo + (w.hi - w.lo) \div 2
      lo == IF q.value[md] < value THEN md + 1 ELSE w.lo
      hi == IF q.value[md] < value THEN w.hi ELSE md - 1
  IN  Window(lo, hi, CASE q.value[md] = value              -> md
                       [] q.value[md] # value /\ lo = hi -> q.capacity
                       [] q.value[md] # value /\ lo < hi -> NULL
                       [] q.value[md] # value /\ lo > hi -> Lost)

(* The search: a position of value, or capacity.  Each turn leaves a       *)
(* smaller window, so there are at most as many as there are pairs.        *)
Search(q, value) ==
  LET window[n \in 0..q.length] ==
        IF n = 0 THEN Window(0, q.length - 1, NULL)
        ELSE IF window[n-1].r = NULL THEN Halved(q, value, window[n-1])
        ELSE window[n-1]
  IN  window[q.length].r

(* The last position of the run of equal values around r; the run is       *)
(* followed beyond the length, into values that were popped.               *)
RunEnd(q, r) ==
  Max({n \in r..q.capacity-1 : \A i \in r..n : q.value[i] = q.value[r]})

(* From r down to the first position with that data.  The data is compared *)
(* before the value, so the position below the run is a match, too.        *)
Match(q, r, value, data) ==
  LET n == Max({i \in 0..r : q.data[i] = data \/ i = 0 \/ q.value[i] # value})
  IN  IF q.data[n] = data THEN n ELSE q.capacity

(* Whether the search for a pair compares the element at capacity, which   *)
(* lies behind the buffer, with the data: it does after a miss.            *)
ReadsBehind(q, value, data) == data # NULL /\ Search(q, value) = q.capacity

(* _priority_queue_find_index: the positions it may return, capacity for   *)
(* none.  When it reads behind the buffer, any bytes may be there, and the *)
(* value at capacity is the first element.                                 *)
FindIndex(q, value, data) ==
  LET r == Search(q, value)
  IN  CASE r = Lost -> 0..q.capacity
        [] r \in Positions(q) ->
             {IF data = NULL THEN RunEnd(q, r)
              ELSE Match(q, RunEnd(q, r), value, data)}
        [] r = q.capacity ->
             {q.capacity} \cup IF ReadsBehind(q, value, data) /\ q.data[0] = value
                              THEN {Match(q, q.capacity - 1, value, data)}
                              ELSE {}

(* What a pointer to the element at r leads to.                            *)
DataAt(q, r) == Pair(NULL, IF r < q.capacity THEN q.data[r] ELSE NULL)

-----------------------------------------------------------------------------
(* _priority_queue_insert in a queue with room.  What it returns is the    *)
(* result of a search for the pair.                                        *)
InsertedIn(q, v, d) ==
  LET appended == [length |-> q.length + 1, capacity |-> q.capacity,
                   value |-> [q.value EXCEPT ![q.length] = v],
                   data |-> [q.data EXCEPT ![q.length] = d]]
  IN  /\ qu' = Sorted(appended)
      /\ \E r \in FindIndex(qu', v, d) : out' = DataAt(qu', r)

PushInPlace(v, d) ==
  qu.length < qu.capacity /\ InsertedIn(qu, v, d) /\ UNCHANGED it

(* The iterator points to the queue that the resize frees: the client, who *)
(* sees the queue move, drops it.                                          *)
PushGrown(v, d) ==
  /\ qu.length >= qu.capacity
  /\ CanGrow(qu.capacity, qu.length)
  /\ InsertedIn(Resized(qu), v, d)
  /\ it' = NULL

PushRefused ==
  /\ qu.length >= qu.capacity
  /\ out' = Pair(NULL, NULL)
  /\ UNCHANGED <<qu, it>>

Push(v, d) == PushInPlace(v, d) \/ PushGrown(v, d) \/ PushRefused

(* Slip: no test against the length.                                       *)
RemoveTopUntested(count) ==
  qu' = [qu EXCEPT !.length = @ - count] /\ UNCHANGED <<it, out>>

(* _priority_queue_remove takes pairs from the top.                        *)
RemoveTop(count) ==
  /\ qu.length >= count
  /\ qu' = [qu EXCEPT !.length = @ - count]
  /\ UNCHANGED <<it, out>>

Pop == RemoveTop(1)

Clear == RemoveTop(qu.length)

(* priority_queue_top_value and priority_queue_top_data.                   *)
Top ==
  /\ out' = IF qu.length > 0
            THEN Pair(qu.value[qu.length-1], qu.data[qu.length-1])
            ELSE Pair(NULL, NULL)
  /\ UNCHANGED <<qu, it>>

Find(v, d) ==
  /\ IF qu.length = 0 THEN out' = Pair(NULL, NULL)
     ELSE \E r \in FindIndex(qu, v, d) : out' = DataAt(qu, r)
  /\ UNCHANGED <<qu, it>>

(* The two memmoves of _priority_queue_remove_value.  The first one moves  *)
(* the rest of the value block and all of the data block by one value, the *)
(* second one moves the data block from r on once more.                    *)
Without(q, r) ==
  LET last == q.capacity - 1
      value == [i \in Positions(q) |-> IF i < r THEN q.value[i]
                                       ELSE IF i < last THEN q.value[i+1]
                                       ELSE q.data[0]]
      moved == [i \in Positions(q) |-> q.data[IF i < last THEN i+1 ELSE i]]
      data == [i \in Positions(q) |-> moved[IF r <= i /\ i < last THEN i+1 ELSE i]]
  IN  [length |-> q.length - 1, capacity |-> q.capacity,
       value |-> value, data |-> data]

RemoveValue(v, d) ==
  /\ qu.length > 0
  /\ \E r \in FindIndex(qu, v, d) :
       qu' = IF r < qu.capacity THEN Without(qu, r) ELSE qu
  /\ UNCHANGED <<it, out>>

-----------------------------------------------------------------------------
(* The iterator at position i.  The value at capacity is the first element, *)
(* which comes behind the last value.                                      *)
IteratorAt(i) ==
  [index |-> i, data |-> i,
   value |-> IF i < qu.capacity THEN qu.value[i] ELSE qu.data[0]]

(* _priority_queue_it at either end; there may be no memory for it.  Only   *)
(* its end frees an iterator: the client begins the next one after that.   *)
ItBegin ==
  /\ it = NULL
  /\ it' \in {NULL} \cup {IteratorAt(i) : i \in {qu.length - 1} \cap Nat}
  /\ UNCHANGED <<qu, out>>

ItRBegin ==
  /\ it = NULL
  /\ it' \in {NULL} \cup {IteratorAt(i) : i \in {0} \cap 0..qu.length-1}
  /\ UNCHANGED <<qu, out>>

(* _priority_queue_it_value: nothing is read at the position yet.          *)
ItValue(v) ==
  /\ it = NULL
  /\ it' \in {NULL} \cup
        {[index |-> r, data |-> NULL, value |-> 0] :
           r \in IF qu.length = 0 THEN {}
                 ELSE FindIndex(qu, v, NULL) \ {qu.capacity}}
  /\ UNCHANGED <<qu, out>>

(* Slip: the bottom pair is never visited.                                 *)
ItNextToOne ==
  /\ it # NULL
  /\ it' = IF it.index > 1 THEN IteratorAt(it.index - 1) ELSE NULL
  /\ UNCHANGED <<qu, out>>

(* Down to the bottom, where the iterator is freed.                        *)
ItNext ==
  /\ it # NULL
  /\ it' = IF it.index > 0 THEN IteratorAt(it.index - 1) ELSE NULL
  /\ UNCHANGED <<qu, out>>

(* Up to the position after the top, and freed there.                      *)
ItPrev ==
  /\ it # NULL
  /\ it' = IF it.index < qu.length THEN IteratorAt(it.index + 1) ELSE NULL
  /\ UNCHANGED <<qu, out>>

-----------------------------------------------------------------------------
(* A push moves up what is above the new pair.  A client that iterates     *)
(* pushes values that belong above its position only, or into a full queue. *)
PushIsSafe(v) ==
  it # NULL /\ qu.length < qu.capacity =>
    it.index < qu.length /\ qu.value[it.index] <= v

(* The search finds v where it is, and no popped v right above the top.    *)
ItValueIsSafe(v) ==
  /\ \E i \in 0..qu.length-1 : qu.value[i] = v
  /\ qu.length < qu.capacity => qu.value[qu.length] # v

SafeNext ==
  \/ \E v \in Value, d \in Data : PushIsSafe(v) /\ Push(v, d)
  \/ Pop
  \/ Clear
  \/ Top
  \/ ItBegin \/ ItRBegin \/ ItNext \/ ItPrev
  \/ \E v \in Value : ItValueIsSafe(v) /\ ItValue(v)

Next ==
  \/ SafeNext
  \/ \E v \in Value, d \in Data : Push(v, d)
  \/ \E v \in Value : ItValue(v)
  \/ \E v \in Value, d \in Data \cup {NULL} : Find(v, d) \/ RemoveValue(v, d)

Spec == Init /\ [][Next]_vars

(* A client that never removes by value, and iterates with care.           *)
SafeSpec == Init /\ [][SafeNext]_vars

-----------------------------------------------------------------------------
(* The fields stay within their ranges.                                    *)
TypeOK ==
  /\ qu.capacity \in 1..HeapLimit
  /\ qu.length \in 0..qu.capacity
  /\ qu.value \in [Positions(qu) -> Number]
  /\ qu.data \in [Positions(qu) -> Number]
  /\ it \in [index : 0..qu.capacity, data : 0..qu.capacity \cup {NULL},
             value : Number] \cup {NULL}
  /\ out \in [value : Number \cup {NULL}, data : Number \cup {NULL}]

(* What the search that ends every push does with the values in the queue. *)
(* Its window never turns inside out, and it finds every value that two    *)
(* pairs or more have.  Only one that a single pair has may be missed; for *)
(* that one the push then compares its data behind the buffer.             *)
OnlySingleValuesAreMissed ==
  \A i \in 0..qu.length-1 :
    /\ Search(qu, qu.value[i]) # Lost
    /\ \A d \in Data : ReadsBehind(qu, qu.value[i], d) =>
         \A j \in 0..qu.length-1 : qu.value[j] = qu.value[i] => j = i

(* priority_queue.h's promise: the pairs, sorted, with a pair of the       *)
(* highest value on top, each value with the data it was pushed with; and   *)
(* an iteration that visits each of them once, from the top to the bottom. *)
PairsBelow(n) == [i \in 1..n |-> Pair(qu.value[i-1], qu.data[i-1])]

Shown ==
  Pair(it.value, CASE it.data = NULL           -> NULL
                   [] it.data \in Positions(qu) -> qu.data[it.data]
                   [] it.data = qu.capacity    -> Junk)

L == INSTANCE PriorityList WITH
       items <- PairsBelow(qu.length),
       cursor <- IF it = NULL THEN NULL
                 ELSE [below |-> PairsBelow(it.index), shown |-> Shown]

IsPriorityList == L!Spec

(* priority_queue.h's promise of remove, for a pair that is there: no pair  *)
(* of another value is missing after it.                                   *)
Count(q, p) ==
  Cardinality({i \in 0..q.length-1 : Pair(q.value[i], q.data[i]) = p})

RemoveTakesThatValue ==
  [][\A i \in 0..qu.length-1 : RemoveValue(qu.value[i], qu.data[i]) =>
       \A p \in [value : Value \ {qu.value[i]}, data : Data] :
         Count(qu', p) >= Count(qu, p)]_vars
=============================================================================
