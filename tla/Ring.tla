-------------------------------- MODULE Ring --------------------------------
(***************************************************************************)
(* The circular buffer behind queue.c and deque.c, as operators on a       *)
(* record with the fields of queue_t, and the one container that uses it.  *)
(* A cell of the buffer holds a client element, Zero (CC_CALLOC's zero     *)
(* bytes) or Junk (bytes of the heap that do not belong to the buffer).    *)
(***************************************************************************)
EXTENDS Common, Sequences

CONSTANTS Data, Zero, Junk, NULL

Cell == Data \cup {Zero, Junk}

NewRing(c) ==
  [length |-> 0, head |-> 0, tail |-> 0, capacity |-> c,
   buffer |-> [i \in 0..c-1 |-> Zero]]

(* The element at position i; past the end of the buffer, whatever is there. *)
CellAt(q, i) == IF i < q.capacity THEN q.buffer[i] ELSE Junk

(* Slips: the test for a ring that wraps is < for <=, so that a full ring  *)
(* is copied in one part; or it is copied from the buffer's start on.      *)
CopiedUnwrapped(q, i) ==
  IF q.tail >= q.head \/ i < q.capacity - q.head
  THEN q.head + i
  ELSE i - (q.capacity - q.head)

CopiedFromStart(q, i) == i

(* The position from which a resize copies element i.  tail <= head is      *)
(* taken to mean that the elements wrap around: they are then copied in    *)
(* two parts, otherwise length elements in one part from the head on.      *)
CopiedFrom(q, i) ==
  LET qu_end == q.capacity - q.head
  IN  IF q.tail > q.head \/ i < qu_end THEN q.head + i ELSE i - qu_end

(* Slip: the copy keeps its old tail.                                      *)
ResizedKeepingTail(q) ==
  LET new_capacity == GrownCapacity(q.capacity)
  IN  [length |-> q.length, head |-> 0, tail |-> q.tail, capacity |-> new_capacity,
       buffer |-> [i \in 0..new_capacity-1 |->
                     IF i < q.length THEN CellAt(q, CopiedFrom(q, i)) ELSE Zero]]

(* The grown copy of a ring.                                               *)
Resized(q) ==
  LET new_capacity == GrownCapacity(q.capacity)
  IN  [length |-> q.length, head |-> 0, tail |-> q.length,
       capacity |-> new_capacity,
       buffer |-> [i \in 0..new_capacity-1 |->
                     IF i < q.length THEN CellAt(q, CopiedFrom(q, i)) ELSE Zero]]

(* Slip: the tail does not wrap.                                           *)
StoreUnwrapped(q, d) ==
  [q EXCEPT !.length = @ + 1, !.tail = @ + 1, !.buffer = [@ EXCEPT ![q.tail] = d]]

StoreAtTail(q, d) ==
  [length |-> q.length + 1, head |-> q.head,
   tail |-> (q.tail + 1) % q.capacity, capacity |-> q.capacity,
   buffer |-> [q.buffer EXCEPT ![q.tail] = d]]

(* The head moves count places on, but never from behind the tail to       *)
(* beyond it.                                                              *)
DropAtHead(q, count) ==
  LET new_head == (q.head + count) % q.capacity
  IN  [length |-> q.length - count,
       head |-> IF q.head <= q.tail /\ new_head > q.tail
                THEN q.tail
                ELSE new_head,
       tail |-> q.tail, capacity |-> q.capacity, buffer |-> q.buffer]

(* The ranges of a ring's fields.                                          *)
IsRing(q) ==
  /\ q.capacity \in 1..HeapLimit
  /\ q.head \in 0..q.capacity-1
  /\ q.tail \in 0..q.capacity-1
  /\ q.length \in 0..q.capacity
  /\ q.buffer \in [0..q.capacity-1 -> Cell]

(* The tail is length places after the head.                               *)
Agrees(q) == q.tail = (q.head + q.length) % q.capacity

(* The elements between head and tail, the oldest first.                   *)
Elements(q) ==
  [i \in 1..q.length |-> q.buffer[(q.head + (i - 1)) % q.capacity]]

-----------------------------------------------------------------------------
VARIABLES
  qu,   (* *qu, the queue or the deque                                     *)
  out   (* the element the last call's returned pointer leads to, or NULL  *)

vars == <<qu, out>>

Init == qu = NewRing(DefaultCapacity) /\ out = NULL

(* A full ring is resized first; when that fails the push returns NULL and *)
(* nothing has changed.                                                    *)
PushRefused ==
  /\ qu.length >= qu.capacity
  /\ out' = NULL
  /\ UNCHANGED qu

(* The ring's fields stay within their ranges.  It says nothing of what a  *)
(* resize reads: see CopyStaysInside.                                      *)
TypeOK == IsRing(qu) /\ out \in Cell \cup {NULL}

(* The length, the head and the tail agree: the tail is length places      *)
(* after the head.  Every position that queue.c and deque.c compute relies *)
(* on it, across a resize and while both ends of a deque move both ways.   *)
RingAgrees == Agrees(qu)

(* The resize that the next push makes reads inside the buffer: every      *)
(* position it copies an element from is one of the ring's, wrapped or not. *)
CopyStaysInside ==
  qu.length = qu.capacity /\ CanGrow(qu.capacity, qu.length)
    => \A i \in 0..qu.length-1 : CopiedFrom(qu, i) \in 0..qu.capacity-1
=============================================================================
