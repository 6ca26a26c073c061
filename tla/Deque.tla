------------------------------- MODULE Deque --------------------------------
(***************************************************************************)
(* deque.c: one deque_t and the client that calls deque.h's macros on it.  *)
(* Its resize and its two ends at head and tail are those of queue.c.  The *)
(* tail is the front of the deque, the head its back.  deque_clear expands *)
(* to a function that does not exist: no program can call it.              *)
(***************************************************************************)
EXTENDS Ring

(* Slip: stores before the head has moved.                                 *)
StoreThenMove(q, d) ==
  [q EXCEPT !.length = @ + 1, !.head = @ - 1, !.buffer[q.head] = d]

(* The end of _deque_insert_back.  From position 0 the head moves to the   *)
(* position at capacity, one behind the buffer's last.                     *)
StoreAtHead(q, d) ==
  LET head == IF q.head = 0 THEN q.capacity ELSE q.head - 1
  IN  [length |-> q.length + 1, head |-> head, tail |-> q.tail,
       capacity |-> q.capacity,
       buffer |-> [i \in 0..q.capacity-1 |-> IF i = head THEN d ELSE q.buffer[i]]]

(* Slip: <= for <.                                                         *)
DropAtTailLate(q, count) ==
  LET new_tail == IF q.tail <= count THEN q.capacity - count + q.tail
                                     ELSE q.tail - count
  IN  [q EXCEPT !.length = @ - count,
                !.tail = IF q.head <= q.tail /\ new_tail < q.head
                         THEN q.head ELSE new_tail]

(* The tail moves count places back, but never from beyond the head to     *)
(* behind it.                                                              *)
DropAtTail(q, count) ==
  LET new_tail == IF q.tail < count THEN q.capacity - count + q.tail
                                    ELSE q.tail - count
  IN  [length |-> q.length - count, head |-> q.head,
       tail |-> IF q.head <= q.tail /\ new_tail < q.head
                THEN q.head ELSE new_tail,
       capacity |-> q.capacity, buffer |-> q.buffer]

-----------------------------------------------------------------------------
(* The deque an insertion finds room in: the one there is, or a grown one. *)
HasRoom(q) ==
  \/ q = qu /\ qu.length < qu.capacity
  \/ /\ q = Resized(qu)
     /\ qu.length >= qu.capacity
     /\ CanGrow(qu.capacity, qu.length)

(* _deque_insert_front and _deque_insert_back.                             *)
PushFront(d) ==
  \E q \in {qu, Resized(qu)} : HasRoom(q) /\ qu' = StoreAtTail(q, d) /\ out' = d

PushBack(d) ==
  \E q \in {qu, Resized(qu)} : HasRoom(q) /\ qu' = StoreAtHead(q, d) /\ out' = d

(* _deque_remove_front and _deque_remove_back, always of one element.      *)
PopFront ==
  /\ qu.length >= 1
  /\ qu' = DropAtTail(qu, 1)
  /\ UNCHANGED out

PopBack ==
  /\ qu.length >= 1
  /\ qu' = DropAtHead(qu, 1)
  /\ UNCHANGED out

(* deque_front reads at the tail, where the next element will be stored.   *)
GetFront ==
  /\ out' = IF qu.length > 0 THEN CellAt(qu, qu.tail) ELSE NULL
  /\ UNCHANGED qu

GetBack ==
  /\ out' = IF qu.length > 0 THEN CellAt(qu, qu.head) ELSE NULL
  /\ UNCHANGED qu

-----------------------------------------------------------------------------
(* As in queue.c, head = tail in a full ring and the pops take it for an   *)
(* empty one, unless the position they compute wraps around.               *)
PopFrontIsSafe == qu.length = qu.capacity => qu.tail = 0

PopBackIsSafe == qu.length = qu.capacity => qu.head + 1 = qu.capacity

(* No room at position -1: neither at the start nor in a grown buffer.     *)
PushBackIsSafe == qu.head > 0 /\ qu.length < qu.capacity

DequeNext ==
  \/ \E d \in Data : PushFront(d) \/ (PushBackIsSafe /\ PushBack(d))
  \/ PushRefused
  \/ PopFrontIsSafe /\ PopFront
  \/ PopBackIsSafe /\ PopBack
  \/ GetFront
  \/ GetBack

(* A client that keeps to what deque.c gets right.                         *)
DequeSpec == Init /\ [][DequeNext]_vars

-----------------------------------------------------------------------------
(* deque.h's promise as far as deque.c keeps it, with the elements between  *)
(* head and tail: see DoubleEnded.                                         *)
D == INSTANCE DoubleEnded WITH items <- Elements(qu)

IsDeque == D!Spec

=============================================================================
