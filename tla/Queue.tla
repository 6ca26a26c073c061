------------------------------- MODULE Queue --------------------------------
(***************************************************************************)
(* queue.c: one queue_t and the client that calls queue.h's macros on it.  *)
(* The calls are synchronous and take no lock, so each is one step.        *)
(***************************************************************************)
EXTENDS Ring

(* queue_push.  A full queue is resized first.                             *)
PushInPlace(d) ==
  /\ qu.length < qu.capacity
  /\ qu' = StoreAtTail(qu, d)
  /\ out' = d

PushGrown(d) ==
  /\ qu.length >= qu.capacity
  /\ CanGrow(qu.capacity, qu.length)
  /\ qu' = StoreAtTail(Resized(qu), d)
  /\ out' = d

Push(d) == PushInPlace(d) \/ PushGrown(d) \/ PushRefused

(* _queue_remove; a count beyond the length is ignored.                    *)
Remove(count) ==
  /\ qu.length >= count
  /\ qu' = DropAtHead(qu, count)
  /\ UNCHANGED out

Pop == Remove(1)

Clear == Remove(qu.length)

(* queue_head.                                                             *)
Front ==
  /\ out' = IF qu.length > 0 THEN CellAt(qu, qu.head) ELSE NULL
  /\ UNCHANGED qu

Next == (\E d \in Data : Push(d)) \/ Pop \/ Clear \/ Front

Spec == Init /\ [][Next]_vars

-----------------------------------------------------------------------------
(* A full ring has head = tail, which DropAtHead reads as an empty one: it *)
(* clamps the head to the tail unless the new head wraps to 0.  A client   *)
(* that pops only when this holds never meets the clamp.                   *)
PopIsSafe == qu.length = qu.capacity => qu.head + 1 = qu.capacity

CarefulPop == PopIsSafe /\ Pop

CarefulNext == (\E d \in Data : Push(d)) \/ CarefulPop \/ Clear \/ Front

CarefulSpec == Init /\ [][CarefulNext]_vars

-----------------------------------------------------------------------------
(* queue.h's promise: the queue is a FIFO of the pushed elements, and what *)
(* push and head return belongs to it.                                     *)
F == INSTANCE Fifo WITH items <- Elements(qu)

IsFifo == F!Spec
=============================================================================
