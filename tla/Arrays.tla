------------------------------- MODULE Arrays -------------------------------
(***************************************************************************)
(* A stack_t and a vector_t of one client, which passes to each of them    *)
(* pointers to elements of its own, of the stack and of the vector.  The   *)
(* insertions read through such a pointer only after they have replaced    *)
(* the buffer or moved its elements.                                       *)
(***************************************************************************)
EXTENDS Stack, Vector

VARIABLE out   (* the last call: the indices of the vector it was about,    *)
               (* the element its data pointer led to when it was called,   *)
               (* and the one it stored or handed back                      *)

vars == <<stk, vec, out>>

Call(at, given, got) == [at |-> at, given |-> given, got |-> got]

Init == StackInit /\ VectorInit /\ out = Call({}, NULL, NULL)

(* What a data pointer may lead to: an element of the client, the top of   *)
(* the stack (stack_head) or an element of the vector (vector_get).        *)
Source ==
  [of : {"client"}, at : Data]
    \cup [of : {"stack"}, at : {i \in {stk.length - 1} : stk.length > 0}]
    \cup [of : {"vector"}, at : Indices]

Element(src) ==
  CASE src.of = "client" -> src.at
    [] src.of = "stack"  -> stk.cell[src.at]
    [] src.of = "vector" -> vec.cell[src.at]

-----------------------------------------------------------------------------
(* What is read through src once the stack has grown: if it led to the     *)
(* stack, freed memory, which may still hold the element.                  *)
ReadByStack(src) ==
  IF IsFull(stk) /\ src.of = "stack" THEN {Element(src), Junk} ELSE {Element(src)}

PushStack(src) ==
  \/ \E d \in ReadByStack(src) :
       StackInsert(d) /\ out' = Call({}, Element(src), d) /\ UNCHANGED vec
  \/ StackRefuses /\ out' = Call({}, Element(src), NULL) /\ UNCHANGED vec

(* What is read through src for an insertion at index: the same, and in a  *)
(* vector that has not grown the elements behind index have moved by then. *)
ReadByVector(index, src) ==
  CASE src.of # "vector" -> {Element(src)}
    [] src.of = "vector" /\ IsFull(vec) -> {Element(src), Junk}
    [] src.of = "vector" /\ ~IsFull(vec) ->
         {vec.cell[IF index < src.at THEN src.at - 1 ELSE src.at]}

PushVector(index, src) ==
  \/ \E d \in ReadByVector(index, src) :
       VectorInsert(index, d) /\ UNCHANGED stk
         /\ out' = Call({index}, Element(src), d)
  \/ VectorRefuses /\ UNCHANGED stk /\ out' = Call({index}, Element(src), NULL)

PushBack(src) == PushVector(vec.length, src)

PushFront(src) == PushVector(0, src)

-----------------------------------------------------------------------------
(* The calls that take no data pointer.                                    *)
StackPop == StackRemove(1) /\ UNCHANGED <<vec, out>>

StackClear == StackRemove(stk.length) /\ UNCHANGED <<vec, out>>

StackTop == out' = Call({}, NULL, StackHead) /\ UNCHANGED <<stk, vec>>

Remove(i) ==
  VectorRemove(i, 1) /\ out' = Call({i}, NULL, NULL) /\ UNCHANGED stk

(* What any removal of the last element comes to.                          *)
RemoveIgnored(i, count) ==
  VectorIgnores(i, count) /\ out' = Call({i}, NULL, NULL) /\ UNCHANGED stk

(* vector_clear, of all elements.                                          *)
ClearVector == RemoveIgnored(0, vec.length)

Swap(i, j) ==
  VectorSwap(i, j) /\ out' = Call({i, j}, NULL, NULL) /\ UNCHANGED stk

(* vector_set copies from src into an element that stays where it is.      *)
Set(i, src) ==
  /\ VectorSet(i, Element(src))
  /\ out' = Call({i}, Element(src), Element(src))
  /\ UNCHANGED stk

Get(i) == out' = Call({i}, NULL, VectorGet(i)) /\ UNCHANGED <<stk, vec>>

Rest ==
  \/ StackPop
  \/ StackClear
  \/ StackTop
  \/ \E i \in Indices :
       \/ Remove(i) \/ RemoveIgnored(i, 1)
       \/ \E j \in Indices : Swap(i, j)
       \/ \E src \in Source : Set(i, src)
  \/ ClearVector
  \/ \E i \in 0..vec.length : Get(i)

Next ==
  \/ \E src \in Source : PushStack(src) \/ PushBack(src) \/ PushFront(src)
  \/ Rest

Spec == Init /\ [][Next]_vars

(* A client that passes a container a pointer into itself only while the   *)
(* container has room, and to push_front only one to the first element.    *)
SafeForStack(src) == src.of = "stack" => ~IsFull(stk)

SafeForVector(index, src) ==
  src.of = "vector" => ~IsFull(vec) /\ src.at <= index

CarefulNext ==
  \/ \E src \in Source :
       \/ SafeForStack(src) /\ PushStack(src)
       \/ SafeForVector(vec.length, src) /\ PushBack(src)
       \/ SafeForVector(0, src) /\ PushFront(src)
  \/ Rest

CarefulSpec == Init /\ [][CarefulNext]_vars

-----------------------------------------------------------------------------
(* The fields stay within their ranges.                                    *)
TypeOK ==
  /\ IsBuffer(stk)
  /\ IsBuffer(vec)
  /\ out \in [at : SUBSET Nat, given : Cell \cup {NULL}, got : Cell \cup {NULL}]

(* stack.h's and vector.h's promise, across both: every call does to the   *)
(* stack and the vector what it does to the lists they stand for, at the   *)
(* index it was given, and what it stores is the element it was given.     *)
(* A call that is to remove the vector's last element may do nothing.      *)
L == INSTANCE Lists WITH stack <- Content(stk), vector <- Content(vec)

AreLists == L!Spec

=============================================================================
