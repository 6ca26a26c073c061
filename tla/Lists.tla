------------------------------- MODULE Lists --------------------------------
(***************************************************************************)
(* What stack.h and vector.h promise a client of both: a "LIFO group of    *)
(* elements" and a "dynamically resizing array", between which it copies   *)
(* elements.  out is the last call: the indices of the vector, from 0, it  *)
(* was about; the element it was given; the one it stored or handed back.  *)
(* Ignore is there for vector.c only: vector.h has the calls that remove   *)
(* the last element do so.                                                 *)
(***************************************************************************)
EXTENDS SequencesExt, Integers

CONSTANTS Data, NULL

VARIABLES stack, vector, out

vars == <<stack, vector, out>>

Call(at, given, got) == [at |-> at, given |-> given, got |-> got]

Init == stack = << >> /\ vector = << >> /\ out = Call({}, NULL, NULL)

Push(d) ==
  /\ stack' = Append(stack, d)
  /\ out' = Call({}, d, d)
  /\ UNCHANGED vector

Pop ==
  /\ stack # << >>
  /\ stack' = Front(stack)
  /\ UNCHANGED <<vector, out>>

ClearStack == stack' = << >> /\ UNCHANGED <<vector, out>>

PushBack(d) ==
  /\ vector' = Append(vector, d)
  /\ out' = Call({Len(vector)}, d, d)
  /\ UNCHANGED stack

PushFront(d) ==
  /\ vector' = <<d>> \o vector
  /\ out' = Call({0}, d, d)
  /\ UNCHANGED stack

(* No memory for a larger stack or vector.                                 *)
Refuse(at, d) == out' = Call(at, d, NULL) /\ UNCHANGED <<stack, vector>>

Set(i, d) ==
  /\ vector' = [vector EXCEPT ![i+1] = d]
  /\ out' = Call({i}, d, d)
  /\ UNCHANGED stack

(* Or nothing, without memory for a copy of an element.                    *)
Swap(i, j) ==
  /\ vector' \in {vector,
                  [vector EXCEPT ![i+1] = vector[j+1], ![j+1] = vector[i+1]]}
  /\ out' = Call({i, j}, NULL, NULL)
  /\ UNCHANGED stack

RemoveFrom(i) ==
  /\ vector' = RemoveAt(vector, i+1)
  /\ out' = Call({i}, NULL, NULL)
  /\ UNCHANGED stack

(* What vector.c makes of a call that is to remove the last element.       *)
Ignore(i) == out' = Call({i}, NULL, NULL) /\ UNCHANGED <<stack, vector>>

Top ==
  /\ out' = Call({}, NULL, IF stack = << >> THEN NULL ELSE Last(stack))
  /\ UNCHANGED <<stack, vector>>

Get(i) ==
  /\ out' = Call({i}, NULL, IF i < Len(vector) THEN vector[i+1] ELSE NULL)
  /\ UNCHANGED <<stack, vector>>

Indices == 0..Len(vector)-1

Next ==
  \/ \E d \in Data :
       Push(d) \/ PushBack(d) \/ PushFront(d)
         \/ \E at \in {{}, {0}, {Len(vector)}} : Refuse(at, d)
  \/ Pop
  \/ ClearStack
  \/ Top
  \/ \E i \in Indices :
       \/ \E d \in Data : Set(i, d)
       \/ \E j \in Indices : Swap(i, j)
       \/ RemoveFrom(i)
  \/ Ignore(0) \/ Ignore(Len(vector)-1)
  \/ \E i \in 0..Len(vector) : Get(i)

Spec == Init /\ [][Next]_vars
=============================================================================
