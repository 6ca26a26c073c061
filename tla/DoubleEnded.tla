---------------------------- MODULE DoubleEnded -----------------------------
(***************************************************************************)
(* What deque.c keeps of deque.h's promise of a "Double-ended queue".      *)
(* items holds the elements from the back to the front; out is what the    *)
(* last call that returns something handed back, NULL standing for the     *)
(* null pointer.  It departs from the header in that the front element can *)
(* be popped but not read.                                                 *)
(***************************************************************************)
EXTENDS SequencesExt

CONSTANTS Data, Cell, NULL

VARIABLES items, out

vars == <<items, out>>

Init == items = << >> /\ out = NULL

PushFront(d) == items' = Append(items, d) /\ out' = d

PushBack(d) == items' = <<d>> \o items /\ out' = d

Refuse == out' = NULL /\ UNCHANGED items

PopFront == items # << >> /\ items' = Front(items) /\ UNCHANGED out

PopBack == items # << >> /\ items' = Tail(items) /\ UNCHANGED out

(* What a client gets for the front element: anything, if there is one.    *)
GetFront ==
  /\ out' \in IF items = << >> THEN {NULL} ELSE Cell
  /\ UNCHANGED items

GetBack ==
  /\ out' = IF items = << >> THEN NULL ELSE Head(items)
  /\ UNCHANGED items

Next ==
  \/ \E d \in Data : PushFront(d) \/ PushBack(d)
  \/ Refuse
  \/ PopFront
  \/ PopBack
  \/ GetFront
  \/ GetBack

Spec == Init /\ [][Next]_vars
=============================================================================
