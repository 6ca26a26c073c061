-------------------------------- MODULE Fifo --------------------------------
(***************************************************************************)
(* What queue.h promises its clients: a "FIFO group of elements".  items   *)
(* holds the elements, the front one first; out is what the last call that *)
(* returns something handed back, NULL standing for the null pointer.      *)
(***************************************************************************)
EXTENDS Sequences

CONSTANTS Data, NULL

VARIABLES items, out

vars == <<items, out>>

Init == items = << >> /\ out = NULL

Push(d) == items' = Append(items, d) /\ out' = d

(* A push that finds no memory hands back NULL and leaves the queue alone. *)
Refuse == out' = NULL /\ UNCHANGED items

Pop == items # << >> /\ items' = Tail(items) /\ UNCHANGED out

Clear == items' = << >> /\ UNCHANGED out

Front ==
  /\ out' = IF items = << >> THEN NULL ELSE Head(items)
  /\ UNCHANGED items

Next ==
  \/ \E d \in Data : Push(d)
  \/ Refuse
  \/ Pop
  \/ Clear
  \/ Front

Spec == Init /\ [][Next]_vars
=============================================================================
