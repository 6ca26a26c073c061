------------------------------- MODULE Buffer -------------------------------
(***************************************************************************)
(* The contiguous array behind stack.c and vector.c, as operators on a     *)
(* record with the fields of stack_t and vector_t.  A cell holds a client  *)
(* element, Zero (CC_CALLOC's zero bytes) or Junk (freed memory).          *)
(***************************************************************************)
EXTENDS Common, Integers

CONSTANTS Data, Zero, Junk,
          NULL   (* the pointer that leads to no element                  *)

Cell == Data \cup {Zero, Junk}

NewBuffer(c) == [length |-> 0, capacity |-> c, cell |-> [i \in 0..c-1 |-> Zero]]

(* The grown copy of an array: its elements, and zero bytes.               *)
Resized(b) ==
  LET c == GrownCapacity(b.capacity)
  IN  [length |-> b.length, capacity |-> c,
       cell |-> [i \in 0..c-1 |-> IF i < b.length THEN b.cell[i] ELSE Zero]]

IsFull(b) == b.length >= b.capacity

(* d at index; the elements from there on move one up.                     *)
Inserted(b, index, d) ==
  [length |-> b.length + 1, capacity |-> b.capacity,
   cell |-> [i \in 0..b.capacity-1 |->
               IF i = index THEN d
               ELSE IF index < i /\ i <= b.length THEN b.cell[i-1]
               ELSE b.cell[i]]]

(* The array with room for one more element, if there is memory for it.    *)
HasRoom(b, r) ==
  \/ r = b /\ ~IsFull(b)
  \/ r = Resized(b) /\ IsFull(b) /\ CanGrow(b.capacity, b.length)

IsBuffer(b) ==
  /\ b.capacity \in 1..HeapLimit
  /\ b.length \in 0..b.capacity
  /\ b.cell \in [0..b.capacity-1 -> Cell]

(* The elements in use.                                                    *)
Content(b) == [i \in 1..b.length |-> b.cell[i-1]]
=============================================================================
