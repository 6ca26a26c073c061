------------------------------- MODULE Vector -------------------------------
(* vector.c: one vector_t, *vec, and the operations of vector.h on it.     *)
EXTENDS Buffer

VARIABLE vec

VectorInit == vec = NewBuffer(DefaultCapacity)

Indices == 0..vec.length-1

(* _vec_insert, which vector.h can only call with index 0 or the length:   *)
(* vector_insert passes a vector_t* for its vector_t**.  d is what it      *)
(* reads through its data pointer.                                         *)
VectorInsert(index, d) ==
  \E v \in {vec, Resized(vec)} : HasRoom(vec, v) /\ vec' = Inserted(v, index, d)

VectorRefuses == IsFull(vec) /\ UNCHANGED vec

(* Slip: the elements behind the removed one stay where they are.          *)
VectorRemoveUnshifted(index, count) ==
  /\ index + count < vec.length
  /\ vec' = [vec EXCEPT !.length = @ - count]

(* _vec_remove; a removal that would end at the last element is ignored.   *)
VectorRemove(index, count) ==
  /\ index + count < vec.length
  /\ vec' = [length |-> vec.length - count, capacity |-> vec.capacity,
             cell |-> [i \in 0..vec.capacity-1 |->
                         IF index <= i /\ i < vec.length - count
                         THEN vec.cell[i+count] ELSE vec.cell[i]]]

VectorIgnores(index, count) == index + count >= vec.length /\ UNCHANGED vec

(* _vec_swap; without memory for one element it does nothing.              *)
VectorSwap(a, b) ==
  \/ vec' = [vec EXCEPT !.cell[a] = vec.cell[b], !.cell[b] = vec.cell[a]]
  \/ UNCHANGED vec

VectorSet(i, d) == vec' = [vec EXCEPT !.cell[i] = d]

(* vector_get.                                                             *)
VectorGet(i) == IF i < vec.length THEN vec.cell[i] ELSE NULL
=============================================================================
