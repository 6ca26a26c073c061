------------------------------ MODULE MCDeque -------------------------------
(* Deque.tla on a small instance. *)
EXTENDS Deque
=============================================================================
