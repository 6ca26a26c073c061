------------------------------ MODULE MCQueue -------------------------------
(* Queue.tla on a small instance. *)
EXTENDS Queue
=============================================================================
