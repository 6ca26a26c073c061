--------------------------- MODULE MCPriorityQueue --------------------------
(* PriorityQueue.tla on a small instance. *)
EXTENDS PriorityQueue
=============================================================================
