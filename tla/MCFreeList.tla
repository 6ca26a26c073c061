----------------------------- MODULE MCFreeList -----------------------------
(* FreeList.tla on a small instance. *)
EXTENDS FreeList, TLC
=============================================================================
