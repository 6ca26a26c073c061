------------------------------ MODULE MCArrays ------------------------------
(* Arrays.tla on a small instance: the client keeps the stack small. *)
EXTENDS Arrays

StackBound == 2

MCNext == CarefulNext /\ stk'.length <= StackBound

MCSpec == Init /\ [][MCNext]_vars
=============================================================================
