------------------------------- MODULE MCTree -------------------------------
(* Tree.tla on a small instance: paths of up to three tokens, with a fork.  *)
EXTENDS Tree

CONSTANTS a, b

MCPath == {<< >>, <<a>>, <<a, a>>, <<a, a, b>>, <<b>>}
=============================================================================
