----------------------------- MODULE MCUMapStr ------------------------------
(***************************************************************************)
(* UMapStr.tla on a small instance: the keys "Aa", "Ab" and "A1".  All     *)
(* chains start at the last but one slot; the first two have one hash.     *)
(***************************************************************************)
EXTENDS UMapStr

CONSTANTS v1

MCKey == {<<65, 97>>, <<65, 98>>, <<65, 49>>}

(* The client's insertions are bounded: it fills the first table up to the *)
(* insert that resizes it, and stores little in the second one.            *)
LoadBound(t) == IF t.capacity = DefaultCapacity THEN 7 ELSE 4

MCNext == Next /\ umap'.load <= LoadBound(umap')

MCSpec == Init /\ [][MCNext]_vars
=============================================================================
