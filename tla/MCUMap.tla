------------------------------- MODULE MCUMap -------------------------------
(***************************************************************************)
(* UMap.tla on a small instance.  Keys a and b have the same tag, and all   *)
(* chains start at the first table's last slot: they overlap and wrap      *)
(* around.  In the grown table b's starts elsewhere.                       *)
(***************************************************************************)
EXTENDS UMap, TLC

CONSTANTS a, b, c, v1, v2

MCH1(k) == IF k = b THEN 7 ELSE 15

MCH2(k) == IF k = c THEN 2 ELSE 1

(* The client's insertions are bounded: it fills the first table up to the *)
(* insert that resizes it, and the second one as far.  It stores v2 only   *)
(* under c, the key whose values the properties follow.                    *)
LoadBound == 8

Unused == [key : {a, b}, value : {v2}]

MCNext ==
  /\ Next
  /\ umap'.load <= LoadBound
  /\ \A p \in Live(umap') : umap'.slot[p] \notin Unused
  /\ pending' # NULL => [key |-> pending'.key, value |-> pending'.value] \notin Unused

MCSpec == Init /\ [][MCNext]_vars /\ WF_vars(hung = NULL /\ Rehash)
=============================================================================
