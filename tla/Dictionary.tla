----------------------------- MODULE Dictionary -----------------------------
(***************************************************************************)
(* What unordered_map.h promises its clients: a table of key-value pairs,  *)
(* where an insert leaves a key that is there alone.  dict[k] is NULL for  *)
(* a key that is not there.  out is the last call that returned, with its  *)
(* key and the value it handed back; NULL while a call is under way.       *)
(***************************************************************************)
CONSTANTS Key, Value, NULL

VARIABLES dict, out

vars == <<dict, out>>

Answer(call, k, v) == [call |-> call, key |-> k, value |-> v]

Init == dict = [k \in Key |-> NULL] /\ out = NULL

InsertNew(k, v) ==
  /\ out' = Answer("insert", k, v)
  /\ dict[k] = NULL
  /\ dict' = [dict EXCEPT ![k] = v]

InsertExisting(k) ==
  /\ out' = Answer("insert", k, dict[k])
  /\ dict[k] # NULL
  /\ UNCHANGED dict

(* No memory: only a key that is not there can meet this.                  *)
InsertRefused(k) ==
  /\ out' = Answer("insert", k, NULL)
  /\ dict[k] = NULL
  /\ UNCHANGED dict

Find(k) == out' = Answer("find", k, dict[k]) /\ UNCHANGED dict

Delete(k) ==
  /\ out' = Answer("delete", k, NULL)
  /\ dict' = [dict EXCEPT ![k] = NULL]

Clear ==
  /\ out' = Answer("clear", NULL, NULL)
  /\ dict' = [k \in Key |-> NULL]

(* A call about a key that is none of Key, or one that is under way.       *)
Elsewhere == out' \in {NULL, Answer("other", NULL, NULL)} /\ UNCHANGED dict

Next ==
  \/ \E k \in Key :
       \/ \E v \in Value : InsertNew(k, v)
       \/ InsertExisting(k)
       \/ InsertRefused(k)
       \/ Find(k)
       \/ Delete(k)
  \/ Clear
  \/ Elsewhere

Spec == Init /\ [][Next]_vars

(* The dictionary of a map that copies its keys: while a call is under way *)
(* it forgets a key that it has no memory for.                             *)
Forget(k) == out' = NULL /\ dict' = [dict EXCEPT ![k] = NULL]

ForgetfulSpec == Init /\ [][Next \/ \E k \in Key : Forget(k)]_vars
=============================================================================
