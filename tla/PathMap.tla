------------------------------ MODULE PathMap -------------------------------
(***************************************************************************)
(* A map from paths to elements in which every prefix of a path is a path, *)
(* too: what tree.h promises and tree.c keeps.  Where the two disagree, the *)
(* map allows both or leaves it open: an insert may replace an element     *)
(* that is there, a call may answer with any depth, and a delete by the    *)
(* macro may take everything.  After tree_clear no call does anything.     *)
(***************************************************************************)
EXTENDS SequencesExt, Integers

CONSTANTS
  Paths,             (* of one token and more, their prefixes among them   *)
  Data, Zero, NULL

VARIABLES
  state,    (* "none", "open", or "dead" after a clear                     *)
  content,  (* the elements of the paths in the map, NULL for the others   *)
  out       (* the element, or the depth, that the last call returned      *)

vars == <<state, content, out>>

Nothing == [p \in Paths |-> NULL]

Init == state = "none" /\ content = Nothing /\ out = NULL

Create ==
  /\ state = "none"
  /\ state' \in {"none", "open"}
  /\ UNCHANGED <<content, out>>

(* q is on the way to p, which ends there or at p.                         *)
AddTo(p, q) == IF IsPrefix(q, p) /\ content[q] = NULL THEN Zero ELSE content[q]

(* An element that is there stays, as tree.h says, or makes way for d.     *)
Insert(p, d) ==
  /\ state = "open"
  /\ out' \in {d} \cup ({content[p]} \ {NULL, Zero})
  /\ content' = [q \in Paths |-> IF q = p THEN out' ELSE AddTo(p, q)]
  /\ UNCHANGED state

(* Memory ran out on the way to p: the prefixes made so far stay.          *)
InsertPart(p) ==
  /\ state = "open"
  /\ out' = NULL
  /\ content[p] = NULL
  /\ \E n \in 0..Len(p)-1 :
       content' = [q \in Paths |-> AddTo(SubSeq(p, 1, n), q)]
  /\ UNCHANGED state

Find(p) ==
  /\ state = "open"
  /\ out' = content[p]
  /\ UNCHANGED <<state, content>>

(* Where there is no element: at the root.                                 *)
FindRoot == state = "open" /\ out' = NULL /\ UNCHANGED <<state, content>>

(* A path's depth, or the largest, of which the map does not say more.     *)
AskDepth == state = "open" /\ out' \in Int /\ UNCHANGED <<state, content>>

(* With what is below p, as without p there is no way to it.               *)
Delete(p) ==
  /\ state = "open"
  /\ UNCHANGED <<state, out>>
  /\ content' = [q \in Paths |-> IF IsPrefix(p, q) THEN NULL ELSE content[q]]

ClearAll == state = "open" /\ UNCHANGED <<state, out>> /\ content' = Nothing

(* For good (tree_clear), or along with the tree (tree_destroy).           *)
End ==
  /\ state = "open"
  /\ state' \in {"dead", "none"}
  /\ content' = Nothing
  /\ UNCHANGED out

(* A call that looks at a dead tree.                                       *)
Refuse ==
  /\ state = "dead"
  /\ out' \in {NULL, -1}
  /\ UNCHANGED <<state, content>>

Next ==
  \/ Create \/ FindRoot \/ AskDepth \/ ClearAll \/ End \/ Refuse
  \/ \E p \in Paths :
       \/ Find(p)
       \/ Delete(p)
       \/ \E d \in Data : Insert(p, d)
       \/ InsertPart(p)

Spec == Init /\ [][Next]_vars
=============================================================================
