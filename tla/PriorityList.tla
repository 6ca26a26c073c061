---------------------------- MODULE PriorityList ----------------------------
(***************************************************************************)
(* What priority_queue.h promises its clients: a "sorted queue of          *)
(* value-data pairs".  items holds the pairs by ascending value, the top   *)
(* one last; among pairs of one value the last pushed is the nearest to    *)
(* the top.  out is the pair the last call handed back, or the part of it; *)
(* NULL stands for what was not handed back.  cursor, the client's iterator *)
(* or NULL, is the pair it shows and those below it, which it has still to *)
(* visit; the pairs popped meanwhile are among them.                       *)
(***************************************************************************)
EXTENDS SequencesExt, Integers

CONSTANTS Value, Data, NULL

VARIABLES items, cursor, out

vars == <<items, cursor, out>>

Pair(v, d) == [value |-> v, data |-> d]

Init == items = << >> /\ cursor = NULL /\ out = Pair(NULL, NULL)

(* The header has push return the pair's data.  NULL, which it reserves    *)
(* for a failure, is allowed here after a success, too.  It leaves an       *)
(* iterator as it is, or ends it.                                          *)
Push(v, d) ==
  LET place == Cardinality({i \in 1..Len(items) : items[i].value <= v}) + 1
  IN  /\ items' = InsertAt(items, place, Pair(v, d))
      /\ out' \in {Pair(NULL, d), Pair(NULL, NULL)}
      /\ cursor' \in {cursor, NULL}

Refuse == out' = Pair(NULL, NULL) /\ UNCHANGED <<items, cursor>>

Pop == items # << >> /\ items' = Front(items) /\ UNCHANGED <<cursor, out>>

Clear == items' = << >> /\ UNCHANGED <<cursor, out>>

Top ==
  /\ out' = IF items = << >> THEN Pair(NULL, NULL) ELSE Last(items)
  /\ UNCHANGED <<items, cursor>>

-----------------------------------------------------------------------------
CursorAt(n) == [below |-> SubSeq(items, 1, n - 1), shown |-> items[n]]

(* At the top or the bottom, unless there is no memory.                    *)
Begin ==
  /\ cursor = NULL
  /\ cursor' \in {NULL} \cup {CursorAt(n) : n \in {1, Len(items)} \cap DOMAIN items}
  /\ UNCHANGED <<items, out>>

(* At the topmost pair with value v, which the iterator does not show yet. *)
BeginAt(v) ==
  LET of == {n \in DOMAIN items : items[n].value = v}
  IN  /\ cursor = NULL
      /\ of # {}
      /\ cursor' \in {NULL, [CursorAt(Max(of)) EXCEPT !.shown = Pair(0, NULL)]}
      /\ UNCHANGED <<items, out>>

MoveDown ==
  /\ cursor # NULL
  /\ cursor' = IF cursor.below = << >> THEN NULL
               ELSE [below |-> Front(cursor.below), shown |-> Last(cursor.below)]
  /\ UNCHANGED <<items, out>>

(* Above the top the iterator shows some pair that is not in the list, and *)
(* ends with the next step only.                                           *)
MoveUp ==
  /\ cursor # NULL
  /\ LET n == Len(cursor.below) + 1
     IN  CASE n < Len(items) -> cursor' = CursorAt(n + 1)
           [] n = Len(items) -> cursor' # NULL /\ cursor'.below = items
           [] n > Len(items) -> cursor' = NULL
  /\ UNCHANGED <<items, out>>

Next ==
  \/ \E v \in Value, d \in Data : Push(v, d)
  \/ Refuse
  \/ Pop
  \/ Clear
  \/ Top
  \/ Begin \/ MoveDown \/ MoveUp
  \/ \E v \in Value : BeginAt(v)

Spec == Init /\ [][Next]_vars
=============================================================================
