------------------------------ MODULE FreeList ------------------------------
(***************************************************************************)
(* free_list.c: one free_list_t and the client that calls free_list.h's    *)
(* macros on it.  _buffer is one array of bytes: a bitmap of the slots in  *)
(* use, then the elements, cells as in Buffer.tla: Zero where none was     *)
(* stored, Junk where one was clobbered.                                   *)
(***************************************************************************)
EXTENDS Buffer, FiniteSetsExt

CONSTANT ElementSize   (* bytes of an element                              *)

ASSUME ElementAssumption == ElementSize \in Nat \ {0}

VARIABLES
  list,  (* *list; list.used is the set of slots whose bit is set          *)
  held,  (* the slots the client inserted at and has not removed           *)
  slot   (* the slot the last returned pointer leads to, or NULL           *)

listVars == <<list, held, slot>>

Slots == 0..list.capacity-1

-----------------------------------------------------------------------------
NewList(c) ==
  [length |-> 0, capacity |-> c, next_free |-> 0, used |-> {},
   cell |-> [i \in 0..c-1 |-> Zero]]

ListInit == list = NewList(DefaultCapacity) /\ held = {} /\ slot = NULL

(* Bytes in the bitmap.                                                    *)
BitNum(l) == l.capacity \div 8 + 1

(* _free_list_resize: bitmap and elements keep their indices.              *)
ListResized(l) ==
  LET c == GrownCapacity(l.capacity)
  IN  [length |-> l.length, capacity |-> c, next_free |-> l.next_free,
       used |-> l.used,
       cell |-> [i \in 0..c-1 |-> IF i < l.capacity THEN l.cell[i] ELSE Zero]]

(* Slip: the search goes on after its first find.                          *)
LastFreeFrom(i, used, capacity) ==
  LET free == (i..capacity-1) \ used IN IF free = {} THEN i ELSE Max(free)

(* The first free slot from i on; i itself when there is none.             *)
NextFreeFrom(i, used, capacity) ==
  LET free == (i..capacity-1) \ used IN IF free = {} THEN i ELSE Min(free)

Stored(l, d) ==
  LET used == l.used \cup {l.next_free}
  IN  [length |-> l.length + 1, capacity |-> l.capacity,
       next_free |-> NextFreeFrom(l.next_free, used, l.capacity),
       used |-> used, cell |-> [l.cell EXCEPT ![l.next_free] = d]]

(* Slip: the bit of next_free is not tested.                               *)
ListInsertUntested(d) ==
  /\ list.length >= list.capacity => CanGrow(list.capacity, 0)
  /\ list' = Stored(IF list.length >= list.capacity
                    THEN ListResized(list) ELSE list, d)
  /\ held' = held \cup {list.next_free}
  /\ slot' = list.next_free

(* _free_list_insert: the bit of next_free is tested before the length, so *)
(* a list whose next_free is in use neither inserts nor grows.             *)
ListInsert(d) ==
  /\ list.next_free \notin list.used
  /\ list.length >= list.capacity => CanGrow(list.capacity, 0)
  /\ list' = Stored(IF list.length >= list.capacity
                    THEN ListResized(list) ELSE list, d)
  /\ held' = held \cup {list.next_free}
  /\ slot' = list.next_free

ListRefuses ==
  /\ list.next_free \in list.used \/ list.length >= list.capacity
  /\ slot' = NULL
  /\ UNCHANGED <<list, held>>

-----------------------------------------------------------------------------
(* Slip: the bit before the right one.                                     *)
ClearedBefore(l, index) == {index - 1}

(* _free_list_bit_clr(list, index+i) expands, parentheses missing, to      *)
(* _buffer[index+i/8] &= ~(1 << (index+i % 8)).  With i = 0 that clears bit *)
(* index of byte index: one bit of the bitmap, or one of an element.  A    *)
(* shift of 8 or more leaves the byte as it is.                            *)
ClearedSlots(l, index) ==
  IF index < BitNum(l) /\ index < 8 THEN {8 * index + index} ELSE {}

ClobberedCells(l, index) ==
  IF index >= BitNum(l) /\ index < 8
  THEN {(index - BitNum(l)) \div ElementSize}
  ELSE {}

(* Slips: no test against the length; the length does not go down.         *)
ListRemoveUntested(index) ==
  /\ list' = [list EXCEPT !.length = @ - 1, !.next_free = CCMin(@, index),
                          !.used = @ \ ClearedSlots(list, index)]
  /\ held' = held \ {index}
  /\ UNCHANGED slot

ListRemoveUncounted(index) ==
  /\ index + 1 <= list.length
  /\ list' = [list EXCEPT !.next_free = CCMin(@, index),
                          !.used = @ \ ClearedSlots(list, index)]
  /\ held' = held \ {index}
  /\ UNCHANGED slot

(* _free_list_remove(list, index, 1).  The cleared bit of an element may   *)
(* have been 0 already.                                                    *)
ListRemove(index) ==
  /\ index + 1 <= list.length
  /\ \E broken \in SUBSET ClobberedCells(list, index) :
       list' = [length |-> list.length - 1, capacity |-> list.capacity,
                next_free |-> CCMin(list.next_free, index),
                used |-> list.used \ ClearedSlots(list, index),
                cell |-> [i \in Slots |-> IF i \in broken THEN Junk
                                                          ELSE list.cell[i]]]
  /\ held' = held \ {index}
  /\ UNCHANGED slot

(* _free_list_remove(list, 0, length): with index 0 the bits are the right *)
(* ones, but those of slots beyond the length stay set.                    *)
ListClear ==
  /\ list' = [length |-> 0, capacity |-> list.capacity, next_free |-> 0,
              used |-> list.used \ (0..list.length-1), cell |-> list.cell]
  /\ held' = {}
  /\ UNCHANGED slot

(* free_list_get: an index at or beyond the length is taken for invalid.   *)
ListGet(index) ==
  /\ slot' = IF index < list.length /\ index \in list.used THEN index ELSE NULL
  /\ UNCHANGED <<list, held>>

ListNext ==
  \/ \E d \in Data : ListInsert(d)
  \/ ListRefuses
  \/ \E i \in Slots : ListRemove(i) \/ ListGet(i)
  \/ ListClear

ListSpec == ListInit /\ [][ListNext]_listVars

-----------------------------------------------------------------------------
(* The fields stay within their ranges, whatever the client calls.         *)
ListTypeOK ==
  /\ list.capacity \in 1..HeapLimit
  /\ list.length \in 0..list.capacity
  /\ list.next_free \in Slots
  /\ list.used \subseteq Slots
  /\ list.cell \in [Slots -> Cell]
  /\ held \subseteq Slots
  /\ slot \in Nat \cup {NULL}

(* next_free has no free slot below it, so that "the first free spot" of   *)
(* free_list.h is where insert stores, for all the bits remove misses.     *)
FirstFit == 0..list.next_free-1 \subseteq list.used

(* Remove always lowers the length but rarely clears the bit: the length   *)
(* may fall behind the slots in use and never runs ahead of them.          *)
LengthWithinUsed == list.length <= Cardinality(list.used)

(* insert never hands out a slot whose last owner has not removed it.  In  *)
(* a bitmap of more than 9 slots, remove(1) would clear the bit of slot 9. *)
HeldIsUsed == held \subseteq list.used

(* A full list fails in insert's first test: its buffer is never replaced, *)
(* and no pointer handed out ever dangles.                                 *)
NeverGrows == [][list'.capacity = list.capacity]_listVars

(* Once insert fails, it keeps failing until slot 0 is freed, however many *)
(* other elements the client removes.                                      *)
Jammed == list.next_free \in list.used

JamEndsAtSlotZero ==
  [][Jammed /\ ~Jammed' => 0 \in list.used /\ 0 \notin list'.used]_listVars

(* free_list.h's promise of remove and clear: the slot of the element that *)
(* is removed becomes free, and after a clear every slot is.               *)
RemoveFreesSlot ==
  [][/\ \A i \in Slots : ListRemove(i) => i \notin list'.used
     /\ ListClear => list'.used = {}]_listVars
=============================================================================
