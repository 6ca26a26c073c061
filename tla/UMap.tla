-------------------------------- MODULE UMap --------------------------------
(***************************************************************************)
(* unordered_map.c: one unordered_map_t and the client that calls          *)
(* unordered_map.h's macros on it.  A call is one step, except an insert   *)
(* that resizes the table: it rehashes one slot per step, and the client   *)
(* waits for it.                                                           *)
(***************************************************************************)
EXTENDS Table

VARIABLES
  umap,     (* *umap, the table                                            *)
  pending,  (* the insert that is rehashing the table, or NULL             *)
  hung,     (* the key whose probe will never end, or NULL                 *)
  out       (* the last call that returned, with its key and what it handed *)
            (* back; NULL while a call is under way                         *)

vars == <<umap, pending, hung, out>>

Answer(call, k, v) == [call |-> call, key |-> k, value |-> v]

-----------------------------------------------------------------------------
Init ==
  /\ umap = NewTable(DefaultCapacity)
  /\ pending = NULL
  /\ hung = NULL
  /\ out = NULL

Hang(k) == hung' = k /\ out' = NULL /\ UNCHANGED <<umap, pending>>

(* _umap_insert; p is where its call of _umap_find stops.                  *)
InsertExisting(k, p) ==
  /\ Found(umap, k, p)
  /\ out' = Answer("insert", k, umap.slot[p].value)
  /\ UNCHANGED <<umap, pending, hung>>

InsertInPlace(k, v) ==
  /\ ~Overloaded(umap)
  /\ umap' = Placed(umap, k, v)
  /\ out' = Answer("insert", k, v)
  /\ UNCHANGED <<pending, hung>>

InsertResizes(k, v) ==
  /\ Overloaded(umap)
  /\ CanGrow(umap.capacity, umap.length)
  /\ pending' = [key |-> k, value |-> v, next |-> 0,
                 table |-> NewTable(GrownCapacity(umap.capacity))]
  /\ out' = NULL
  /\ UNCHANGED <<umap, hung>>

InsertRefused(k) ==
  /\ Overloaded(umap)
  /\ out' = Answer("insert", k, NULL)
  /\ UNCHANGED <<umap, pending, hung>>

Insert(k, p) ==
  \/ InsertExisting(k, p)
  \/ /\ FindMisses(umap, k, p)
     /\ (\E v \in Value : InsertInPlace(k, v) \/ InsertResizes(k, v))
          \/ InsertRefused(k)
  \/ FindSpins(umap, k, p) /\ Hang(k)

(* _umap_find.                                                             *)
Find(k, p) ==
  \/ /\ Found(umap, k, p)
     /\ out' = Answer("find", k, umap.slot[p].value)
     /\ UNCHANGED <<umap, pending, hung>>
  \/ /\ FindMisses(umap, k, p)
     /\ out' = Answer("find", k, NULL)
     /\ UNCHANGED <<umap, pending, hung>>
  \/ FindSpins(umap, k, p) /\ Hang(k)

(* Slips: the length also counts deletions of keys that are not there; the *)
(* slot becomes Empty; the load count goes down.                           *)
DeleteUncounted(k, p) ==
  /\ Found(umap, k, p) \/ EndsAtEmpty(umap, p)
  /\ umap' = [umap EXCEPT !.slot[p] = IF Found(umap, k, p) THEN Deleted ELSE @,
                          !.length = @ - 1]
  /\ out' = Answer("delete", k, NULL)
  /\ UNCHANGED <<pending, hung>>

DeleteToEmpty(k, p) ==
  /\ Found(umap, k, p)
  /\ umap' = [umap EXCEPT !.slot[p] = Empty, !.length = @ - 1]
  /\ out' = Answer("delete", k, NULL)
  /\ UNCHANGED <<pending, hung>>

DeleteUnloading(k, p) ==
  /\ Found(umap, k, p)
  /\ umap' = [umap EXCEPT !.slot[p] = Deleted, !.length = @ - 1, !.load = @ - 1]
  /\ out' = Answer("delete", k, NULL)
  /\ UNCHANGED <<pending, hung>>

(* _umap_delete: its loop has no first_pos to come back to.                *)
Delete(k, p) ==
  \/ /\ Found(umap, k, p)
     /\ umap' = WithoutSlot(umap, p)
     /\ out' = Answer("delete", k, NULL)
     /\ UNCHANGED <<pending, hung>>
  \/ /\ EndsAtEmpty(umap, p)
     /\ out' = Answer("delete", k, NULL)
     /\ UNCHANGED <<umap, pending, hung>>
  \/ (Clashes(umap, k, p) \/ p = NULL) /\ Hang(k)

(* unordered_map_clear.                                                    *)
Clear ==
  /\ umap' = Cleared(umap)
  /\ out' = Answer("clear", NULL, NULL)
  /\ UNCHANGED <<pending, hung>>

-----------------------------------------------------------------------------
(* Slip: the index moves on only past a node that was inserted.            *)
RehashNextStuck(t) ==
  /\ pending' = [pending EXCEPT !.next = IF t = pending.table THEN @ ELSE @ + 1,
                                !.table = t]
  /\ UNCHANGED <<umap, hung, out>>

(* _umap_resize's loop: each live node is inserted into the new table,     *)
(* where a key that is found again is skipped.                             *)
RehashNext(t) ==
  /\ pending' = [key |-> pending.key, value |-> pending.value,
                 next |-> pending.next + 1, table |-> t]
  /\ UNCHANGED <<umap, hung, out>>

RehashNode(s, p) ==
  \/ /\ FindMisses(pending.table, s.key, p)
     /\ RehashNext(Placed(pending.table, s.key, s.value))
  \/ /\ Found(pending.table, s.key, p)
     /\ RehashNext(pending.table)
  \/ /\ FindSpins(pending.table, s.key, p)
     /\ Hang(s.key)

RehashSlot ==
  /\ pending # NULL
  /\ pending.next < umap.capacity
  /\ LET s == umap.slot[pending.next]
     IN  \/ s \notin Node /\ RehashNext(pending.table)
         \/ s \in Node /\ RehashNode(s, Probe(pending.table, s.key))

(* Slip: the loop ends one slot early.                                     *)
InsertBeforeLastSlot ==
  /\ pending # NULL
  /\ pending.next = umap.capacity - 1
  /\ umap' = Placed(pending.table, pending.key, pending.value)
  /\ out' = Answer("insert", pending.key, pending.value)
  /\ pending' = NULL
  /\ UNCHANGED hung

(* The rest of the insert that resized; it does not search again.          *)
InsertAfterRehash ==
  /\ pending # NULL
  /\ pending.next = umap.capacity
  /\ umap' = Placed(pending.table, pending.key, pending.value)
  /\ out' = Answer("insert", pending.key, pending.value)
  /\ pending' = NULL
  /\ UNCHANGED hung

Call ==
  /\ pending = NULL
  /\ \/ \E k \in Key :
          LET p == Probe(umap, k) IN Insert(k, p) \/ Find(k, p) \/ Delete(k, p)
     \/ Clear

Rehash == RehashSlot \/ InsertAfterRehash

(* After an endless probe the program makes no further step.               *)
Next == hung = NULL /\ (Call \/ Rehash)

Spec == Init /\ [][Next]_vars

(* A call runs on until it returns.                                        *)
FairSpec == Spec /\ WF_vars(hung = NULL /\ Rehash)

-----------------------------------------------------------------------------
(* The tables in memory.                                                   *)
Tables == {umap} \cup IF pending = NULL THEN {} ELSE {pending.table}

(* The fields stay within their ranges, whatever the client calls.         *)
TypeOK ==
  /\ IsTable(umap)
  /\ \/ pending = NULL
     \/ /\ pending.key \in Key /\ pending.value \in Value
        /\ pending.next \in 0..umap.capacity
        /\ IsTable(pending.table)
  /\ hung \in Key \cup {NULL}
  /\ out \in [call : {"insert", "find", "delete", "clear"},
               key : Key \cup {NULL}, value : Value \cup {NULL}] \cup {NULL}

(* Every probe finds an Empty slot to end at: no table fills up, neither   *)
(* with live slots nor with deleted ones.                                  *)
EmptySlotRemains == \A t \in Tables : HasEmpty(t)

(* The probe for a stored key cannot end early: no Empty slot lies between *)
(* the start of its chain and its slot.                                    *)
ChainsUnbroken ==
  \A t \in Tables : \A p \in Live(t) : ChainLeadsTo(t, t.slot[p].key, p)

(* The size never underflows: it covers the live slots, and the load count *)
(* covers every slot a probe does not end at.                              *)
CountersCover ==
  \A t \in Tables :
    /\ Cardinality(Live(t)) <= t.length
    /\ t.length <= t.load
    /\ Cardinality({p \in 0..t.capacity-1 : t.slot[p] # Empty}) <= t.load

(* Only a key that shares its tag with another can make a call spin.       *)
HangIsAClash == hung \notin Lone

(* For the keys whose tag is theirs alone the map is a dictionary, whatever *)
(* happens to the others: across deletions, rehashes and calls that spin.  *)
D == INSTANCE Dictionary WITH
       Key <- Lone,
       dict <- [k \in Lone |-> ContentOf(umap, k)],
       out <- IF out = NULL \/ out.key \in Lone \cup {NULL} THEN out
              ELSE Answer("other", NULL, NULL)

IsDictionary == D!Spec

(* Every insert that resizes comes back, unless its rehash spins.          *)
RehashEnds == pending # NULL ~> (pending = NULL \/ hung # NULL)

(* unordered_map.h's promise, for all keys.                                *)
AllKeys == INSTANCE Dictionary WITH
             dict <- [k \in Key |-> ContentOf(umap, k)]

IsDictionaryForAll == AllKeys!Spec

=============================================================================
