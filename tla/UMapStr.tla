------------------------------- MODULE UMapStr ------------------------------
(***************************************************************************)
(* unordered_map_str.c: the table of unordered_map.c with strings for      *)
(* keys.  An insert stores a copy of the client's string, which it         *)
(* allocates and a delete frees.  A call is one step, except an insert     *)
(* that resizes: it rehashes one slot per step.                            *)
(***************************************************************************)
EXTENDS Table, Integers, Sequences

CONSTANTS
  StringLimit,  (* how many strings CC_MALLOC can provide, at most         *)
  HashRange     (* the hash is an unsigned number below it: 2^32           *)

(* Strings, as sequences of character codes.                               *)
Char == 1..127

ASSUME KeyAssumption == Key \subseteq Seq(Char) /\ StringLimit \in Nat

ASSUME HashRangeAssumption == HashRange \in Nat \ {0} /\ HashRange % 256 = 0

(* The mask is 0xF << sizeof(_umap_str_hash_t) - 4: no shift at all.  What *)
(* it selects is shifted by nothing and taken from the hash, twice.        *)
(* Slip: a mask of two nibbles.                                            *)
MaskedByte(h) == h - (h % 256)

Masked(h) == h - (h % 16)

Hash(key) ==
  LET h[i \in 0..Len(key)] ==
        IF i = 0 THEN 16777619 % HashRange
        ELSE Masked((16 * h[i-1] + key[i]) % HashRange)
  IN  h[Len(key)]

HashOf == [key \in Key |-> Hash(key)]

HashH1(key) == HashOf[key] \div 128

HashH2(key) == HashOf[key] % 128

ASSUME StringHash == \A k \in Key : H1(k) = HashH1(k) /\ H2(k) = HashH2(k)

VARIABLES
  umap,     (* *umap_str, the table                                        *)
  strings,  (* how many copies of each key are allocated                   *)
  pending,  (* the insert that is rehashing the table, or NULL; dropped is *)
            (* history: the keys that it found no memory for               *)
  hung,     (* the key whose probe will never end, or NULL                 *)
  out       (* the last call that returned; NULL while one is under way    *)

vars == <<umap, strings, pending, hung, out>>

(* An insert that is under way.                                            *)
Underway(c) ==
  [key : Key, value : Value, next : Nat, dropped : SUBSET Key, table : TableOf(c)]

ASSUME PendingAssumption == \A c \in 1..HeapLimit : NULL \notin Underway(c)

Answer(call, k, v) == [call |-> call, key |-> k, value |-> v]

-----------------------------------------------------------------------------
Init ==
  /\ umap = NewTable(DefaultCapacity)
  /\ strings = [k \in Key |-> 0]
  /\ pending = NULL
  /\ hung = NULL
  /\ out = NULL

(* The allocated copies, numbered for each key.                            *)
Copies == {c \in Key \X (1..StringLimit) : c[2] <= strings[c[1]]}

(* CC_MALLOC of a copy of k succeeds; it may also fail at any time.        *)
Allocate(k) ==
  /\ Cardinality(Copies) < StringLimit
  /\ strings' = [strings EXCEPT ![k] = @ + 1]

Return(call, k, v) == out' = Answer(call, k, v) /\ UNCHANGED <<pending, hung>>

Hang(k) == hung' = k /\ out' = NULL /\ UNCHANGED <<umap, strings, pending>>

(* _umap_str_insert; p is where its call of _umap_str_find stops.          *)
InsertInPlace(k, v) ==
  /\ ~Overloaded(umap)
  /\ Allocate(k)
  /\ umap' = Placed(umap, k, v)
  /\ Return("insert", k, v)

InsertResizes(k, v) ==
  /\ Overloaded(umap)
  /\ CanGrow(umap.capacity, umap.length)
  /\ pending' = [key |-> k, value |-> v, next |-> 0, dropped |-> {},
                 table |-> NewTable(GrownCapacity(umap.capacity))]
  /\ out' = NULL
  /\ UNCHANGED <<umap, strings, hung>>

(* There is no memory for a larger table, or for the key.                  *)
InsertRefused(k) == Return("insert", k, NULL) /\ UNCHANGED <<umap, strings>>

Insert(k, p) ==
  \/ /\ Found(umap, k, p)
     /\ Return("insert", k, umap.slot[p].value)
     /\ UNCHANGED <<umap, strings>>
  \/ /\ FindMisses(umap, k, p)
     /\ \/ \E v \in Value : InsertInPlace(k, v) \/ InsertResizes(k, v)
        \/ InsertRefused(k)
  \/ FindSpins(umap, k, p) /\ Hang(k)

(* _umap_str_find.                                                         *)
Find(k, p) ==
  \/ /\ Found(umap, k, p)
     /\ Return("find", k, umap.slot[p].value)
     /\ UNCHANGED <<umap, strings>>
  \/ /\ FindMisses(umap, k, p)
     /\ Return("find", k, NULL)
     /\ UNCHANGED <<umap, strings>>
  \/ FindSpins(umap, k, p) /\ Hang(k)

(* Slips: the key of a slot that is not found is freed, too; none is.      *)
DeleteTwice(k, p) ==
  \/ /\ Found(umap, k, p)
     /\ umap' = WithoutSlot(umap, p)
     /\ Return("delete", k, NULL)
     /\ strings' = [strings EXCEPT ![k] = @ - 1]
  \/ /\ EndsAtEmpty(umap, p)
     /\ strings' = [strings EXCEPT ![k] = @ - 1]
     /\ Return("delete", k, NULL)
     /\ UNCHANGED umap

DeleteUnfreed(k, p) ==
  /\ Found(umap, k, p)
  /\ umap' = WithoutSlot(umap, p)
  /\ UNCHANGED strings
  /\ Return("delete", k, NULL)

(* _umap_str_delete.                                                       *)
Delete(k, p) ==
  \/ /\ Found(umap, k, p)
     /\ umap' = WithoutSlot(umap, p)
     /\ strings' = [strings EXCEPT ![k] = @ - 1]
     /\ Return("delete", k, NULL)
  \/ /\ EndsAtEmpty(umap, p)
     /\ Return("delete", k, NULL)
     /\ UNCHANGED <<umap, strings>>
  \/ (Clashes(umap, k, p) \/ p = NULL) /\ Hang(k)

(* unordered_map_str_clear: the strings are not freed.                     *)
Clear ==
  /\ umap' = Cleared(umap)
  /\ Return("clear", NULL, NULL)
  /\ UNCHANGED strings

-----------------------------------------------------------------------------
(* _umap_str_resize's loop.                                                *)
RehashNext(t, dropped) ==
  /\ pending' = [key |-> pending.key, value |-> pending.value,
                 next |-> pending.next + 1, dropped |-> dropped, table |-> t]
  /\ UNCHANGED <<umap, hung, out>>

(* Slip: the new table gets the string that the old one has.               *)
RehashMovesString(s, p) ==
  \/ /\ FindMisses(pending.table, s.key, p)
     /\ RehashNext(Placed(pending.table, s.key, s.value), pending.dropped)
     /\ UNCHANGED strings
  \/ Found(pending.table, s.key, p) /\ RehashNext(pending.table, pending.dropped)
       /\ UNCHANGED strings
  \/ FindSpins(pending.table, s.key, p) /\ Hang(s.key)

(* Slip: the node is skipped although there is memory.                     *)
RehashSkips(s, p) ==
  \/ RehashNext(pending.table, pending.dropped) /\ UNCHANGED strings
  \/ FindSpins(pending.table, s.key, p) /\ Hang(s.key)

(* Its insert of a live node: without memory for the copy of the key, the   *)
(* node is not in the new table, and the loop goes on.                     *)
RehashNode(s, p) ==
  \/ /\ FindMisses(pending.table, s.key, p)
     /\ \/ /\ Allocate(s.key)
           /\ RehashNext(Placed(pending.table, s.key, s.value), pending.dropped)
        \/ /\ RehashNext(pending.table, pending.dropped \cup {s.key})
           /\ UNCHANGED strings
  \/ /\ Found(pending.table, s.key, p)
     /\ RehashNext(pending.table, pending.dropped)
     /\ UNCHANGED strings
  \/ FindSpins(pending.table, s.key, p) /\ Hang(s.key)

RehashSlot ==
  /\ pending # NULL
  /\ pending.next < umap.capacity
  /\ LET s == umap.slot[pending.next]
     IN  \/ /\ s \notin Node
            /\ RehashNext(pending.table, pending.dropped)
            /\ UNCHANGED strings
         \/ s \in Node /\ RehashNode(s, Probe(pending.table, s.key))

(* The rest of the insert that resized.  The old table is freed without    *)
(* its strings; the new one stays, also if there is no memory for the key. *)
InsertAfterRehash ==
  /\ pending # NULL
  /\ pending.next = umap.capacity
  /\ \/ /\ Allocate(pending.key)
        /\ umap' = Placed(pending.table, pending.key, pending.value)
        /\ out' = Answer("insert", pending.key, pending.value)
     \/ /\ umap' = pending.table
        /\ out' = Answer("insert", pending.key, NULL)
        /\ UNCHANGED strings
  /\ pending' = NULL
  /\ UNCHANGED hung

Call ==
  /\ pending = NULL
  /\ \/ \E k \in Key :
          LET p == Probe(umap, k) IN Insert(k, p) \/ Find(k, p) \/ Delete(k, p)
     \/ Clear

Rehash == RehashSlot \/ InsertAfterRehash

(* After an endless probe the program makes no further step.               *)
Next == hung = NULL /\ (Call \/ Rehash)

Spec == Init /\ [][Next]_vars

-----------------------------------------------------------------------------
(* The fields stay within their ranges.                                    *)
TypeOK ==
  /\ IsTable(umap)
  /\ strings \in [Key -> 0..StringLimit]
  /\ \/ pending = NULL
     \/ /\ IsTable(pending.table)
        /\ pending \in Underway(pending.table.capacity)
        /\ pending.next \in 0..umap.capacity
  /\ hung \in Key \cup {NULL}
  /\ out \in [call : {"insert", "find", "delete", "clear"},
               key : Key \cup {NULL}, value : Value \cup {NULL}] \cup {NULL}

(* How many live slots of a table have key k.                              *)
Slots(t, k) == Cardinality({p \in Live(t) : t.slot[p].key = k})

Owned(k) == Slots(umap, k) + IF pending = NULL THEN 0 ELSE Slots(pending.table, k)

(* Every live slot, of both tables during a rehash, has an allocated string *)
(* of its own: delete and destroy, which free it, never free one twice and *)
(* no probe compares with a freed one.                                     *)
EverySlotOwnsAString == \A k \in Key : Owned(k) <= strings[k]

(* Strings are lost only a whole table at a time, when a resize or a clear *)
(* drops it: no insert, also none that fails, and no delete loses one.     *)
Lost == [k \in Key |-> strings[k] - Owned(k)]

StringsLostByTable ==
  [][Lost' \in {Lost, [k \in Key |-> Lost[k] + Slots(umap, k)]}]_vars

(* A probe spins only at a key that looks like its own: of a key only bits *)
(* 4 to 6 of the last character show in the tag, which are 3 higher for a  *)
(* key of one character.                                                   *)
Look(key) ==
  CASE key = << >>  -> NULL
    [] Len(key) = 1 -> (key[1] \div 16 + 3) % 8
    [] Len(key) > 1 -> (key[Len(key)] \div 16) % 8

HangIsALookalike ==
  hung # NULL =>
    \E t \in {umap} \cup IF pending = NULL THEN {} ELSE {pending.table} :
      \E p \in Live(t) :
        t.slot[p].key # hung /\ Look(t.slot[p].key) = Look(hung)

(* For the keys whose tag is theirs alone the map is a dictionary, but for *)
(* those that a rehash finds no memory for: it forgets them, and no others. *)
Kept(k) ==
  IF pending # NULL /\ k \in pending.dropped THEN NULL ELSE ContentOf(umap, k)

D == INSTANCE Dictionary WITH
       Key <- Lone,
       dict <- [k \in Lone |-> Kept(k)],
       out <- IF out = NULL \/ out.key \in Lone \cup {NULL} THEN out
              ELSE Answer("other", NULL, NULL)

IsForgetfulDictionary == D!ForgetfulSpec

=============================================================================
