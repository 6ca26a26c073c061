-------------------------------- MODULE Table -------------------------------
(***************************************************************************)
(* The hash table of unordered_map.c, as operators on a record with the    *)
(* fields of unordered_map_t.  unordered_map_str.c has the same table, but  *)
(* for the strings it allocates.  slot[i] is a ctrl byte and its node:     *)
(* Empty, Deleted, or the node of a live slot, whose ctrl byte is the H2 of *)
(* its key.                                                                *)
(***************************************************************************)
EXTENDS Common, FiniteSetsExt

CONSTANTS
  Capacities,      (* powers of two, where & (capacity - 1) is % capacity  *)
  Key, Value,
  H1(_),           (* _umap_h1(_umap_hash(key)): where its chain starts    *)
  H2(_),           (* _umap_h2(_umap_hash(key)): the tag in its ctrl byte  *)
  Empty, Deleted,  (* _UMAP_EMPTY and _UMAP_DELETED                        *)
  NULL

Node == [key : Key, value : Value]

Slot == Node \cup {Empty, Deleted}

ASSUME HashAssumption == \A k \in Key : H1(k) \in Nat

ASSUME SlotAssumption ==
  /\ Empty # Deleted /\ Empty \notin Node /\ Deleted \notin Node
  /\ NULL \notin Key \cup Value \cup Nat

(* UMAP_DEFAULT_CAPACITY is 8 and CC_NEXT_POW2 doubles a power of two: the *)
(* insertions of a rehash never resize in their turn.                      *)
ASSUME CapacityAssumption ==
  /\ DefaultCapacity \in Capacities
  /\ \A c \in Capacities :
       /\ c \in Nat /\ 8 <= c
       /\ c <= HeapLimit => 2 * c <= NextPow2(c) /\ NextPow2(c) \in Capacities

-----------------------------------------------------------------------------
NewTable(c) ==
  [slot |-> [i \in 0..c-1 |-> Empty], length |-> 0, load |-> 0, capacity |-> c]

Live(t) == {p \in 0..t.capacity-1 : t.slot[p] \in Node}

(* The i-th position of k's chain.                                         *)
Pos(t, k, i) == (H1(k) + i) % t.capacity

Home(t, k) == Pos(t, k, 0)

(* Slip: the tag is not compared.                                          *)
AnyTagMatches(s, k) == s \notin {Empty, Deleted}

TagMatches(s, k) == s \notin {Empty, Deleted} /\ H2(s.key) = H2(k)

(* Where the probe for k stops, NULL if nowhere.  It moves on only over a  *)
(* tag that differs from H2(k) and is not Empty; on a tag that matches and *)
(* a key that does not, it stays.                                          *)
Probe(t, k) ==
  LET stops == {i \in 0..t.capacity-1 :
                  LET s == t.slot[Pos(t, k, i)] IN s = Empty \/ TagMatches(s, k)}
  IN  IF stops = {} THEN NULL ELSE Pos(t, k, Min(stops))

(* How the probe for k that stops at p ends.                               *)
Found(t, k, p) == p # NULL /\ t.slot[p] \in Node /\ t.slot[p].key = k

EndsAtEmpty(t, p) == p # NULL /\ t.slot[p] = Empty

Clashes(t, k, p) == p # NULL /\ t.slot[p] \in Node /\ t.slot[p].key # k

(* _umap_find leaves its loop when it is back where it began, and that is  *)
(* also the case if it never moved.                                        *)
FindMisses(t, k, p) ==
  \/ EndsAtEmpty(t, p)
  \/ p = NULL
  \/ Clashes(t, k, p) /\ p = Home(t, k)

FindSpins(t, k, p) == Clashes(t, k, p) /\ p # Home(t, k)

(* The second half of _umap_insert: the first slot of the chain whose ctrl *)
(* byte has the high bit, Empty or Deleted.                                *)
Placed(t, k, v) ==
  LET free == {i \in 0..t.capacity-1 : t.slot[Pos(t, k, i)] \in {Empty, Deleted}}
      p == Pos(t, k, Min(free))
  IN  [slot |-> [t.slot EXCEPT ![p] = [key |-> k, value |-> v]],
       length |-> t.length + 1, load |-> t.load + 1, capacity |-> t.capacity]

(* Slip: > for >=.                                                         *)
OverloadedLate(t) == 8 * t.load > 7 * t.capacity

(* _load_count / (float)_capacity >= 0.875f.                               *)
Overloaded(t) == 8 * t.load >= 7 * t.capacity

(* The slot p of t is marked as deleted.                                   *)
WithoutSlot(t, p) ==
  [slot |-> [t.slot EXCEPT ![p] = Deleted],
   length |-> t.length - 1, load |-> t.load, capacity |-> t.capacity]

(* unordered_map_clear: the counters stay as they are.                     *)
Cleared(t) ==
  [slot |-> [i \in 0..t.capacity-1 |-> Empty],
   length |-> t.length, load |-> t.load, capacity |-> t.capacity]

-----------------------------------------------------------------------------
(* The keys whose tag is theirs alone.                                     *)
Lone == {k \in Key : \A j \in Key \ {k} : H2(j) # H2(k)}

(* The ranges of a table's fields.                                         *)
TableOf(c) ==
  [slot : [0..c-1 -> Slot], length : Nat, load : Nat, capacity : {c}]

IsTable(t) == t.capacity \in 1..HeapLimit /\ t \in TableOf(t.capacity)

HasEmpty(t) == \E p \in 0..t.capacity-1 : t.slot[p] = Empty

(* No Empty slot lies between the start of k's chain and its slot p.       *)
ChainLeadsTo(t, k, p) ==
  \E n \in 0..t.capacity-1 :
    /\ Pos(t, k, n) = p
    /\ \A i \in 0..n-1 : t.slot[Pos(t, k, i)] # Empty

(* What a table holds for key k.                                           *)
ContentOf(t, k) ==
  LET at == {p \in Live(t) : t.slot[p].key = k}
  IN  IF at = {} THEN NULL ELSE t.slot[CHOOSE p \in at : TRUE].value
=============================================================================
