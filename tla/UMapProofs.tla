----------------------------- MODULE UMapProofs -----------------------------
(***************************************************************************)
(* For every hash, capacity, heap limit, key set and value set:            *)
(* unordered_map.c keeps an Empty slot in its table and its chains         *)
(* unbroken, across deletions and rehashes, and for the keys whose tag is  *)
(* theirs alone it is a dictionary.                                        *)
(***************************************************************************)
EXTENDS UMap, TableProofs

-----------------------------------------------------------------------------
(* The rehash is in range: the table it fills is twice as large, and has   *)
(* taken at most one node from each slot it has passed.                    *)
Rehashing ==
  /\ pending.key \in Key /\ pending.value \in Value
  /\ pending.next \in 0..umap.capacity
  /\ GoodTable(pending.table)
  /\ 2 * umap.capacity <= pending.table.capacity
  /\ pending.table.load <= pending.next

OutOK ==
  out \in [call : {"insert", "find", "delete", "clear"},
           key : Key \cup {NULL}, value : Value \cup {NULL}] \cup {NULL}

IInv ==
  /\ GoodTable(umap)
  /\ pending = NULL \/ Rehashing
  /\ hung \in (Key \ Lone) \cup {NULL}
  /\ OutOK

(* The invariants the runs check.                                          *)
Invariants ==
  TypeOK /\ EmptySlotRemains /\ ChainsUnbroken /\ CountersCover /\ HangIsAClash

LEMMA InvImpliesInvariants == IInv => Invariants
<1> SUFFICES ASSUME IInv PROVE Invariants
  OBVIOUS
<1>1. \A t \in Tables : GoodTable(t)
  BY DEF IInv, Rehashing, Tables
<1>2. TypeOK
  BY DEF IInv, OutOK, Rehashing, GoodTable, TypeOK
<1>3. EmptySlotRemains
  BY <1>1, GoodHasEmpty DEF EmptySlotRemains
<1>4. ChainsUnbroken
  BY <1>1 DEF GoodTable, ChainsUnbroken
<1>5. CountersCover
  BY <1>1 DEF GoodTable, Used, CountersCover
<1>6. HangIsAClash
  BY SlotFacts DEF IInv, Lone, HangIsAClash
<1>7. QED
  BY <1>2, <1>3, <1>4, <1>5, <1>6 DEF Invariants

LEMMA InitInv == Init => IInv
<1> SUFFICES ASSUME Init PROVE IInv
  OBVIOUS
<1>1. GoodTable(umap)
  BY NewIsGood, GrowthAssumption, CapacityAssumption DEF Init
<1>2. QED
  BY <1>1 DEF Init, IInv, OutOK

-----------------------------------------------------------------------------
(* A call hands back what the table holds.                                 *)
LEMMA AnswerOK ==
  ASSUME NEW call \in {"insert", "find", "delete", "clear"},
         NEW k \in Key \cup {NULL}, NEW v \in Value \cup {NULL},
         out' = Answer(call, k, v)
  PROVE  OutOK'
BY DEF Answer, OutOK

LEMMA HangKeepsInv ==
  ASSUME IInv, NEW t, GoodTable(t), NEW k \in Key,
         Clashes(t, k, Probe(t, k)) \/ Probe(t, k) = NULL, Hang(k)
  PROVE  IInv'
<1>1. k \notin Lone
  BY ProbeStops, ClashSharesTag
<1>2. hung' = k /\ out' = NULL /\ UNCHANGED <<umap, pending>>
  BY DEF Hang
<1>3. QED
  BY <1>1, <1>2 DEF IInv, Rehashing, OutOK

LEMMA SameTableKeepsInv ==
  ASSUME IInv, OutOK', UNCHANGED <<umap, pending, hung>>
  PROVE  IInv'
BY DEF IInv, Rehashing

LEMMA NewTableKeepsInv ==
  ASSUME IInv, GoodTable(umap'), OutOK', pending' = NULL, UNCHANGED hung
  PROVE  IInv'
BY DEF IInv

LEMMA InsertKeepsInv ==
  ASSUME IInv, pending = NULL, NEW k \in Key, Insert(k, Probe(umap, k))
  PROVE  IInv'
<1> DEFINE p == Probe(umap, k)
<1>1. GoodTable(umap)
  BY DEF IInv
<1>2. CASE InsertExisting(k, p)
  <2>1. OutOK'
    BY <1>2, AnswerOK, FoundValue DEF InsertExisting
  <2>2. QED
    BY <1>2, <2>1, SameTableKeepsInv DEF InsertExisting
<1>3. ASSUME NEW v \in Value, InsertInPlace(k, v) PROVE IInv'
  <2>1. OutOK'
    BY <1>3, AnswerOK DEF InsertInPlace
  <2>2. GoodTable(umap')
    BY <1>1, <1>3, RoomLeft, PlacedIsGood DEF InsertInPlace
  <2>3. QED
    BY <1>3, <2>1, <2>2, NewTableKeepsInv DEF InsertInPlace
<1>4. ASSUME NEW v \in Value, InsertResizes(k, v) PROVE IInv'
  <2> DEFINE c == GrownCapacity(umap.capacity)
             t == NewTable(c)
  <2>1. /\ pending' = [key |-> k, value |-> v, next |-> 0, table |-> t]
        /\ out' = NULL /\ UNCHANGED <<umap, hung>>
        /\ CanGrow(umap.capacity, umap.length)
    BY <1>4 DEF InsertResizes
  <2>2. c \in Capacities /\ c \in 1..HeapLimit /\ 2 * umap.capacity <= c
    BY <1>1, <2>1, GrownTable
  <2> HIDE DEF c
  <2>3. GoodTable(t) /\ t.capacity = c /\ t.load = 0
    BY <2>2, NewIsGood
  <2> HIDE DEF t
  <2>4. /\ pending'.key = k /\ pending'.value = v /\ pending'.next = 0
        /\ pending'.table = t
    BY <2>1
  <2>5. Rehashing'
    BY <1>1, <2>1, <2>2, <2>3, <2>4, TableTypes DEF Rehashing
  <2>6. QED
    BY <2>1, <2>5 DEF IInv, OutOK
<1>5. CASE InsertRefused(k)
  <2>1. OutOK'
    BY <1>5, AnswerOK DEF InsertRefused
  <2>2. QED
    BY <1>5, <2>1, SameTableKeepsInv DEF InsertRefused
<1>6. CASE FindSpins(umap, k, p) /\ Hang(k)
  BY <1>1, <1>6, HangKeepsInv DEF FindSpins
<1>7. QED
  BY <1>2, <1>3, <1>4, <1>5, <1>6 DEF Insert

LEMMA FindKeepsInv ==
  ASSUME IInv, NEW k \in Key, Find(k, Probe(umap, k))
  PROVE  IInv'
<1> DEFINE p == Probe(umap, k)
<1>1. CASE /\ Found(umap, k, p)
           /\ out' = Answer("find", k, umap.slot[p].value)
           /\ UNCHANGED <<umap, pending, hung>>
  BY <1>1, AnswerOK, FoundValue, SameTableKeepsInv
<1>2. CASE /\ out' = Answer("find", k, NULL)
           /\ UNCHANGED <<umap, pending, hung>>
  BY <1>2, AnswerOK, SameTableKeepsInv
<1>3. CASE FindSpins(umap, k, p) /\ Hang(k)
  BY <1>3, HangKeepsInv DEF FindSpins, IInv
<1>4. QED
  BY <1>1, <1>2, <1>3 DEF Find

LEMMA DeleteKeepsInv ==
  ASSUME IInv, pending = NULL, NEW k \in Key, Delete(k, Probe(umap, k))
  PROVE  IInv'
<1> DEFINE p == Probe(umap, k)
<1>1. GoodTable(umap)
  BY DEF IInv
<1>2. CASE /\ Found(umap, k, p)
           /\ umap' = WithoutSlot(umap, p)
           /\ out' = Answer("delete", k, NULL)
           /\ UNCHANGED <<pending, hung>>
  <2>1. p \in Live(umap)
    BY <1>1, <1>2, ProbeStops DEF Found, Live
  <2>2. GoodTable(umap')
    BY <1>1, <1>2, <2>1, WithoutSlotIsGood
  <2>3. QED
    BY <1>2, <2>2, AnswerOK, NewTableKeepsInv
<1>3. CASE /\ EndsAtEmpty(umap, p)
           /\ out' = Answer("delete", k, NULL)
           /\ UNCHANGED <<umap, pending, hung>>
  BY <1>3, AnswerOK, SameTableKeepsInv
<1>4. CASE (Clashes(umap, k, p) \/ p = NULL) /\ Hang(k)
  BY <1>1, <1>4, HangKeepsInv
<1>5. QED
  BY <1>2, <1>3, <1>4 DEF Delete

LEMMA ClearKeepsInv ==
  ASSUME IInv, pending = NULL, Clear
  PROVE  IInv'
<1>1. GoodTable(umap')
  BY ClearedIsGood DEF Clear, IInv
<1>2. QED
  BY <1>1, AnswerOK, NewTableKeepsInv DEF Clear

-----------------------------------------------------------------------------
(* The steps of a rehash.                                                  *)
LEMMA RehashNextKeepsInv ==
  ASSUME IInv, Rehashing, pending.next < umap.capacity,
         NEW t, GoodTable(t), t.capacity = pending.table.capacity,
         t.load <= pending.next + 1, RehashNext(t)
  PROVE  IInv'
<1>1. /\ pending' = [key |-> pending.key, value |-> pending.value,
                     next |-> pending.next + 1, table |-> t]
      /\ UNCHANGED <<umap, hung, out>>
  BY DEF RehashNext
<1>2. /\ pending'.key = pending.key /\ pending'.value = pending.value
      /\ pending'.next = pending.next + 1 /\ pending'.table = t
  BY <1>1
<1>3. pending.next + 1 \in 0..umap.capacity
  BY TableTypes DEF IInv, Rehashing
<1>4. Rehashing'
  BY <1>1, <1>2, <1>3 DEF Rehashing
<1>5. QED
  BY <1>1, <1>4 DEF IInv, OutOK

LEMMA RehashFacts ==
  ASSUME IInv, Rehashing
  PROVE  /\ umap.capacity \in Nat /\ 8 <= umap.capacity
         /\ pending.next \in Nat /\ pending.next <= umap.capacity
         /\ pending.table.load \in Nat /\ pending.table.capacity \in Nat
         /\ GoodTable(pending.table)
         /\ pending.table.load + 1 < pending.table.capacity
<1>1. /\ umap.capacity \in Nat /\ 8 <= umap.capacity
      /\ pending.table.load \in Nat /\ pending.table.capacity \in Nat
  BY TableTypes DEF IInv, Rehashing
<1>2. /\ pending.next \in Nat /\ pending.next <= umap.capacity
      /\ pending.table.load <= pending.next
      /\ 2 * umap.capacity <= pending.table.capacity
  BY <1>1 DEF Rehashing
<1>3. QED
  BY <1>1, <1>2 DEF Rehashing

LEMMA RehashSlotKeepsInv ==
  ASSUME IInv, RehashSlot
  PROVE  IInv'
<1> DEFINE t == pending.table
           s == umap.slot[pending.next]
<1>1. Rehashing /\ pending.next < umap.capacity
  BY DEF RehashSlot, IInv
<1>2. /\ GoodTable(t) /\ t.load + 1 < t.capacity
      /\ t.load \in Nat /\ pending.next \in Nat
      /\ t.load <= pending.next
  BY <1>1, RehashFacts DEF Rehashing
<1>3. t.load <= pending.next + 1 /\ t.load + 1 <= pending.next + 1
  BY <1>2
<1>4. CASE RehashNext(t)
  BY <1>1, <1>2, <1>3, <1>4, RehashNextKeepsInv
<1>5. CASE s \in Node /\ RehashNode(s, Probe(t, s.key))
  <2>1. s.key \in Key /\ s.value \in Value
    BY <1>5 DEF Node
  <2>2. CASE RehashNext(Placed(t, s.key, s.value))
    <3> DEFINE u == Placed(t, s.key, s.value)
    <3>1. GoodTable(u) /\ u.capacity = t.capacity /\ u.load = t.load + 1
      BY <1>2, <2>1, PlacedIsGood
    <3> HIDE DEF u
    <3>2. u.load <= pending.next + 1
      BY <1>3, <3>1
    <3>3. RehashNext(u)
      BY <2>2 DEF u
    <3>4. QED
      BY <1>1, <3>1, <3>2, <3>3, RehashNextKeepsInv
  <2>3. CASE FindSpins(t, s.key, Probe(t, s.key)) /\ Hang(s.key)
    BY <1>2, <2>1, <2>3, HangKeepsInv DEF FindSpins
  <2>4. QED
    BY <1>4, <1>5, <2>2, <2>3 DEF RehashNode
<1>6. QED
  BY <1>4, <1>5 DEF RehashSlot

LEMMA InsertAfterRehashKeepsInv ==
  ASSUME IInv, InsertAfterRehash
  PROVE  IInv'
<1>1. Rehashing
  BY DEF InsertAfterRehash, IInv
<1>2. GoodTable(umap')
  BY <1>1, RehashFacts, PlacedIsGood DEF InsertAfterRehash, Rehashing
<1>3. OutOK'
  BY <1>1, AnswerOK DEF InsertAfterRehash, Rehashing
<1>4. QED
  BY <1>2, <1>3, NewTableKeepsInv DEF InsertAfterRehash

LEMMA StepKeepsInv == IInv /\ [Next]_vars => IInv'
<1> SUFFICES ASSUME IInv, [Next]_vars PROVE IInv'
  OBVIOUS
<1>1. CASE UNCHANGED vars
  BY <1>1 DEF vars, IInv, Rehashing, OutOK
<1>2. CASE Call
  BY <1>2, InsertKeepsInv, FindKeepsInv, DeleteKeepsInv, ClearKeepsInv DEF Call
<1>3. CASE Rehash
  BY <1>3, RehashSlotKeepsInv, InsertAfterRehashKeepsInv DEF Rehash
<1>4. QED
  BY <1>1, <1>2, <1>3 DEF Next

(* TypeOK, EmptySlotRemains, ChainsUnbroken, CountersCover and             *)
(* HangIsAClash, whatever the client calls: a probe for a key whose tag is *)
(* its own always ends, at its node or at an Empty slot.                   *)
THEOREM MapInvariants ==
  Spec => [](TypeOK /\ EmptySlotRemains /\ ChainsUnbroken /\ CountersCover
               /\ HangIsAClash)
<1>1. QED
  BY InitInv, StepKeepsInv, InvImpliesInvariants, PTL DEF Spec, Invariants

-----------------------------------------------------------------------------
(* While a rehash is at slot n, the new table holds the nodes of the lone  *)
(* keys below n, and the key to be inserted is in neither table.           *)
Copied ==
  \A s \in Node :
    s.key \in Lone =>
      (Holds(pending.table, s)
         <=> \E p \in Live(umap) : p < pending.next /\ umap.slot[p] = s)

Copying ==
  /\ Single(pending.table)
  /\ Copied
  /\ pending.key \in Lone => ~HasKey(umap, pending.key)

DInv ==
  /\ IInv
  /\ Single(umap)
  /\ pending = NULL \/ (Rehashing /\ Copying)

Dict == [k \in Lone |-> ContentOf(umap, k)]

Shown ==
  IF out = NULL \/ out.key \in Lone \cup {NULL} THEN out
  ELSE Answer("other", NULL, NULL)

(* What a call shows: for another key, nothing but that it returned.       *)
LEMMA AnswerShown ==
  ASSUME NEW call, NEW k, NEW v, out' = Answer(call, k, v)
  PROVE  /\ k \in Lone \cup {NULL} => Shown' = D!Answer(call, k, v)
         /\ k \notin Lone \cup {NULL}
              => Shown' \in {NULL, D!Answer("other", NULL, NULL)}
<1>1. out'.key = k
  BY DEF Answer
<1>2. out' = D!Answer(call, k, v)
  BY DEF Answer, D!Answer
<1>3. Answer("other", NULL, NULL) = D!Answer("other", NULL, NULL)
  BY DEF Answer, D!Answer
<1>4. QED
  BY <1>1, <1>2, <1>3 DEF Shown

LEMMA QuietStep ==
  ASSUME Dict' = Dict,
         \/ out' = NULL
         \/ \E call, v : \E k \in Key \ Lone : out' = Answer(call, k, v)
  PROVE  D!Next
<1>1. Shown' \in {NULL, D!Answer("other", NULL, NULL)}
  <2>1. CASE out' = NULL
    BY <2>1 DEF Shown
  <2>2. CASE \E call, v : \E k \in Key \ Lone : out' = Answer(call, k, v)
    <3>0. PICK call, v : \E k \in Key \ Lone : out' = Answer(call, k, v)
      BY <2>2
    <3>1. PICK k \in Key \ Lone : out' = Answer(call, k, v)
      BY <3>0
    <3>2. k \notin Lone \cup {NULL}
      BY SlotFacts
    <3>3. QED
      BY <3>1, <3>2, AnswerShown
  <2>3. QED
    BY <2>1, <2>2
<1>2. D!Elsewhere
  BY <1>1 DEF D!Elsewhere, Shown, Dict
<1>3. QED
  BY <1>2 DEF D!Next

LEMMA SameDict ==
  ASSUME UNCHANGED umap
  PROVE  Dict' = Dict
BY DEF Dict

(* A new table that holds other nodes only of one key.                     *)
LEMMA DictAt ==
  ASSUME Single(umap), Single(umap)', NEW k \in Key,
         \A s \in Node : s.key # k => (Holds(umap, s) <=> Holds(umap, s)')
  PROVE  /\ k \notin Lone => Dict' = Dict
         /\ k \in Lone => Dict' = [Dict EXCEPT ![k] = ContentOf(umap, k)']
<1>1. ASSUME NEW j \in Lone, j # k
      PROVE  ContentOf(umap, j)' = ContentOf(umap, j)
  <2>1. \A s \in Node : s.key = j => (Holds(umap, s) <=> Holds(umap', s))
    BY <1>1 DEF Holds, Live
  <2>2. Single(umap')
    BY DEF Single, Live
  <2>3. ContentOf(umap', j) = ContentOf(umap, j)
    BY <2>1, <2>2, SameContent
  <2>4. QED
    BY <2>3 DEF ContentOf, Live
<1>2. QED
  BY <1>1 DEF Dict

-----------------------------------------------------------------------------
(* The calls.                                                              *)
LEMMA UnchangedTable ==
  ASSUME DInv, IInv', UNCHANGED <<umap, pending>>
  PROVE  DInv' /\ Dict' = Dict
BY DEF DInv, Copying, Copied, Rehashing, Single, Holds, HasKey, Live, Dict

LEMMA InsertIsDictionary ==
  ASSUME DInv, pending = NULL, NEW k \in Key, Insert(k, Probe(umap, k))
  PROVE  DInv' /\ D!Next
<1> DEFINE p == Probe(umap, k)
<1>0. IInv' /\ GoodTable(umap) /\ Single(umap)
  BY InsertKeepsInv DEF DInv, IInv
<1>1. CASE InsertExisting(k, p)
  <2>1. /\ out' = Answer("insert", k, umap.slot[p].value)
        /\ Found(umap, k, p) /\ UNCHANGED <<umap, pending>>
    BY <1>1 DEF InsertExisting
  <2>2. DInv' /\ Dict' = Dict
    BY <1>0, <2>1, UnchangedTable
  <2>3. CASE k \notin Lone
    BY <2>1, <2>2, <2>3, QuietStep
  <2>4. CASE k \in Lone
    <3>1. p \in Live(umap) /\ umap.slot[p].key = k /\ HasKey(umap, k)
      BY <1>0, <2>1, <2>4, LoneProbe DEF Found
    <3>2. Dict[k] = umap.slot[p].value /\ Dict[k] # NULL
      BY <1>0, <2>4, <3>1, ContentWhenHeld, ContentIsNotNull DEF Dict
    <3>3. Shown' = D!Answer("insert", k, Dict[k])
      BY <2>1, <2>4, <3>2, AnswerShown
    <3>4. D!InsertExisting(k)
      BY <2>2, <3>2, <3>3 DEF D!InsertExisting, Dict, Shown
    <3>5. QED
      BY <2>2, <2>4, <3>4 DEF D!Next
  <2>5. QED
    BY <2>3, <2>4
<1>2. ASSUME NEW v \in Value, FindMisses(umap, k, p), InsertInPlace(k, v)
      PROVE  DInv' /\ D!Next
  <2>1. /\ umap' = Placed(umap, k, v) /\ out' = Answer("insert", k, v)
        /\ umap.load + 1 < umap.capacity /\ pending' = NULL
    BY <1>0, <1>2, RoomLeft DEF InsertInPlace
  <2>2. k \in Lone => ~HasKey(umap, k)
    BY <1>0, <1>2, LoneMiss
  <2>3. /\ Single(umap')
        /\ \A s : Holds(umap', s) <=> Holds(umap, s) \/ s = [key |-> k, value |-> v]
    BY <1>0, <2>1, <2>2, PlacedHolds
  <2>4. DInv'
    BY <1>0, <2>1, <2>3 DEF DInv, Single, Live
  <2>5. \A s \in Node : s.key # k => (Holds(umap, s) <=> Holds(umap, s)')
    BY <2>3 DEF Holds, Live
  <2>6. Single(umap)'
    BY <2>3 DEF Single, Live
  <2>7. CASE k \notin Lone
    BY <1>0, <2>1, <2>4, <2>5, <2>6, <2>7, DictAt, QuietStep
  <2>8. CASE k \in Lone
    <3>1. Dict' = [Dict EXCEPT ![k] = ContentOf(umap, k)']
      BY <1>0, <2>5, <2>6, <2>8, DictAt
    <3>2. ContentOf(umap, k)' = v
      <4>1. PICK q \in Live(umap') : umap'.slot[q] = [key |-> k, value |-> v]
        BY <2>3 DEF Holds
      <4>2. ContentOf(umap', k) = v
        BY <2>3, <2>8, <4>1, ContentWhenHeld
      <4>3. QED
        BY <4>2 DEF ContentOf, Live
    <3>3. Dict[k] = NULL
      BY <2>2, <2>8, ContentWhenNot DEF Dict
    <3>4. Shown' = D!Answer("insert", k, v)
      BY <2>1, <2>8, AnswerShown
    <3>5. D!InsertNew(k, v)
      BY <3>1, <3>2, <3>3, <3>4 DEF D!InsertNew, Dict, Shown
    <3>6. QED
      BY <2>4, <2>8, <3>5 DEF D!Next
  <2>9. QED
    BY <2>7, <2>8
<1>3. ASSUME NEW v \in Value, FindMisses(umap, k, p), InsertResizes(k, v)
      PROVE  DInv' /\ D!Next
  <2> DEFINE c == GrownCapacity(umap.capacity)
             t == NewTable(c)
  <2>1. /\ pending' = [key |-> k, value |-> v, next |-> 0, table |-> t]
        /\ out' = NULL /\ UNCHANGED <<umap, hung>>
        /\ CanGrow(umap.capacity, umap.length)
    BY <1>3 DEF InsertResizes
  <2>2. c \in Capacities /\ c \in 1..HeapLimit
    BY <1>0, <2>1, GrownTable
  <2> HIDE DEF c
  <2>3. Live(t) = {}
    BY <2>2, NewIsGood
  <2> HIDE DEF t
  <2>4. pending'.key = k /\ pending'.next = 0 /\ pending'.table = t
    BY <2>1
  <2>5. k \in Lone => ~HasKey(umap, k)
    BY <1>0, <1>3, LoneMiss
  <2>6. Single(t) /\ \A s : ~Holds(t, s)
    BY <2>3, NothingHeld
  <2>7. \A q \in Live(umap) : ~(q < 0)
    BY <1>0, TableTypes DEF Live
  <2>8. Copying'
    BY <2>1, <2>4, <2>5, <2>6, <2>7
       DEF Copying, Copied, Single, Holds, HasKey, Live
  <2>9. DInv'
    BY <1>0, <2>1, <2>8 DEF DInv, IInv, Single, Live
  <2>10. QED
    BY <2>1, <2>9, SameDict, QuietStep
<1>4. CASE FindMisses(umap, k, p) /\ InsertRefused(k)
  <2>1. out' = Answer("insert", k, NULL) /\ UNCHANGED <<umap, pending>>
    BY <1>4 DEF InsertRefused
  <2>2. DInv' /\ Dict' = Dict
    BY <1>0, <2>1, UnchangedTable
  <2>3. CASE k \notin Lone
    BY <2>1, <2>2, <2>3, QuietStep
  <2>4. CASE k \in Lone
    <3>1. Dict[k] = NULL
      BY <1>0, <1>4, <2>4, LoneMiss, ContentWhenNot DEF Dict
    <3>2. Shown' = D!Answer("insert", k, NULL)
      BY <2>1, <2>4, AnswerShown
    <3>3. D!InsertRefused(k)
      BY <2>2, <3>1, <3>2 DEF D!InsertRefused, Dict, Shown
    <3>4. QED
      BY <2>2, <2>4, <3>3 DEF D!Next
  <2>5. QED
    BY <2>3, <2>4
<1>5. CASE Hang(k)
  BY <1>0, <1>5, UnchangedTable, QuietStep DEF Hang
<1>6. QED
  BY <1>1, <1>2, <1>3, <1>4, <1>5 DEF Insert

LEMMA FindIsDictionary ==
  ASSUME DInv, NEW k \in Key, Find(k, Probe(umap, k))
  PROVE  DInv' /\ D!Next
<1> DEFINE p == Probe(umap, k)
<1>0. IInv' /\ GoodTable(umap) /\ Single(umap)
  BY FindKeepsInv DEF DInv, IInv
<1>1. DInv' /\ Dict' = Dict
  BY <1>0, UnchangedTable DEF Find, Hang
<1>2. CASE Hang(k)
  BY <1>1, <1>2, QuietStep DEF Hang
<1>3. ASSUME NEW v, out' = Answer("find", k, v), k \notin Lone PROVE D!Next
  BY <1>1, <1>3, QuietStep
<1>4. ASSUME NEW v, out' = Answer("find", k, v), k \in Lone, Dict[k] = v PROVE D!Next
  <2>1. Shown' = D!Answer("find", k, Dict[k])
    BY <1>4, AnswerShown
  <2>2. D!Find(k)
    BY <1>1, <2>1 DEF D!Find, Dict, Shown
  <2>3. QED
    BY <1>4, <2>2 DEF D!Next
<1>5. CASE Found(umap, k, p) /\ out' = Answer("find", k, umap.slot[p].value)
  <2>1. k \in Lone => Dict[k] = umap.slot[p].value
    BY <1>0, <1>5, LoneProbe, ContentWhenHeld DEF Found, Dict
  <2>2. QED
    BY <1>1, <1>3, <1>4, <1>5, <2>1
<1>6. CASE FindMisses(umap, k, p) /\ out' = Answer("find", k, NULL)
  <2>1. k \in Lone => Dict[k] = NULL
    BY <1>0, <1>6, LoneMiss, ContentWhenNot DEF Dict
  <2>2. QED
    BY <1>1, <1>3, <1>4, <1>6, <2>1
<1>7. QED
  BY <1>1, <1>2, <1>5, <1>6 DEF Find

LEMMA DeleteIsDictionary ==
  ASSUME DInv, pending = NULL, NEW k \in Key, Delete(k, Probe(umap, k))
  PROVE  DInv' /\ D!Next
<1> DEFINE p == Probe(umap, k)
<1>0. IInv' /\ GoodTable(umap) /\ Single(umap)
  BY DeleteKeepsInv DEF DInv, IInv
<1>1. CASE /\ Found(umap, k, p)
           /\ umap' = WithoutSlot(umap, p)
           /\ out' = Answer("delete", k, NULL)
           /\ UNCHANGED <<pending, hung>>
  <2>1. p \in Live(umap) /\ umap.slot[p].key = k
    BY <1>0, <1>1, ProbeStops DEF Found, Live
  <2>2. /\ Single(umap')
        /\ \A s : s.key # k => (Holds(umap', s) <=> Holds(umap, s))
        /\ k \in Lone => ~HasKey(umap', k)
    BY <1>0, <1>1, <2>1, WithoutSlotHolds
  <2>3. DInv'
    BY <1>0, <1>1, <2>2 DEF DInv, Single, Live
  <2>4. \A s \in Node : s.key # k => (Holds(umap, s) <=> Holds(umap, s)')
    BY <2>2 DEF Holds, Live
  <2>5. Single(umap)'
    BY <2>2 DEF Single, Live
  <2>6. CASE k \notin Lone
    BY <1>0, <1>1, <2>3, <2>4, <2>5, <2>6, DictAt, QuietStep
  <2>7. CASE k \in Lone
    <3>1. Dict' = [Dict EXCEPT ![k] = ContentOf(umap, k)']
      BY <1>0, <2>4, <2>5, <2>7, DictAt
    <3>2. ContentOf(umap, k)' = NULL
      <4>1. ContentOf(umap', k) = NULL
        BY <2>2, <2>7, ContentWhenNot
      <4>2. QED
        BY <4>1 DEF ContentOf, Live
    <3>3. Shown' = D!Answer("delete", k, NULL)
      BY <1>1, <2>7, AnswerShown
    <3>4. D!Delete(k)
      BY <3>1, <3>2, <3>3 DEF D!Delete, Dict, Shown
    <3>5. QED
      BY <2>3, <2>7, <3>4 DEF D!Next
  <2>8. QED
    BY <2>6, <2>7
<1>2. CASE /\ EndsAtEmpty(umap, p)
           /\ out' = Answer("delete", k, NULL)
           /\ UNCHANGED <<umap, pending, hung>>
  <2>1. DInv' /\ Dict' = Dict
    BY <1>0, <1>2, UnchangedTable
  <2>2. CASE k \notin Lone
    BY <1>2, <2>1, <2>2, QuietStep
  <2>3. CASE k \in Lone
    <3>1. Dict[k] = NULL
      BY <1>0, <1>2, <2>3, LoneProbe, ContentWhenNot DEF Dict
    <3>2. Dict' = [Dict EXCEPT ![k] = NULL]
      BY <2>1, <2>3, <3>1 DEF Dict
    <3>3. Shown' = D!Answer("delete", k, NULL)
      BY <1>2, <2>3, AnswerShown
    <3>4. D!Delete(k)
      BY <3>2, <3>3 DEF D!Delete, Dict, Shown
    <3>5. QED
      BY <2>1, <2>3, <3>4 DEF D!Next
  <2>4. QED
    BY <2>2, <2>3
<1>3. CASE Hang(k)
  BY <1>0, <1>3, UnchangedTable, QuietStep DEF Hang
<1>4. QED
  BY <1>1, <1>2, <1>3 DEF Delete

LEMMA ClearIsDictionary ==
  ASSUME DInv, pending = NULL, Clear
  PROVE  DInv' /\ D!Next
<1>0. IInv' /\ GoodTable(umap)
  BY ClearKeepsInv DEF DInv, IInv
<1>1. /\ umap' = Cleared(umap) /\ pending' = NULL
      /\ out' = Answer("clear", NULL, NULL)
  BY DEF Clear
<1>2. Live(umap') = {}
  BY <1>0, <1>1, ClearedIsGood
<1>3. Single(umap') /\ \A k : ~HasKey(umap', k)
  BY <1>2, NothingHeld
<1>4. DInv'
  BY <1>0, <1>1, <1>3 DEF DInv, Single, Live
<1>5. \A k \in Lone : ContentOf(umap', k) = NULL
  BY <1>3, ContentWhenNot
<1>6. Dict' = [k \in Lone |-> NULL]
  BY <1>5 DEF Dict, ContentOf, Live
<1>7. Shown' = D!Answer("clear", NULL, NULL)
  BY <1>1, AnswerShown
<1>8. D!Clear
  BY <1>6, <1>7 DEF D!Clear, Dict, Shown
<1>9. QED
  BY <1>4, <1>8 DEF D!Next

-----------------------------------------------------------------------------
(* The rehash.                                                             *)
LEMMA RehashNextIsDictionary ==
  ASSUME DInv, IInv', Rehashing, Copying, pending.next < umap.capacity,
         NEW t, RehashNext(t), Single(t),
         \A s \in Node : s.key \in Lone =>
           (Holds(t, s) <=> Holds(pending.table, s)
                              \/ (s = umap.slot[pending.next]))
  PROVE  DInv' /\ Dict' = Dict
<1> DEFINE n == pending.next
<1>1. /\ pending' = [key |-> pending.key, value |-> pending.value,
                     next |-> n + 1, table |-> t]
      /\ UNCHANGED umap
  BY DEF RehashNext
<1>2. pending'.key = pending.key /\ pending'.next = n + 1 /\ pending'.table = t
  BY <1>1
<1>3. /\ umap.capacity \in Nat /\ n \in Nat
      /\ Live(umap) \subseteq 0..umap.capacity-1
  BY RehashFacts, TableTypes DEF DInv, IInv
<1>4. ASSUME NEW s \in Node, s.key \in Lone
      PROVE  Holds(t, s) <=> \E p \in Live(umap) : p < n + 1 /\ umap.slot[p] = s
  <2>1. Holds(pending.table, s) <=> \E p \in Live(umap) : p < n /\ umap.slot[p] = s
    BY <1>4 DEF Copying, Copied
  <2>2. s = umap.slot[n] => n \in Live(umap)
    BY <1>3 DEF Live
  <2>3. \A p \in Live(umap) : p < n + 1 <=> p < n \/ p = n
    BY <1>3
  <2>4. QED
    BY <1>4, <2>1, <2>2, <2>3
<1>5. Copying'
  BY <1>1, <1>2, <1>4 DEF Copying, Copied, Single, Holds, HasKey, Live
<1>6. DInv'
  BY <1>1, <1>5 DEF DInv, IInv, Single, Live
<1>7. QED
  BY <1>1, <1>6, SameDict

LEMMA RehashSlotIsDictionary ==
  ASSUME DInv, RehashSlot
  PROVE  DInv' /\ Dict' = Dict /\ Shown' \in {Shown, NULL}
<1> DEFINE t == pending.table
           n == pending.next
           s == umap.slot[n]
           p == Probe(t, s.key)
<1>1. /\ Rehashing /\ Copying /\ n < umap.capacity
      /\ n \in 0..umap.capacity-1 /\ Single(umap) /\ Single(t)
  BY RehashFacts DEF RehashSlot, DInv, Copying
<1>2. GoodTable(t) /\ t.load + 1 < t.capacity
  BY <1>1, RehashFacts DEF DInv
<1>3. IInv'
  BY RehashSlotKeepsInv DEF DInv
<1>4. ASSUME s \notin Node, RehashNext(t) PROVE DInv' /\ Dict' = Dict
  BY <1>1, <1>3, <1>4, RehashNextIsDictionary
<1>5. ASSUME s \in Node, FindMisses(t, s.key, p),
             RehashNext(Placed(t, s.key, s.value))
      PROVE  DInv' /\ Dict' = Dict
  <2> DEFINE u == Placed(t, s.key, s.value)
  <2>1. s.key \in Key /\ s.value \in Value
    BY <1>5 DEF Node
  <2>2. s = [key |-> s.key, value |-> s.value]
    BY <1>5 DEF Node
  <2>3. s.key \in Lone => ~HasKey(t, s.key)
    BY <1>2, <1>5, <2>1, LoneMiss
  <2>4. Single(u) /\ \A r : Holds(u, r) <=> Holds(t, r) \/ r = s
    BY <1>1, <1>2, <2>1, <2>2, <2>3, PlacedHolds
  <2> HIDE DEF u
  <2>5. RehashNext(u)
    BY <1>5 DEF u
  <2>6. QED
    BY <1>1, <1>3, <2>4, <2>5, RehashNextIsDictionary
<1>6. ASSUME s \in Node, Found(t, s.key, p), RehashNext(t)
      PROVE  DInv' /\ Dict' = Dict
  <2>1. s.key \notin Lone
    <3> SUFFICES ASSUME s.key \in Lone PROVE FALSE
      OBVIOUS
    <3>1. p \in Live(t) /\ t.slot[p].key = s.key
      BY <1>2, <1>6, LoneProbe DEF Found
    <3>2. t.slot[p] \in Node /\ Holds(t, t.slot[p])
      BY <3>1 DEF Live, Holds
    <3>3. PICK q \in Live(umap) : q < n /\ umap.slot[q] = t.slot[p]
      BY <1>1, <3>1, <3>2 DEF Copying, Copied
    <3>4. n \in Live(umap)
      BY <1>1, <1>6 DEF Live
    <3>5. q = n
      BY <1>1, <3>1, <3>3, <3>4 DEF Single
    <3>6. n \in Nat
      BY <1>1, RehashFacts DEF DInv
    <3>7. QED
      BY <3>3, <3>5, <3>6
  <2>2. QED
    BY <1>1, <1>3, <1>6, <2>1, RehashNextIsDictionary
<1>7. ASSUME Hang(s.key) PROVE DInv' /\ Dict' = Dict
  BY <1>3, <1>7, UnchangedTable DEF Hang
<1>8. DInv' /\ Dict' = Dict
  BY <1>4, <1>5, <1>6, <1>7 DEF RehashSlot, RehashNode
<1>9. Shown' \in {Shown, NULL}
  <2>1. out' = out \/ out' = NULL
    BY DEF RehashSlot, RehashNode, RehashNext, Hang
  <2>2. QED
    BY <2>1 DEF Shown
<1>10. QED
  BY <1>8, <1>9

LEMMA InsertAfterRehashIsDictionary ==
  ASSUME DInv, InsertAfterRehash
  PROVE  DInv' /\ D!Next
<1> DEFINE t == pending.table
           k == pending.key
           v == pending.value
<1>1. /\ Rehashing /\ Copying /\ pending.next = umap.capacity
      /\ Single(umap) /\ Single(t) /\ GoodTable(umap)
      /\ k \in Key /\ v \in Value
  BY DEF InsertAfterRehash, DInv, IInv, Copying, Rehashing
<1>2. GoodTable(t) /\ t.load + 1 < t.capacity
  BY <1>1, RehashFacts DEF DInv
<1>3. umap' = Placed(t, k, v) /\ out' = Answer("insert", k, v) /\ pending' = NULL
  BY DEF InsertAfterRehash
<1>4. ASSUME NEW s \in Node, s.key \in Lone PROVE Holds(t, s) <=> Holds(umap, s)
  <2>1. \A p \in Live(umap) : p < pending.next
    BY <1>1, TableTypes DEF Live
  <2>2. QED
    BY <1>1, <1>4, <2>1 DEF Copying, Copied, Holds
<1>5. ASSUME k \in Lone PROVE ~HasKey(t, k) /\ ~HasKey(umap, k)
  <2>1. ~HasKey(umap, k)
    BY <1>1, <1>5 DEF Copying
  <2>2. ASSUME NEW q \in Live(t), t.slot[q].key = k PROVE FALSE
    <3>1. t.slot[q] \in Node /\ Holds(t, t.slot[q])
      BY DEF Live, Holds
    <3>2. Holds(umap, t.slot[q])
      BY <1>4, <1>5, <2>2, <3>1
    <3>3. QED
      BY <2>1, <2>2, <3>2 DEF Holds, HasKey
  <2>3. QED
    BY <2>1, <2>2 DEF HasKey
<1>6. /\ Single(umap')
      /\ \A s : Holds(umap', s) <=> Holds(t, s) \/ s = [key |-> k, value |-> v]
  BY <1>1, <1>2, <1>3, <1>5, PlacedHolds
<1> HIDE DEF t, k, v
<1>7. DInv'
  <2>1. IInv'
    BY InsertAfterRehashKeepsInv DEF DInv
  <2>2. QED
    BY <1>3, <1>6, <2>1 DEF DInv, Single, Live
<1>8. ASSUME NEW j \in Lone, j # k PROVE ContentOf(umap', j) = ContentOf(umap, j)
  <2>1. \A s \in Node : s.key = j => (Holds(umap, s) <=> Holds(umap', s))
    BY <1>4, <1>6, <1>8
  <2>2. QED
    BY <1>1, <1>6, <2>1, SameContent
<1>9. CASE k \notin Lone
  <2>1. Dict' = Dict
    <3>1. \A j \in Lone : ContentOf(umap', j) = ContentOf(umap, j)
      BY <1>8, <1>9
    <3>2. Dict' = [j \in Lone |-> ContentOf(umap', j)]
      BY DEF Dict, ContentOf, Live
    <3>3. QED
      BY <3>1, <3>2 DEF Dict
  <2>2. QED
    BY <1>1, <1>3, <1>7, <1>9, <2>1, QuietStep
<1>10. CASE k \in Lone
  <2>1. PICK q \in Live(umap') : umap'.slot[q] = [key |-> k, value |-> v]
    BY <1>6 DEF Holds
  <2>2. ContentOf(umap', k) = v
    BY <1>6, <1>10, <2>1, ContentWhenHeld
  <2>3. Dict[k] = NULL
    BY <1>5, <1>10, ContentWhenNot DEF Dict
  <2>4. Dict' = [Dict EXCEPT ![k] = v]
    <3>1. \A j : ContentOf(umap, j)' = ContentOf(umap', j)
      BY DEF ContentOf, Live
    <3>2. QED
      BY <1>8, <1>10, <2>2, <3>1 DEF Dict
  <2>5. Shown' = D!Answer("insert", k, v)
    BY <1>3, <1>10, AnswerShown
  <2>6. D!InsertNew(k, v)
    BY <2>3, <2>4, <2>5 DEF D!InsertNew, Dict, Shown
  <2>7. QED
    BY <1>1, <1>7, <1>10, <2>6 DEF D!Next
<1>11. QED
  BY <1>9, <1>10

-----------------------------------------------------------------------------
LEMMA InitIsDictionary == Init => DInv /\ D!Init
<1> SUFFICES ASSUME Init PROVE DInv /\ D!Init
  OBVIOUS
<1>1. Live(umap) = {}
  BY NewIsGood, GrowthAssumption, CapacityAssumption DEF Init
<1>2. Single(umap) /\ \A k : ~HasKey(umap, k)
  BY <1>1, NothingHeld
<1>3. DInv
  BY <1>2, InitInv DEF Init, DInv
<1>4. Dict = [k \in Lone |-> NULL]
  BY <1>2, ContentWhenNot DEF Dict
<1>5. QED
  BY <1>3, <1>4 DEF Init, D!Init, Dict

LEMMA StepIsDictionary ==
  DInv /\ [Next]_vars => DInv' /\ [D!Next]_<<Dict, Shown>>
<1> SUFFICES ASSUME DInv, [Next]_vars PROVE DInv' /\ [D!Next]_<<Dict, Shown>>
  OBVIOUS
<1>1. CASE UNCHANGED vars
  <2>1. IInv'
    BY <1>1, StepKeepsInv DEF DInv
  <2>2. QED
    BY <1>1, <2>1, UnchangedTable DEF vars, Shown
<1>2. CASE Call
  BY <1>2, InsertIsDictionary, FindIsDictionary, DeleteIsDictionary,
     ClearIsDictionary DEF Call
<1>3. CASE RehashSlot
  <2>1. DInv' /\ Dict' = Dict /\ Shown' \in {Shown, NULL}
    BY <1>3, RehashSlotIsDictionary
  <2>2. CASE Shown' = Shown
    BY <2>1, <2>2
  <2>3. CASE Shown' = NULL
    <3>1. D!Elsewhere
      BY <2>1, <2>3 DEF D!Elsewhere, Dict, Shown
    <3>2. QED
      BY <2>1, <3>1 DEF D!Next
  <2>4. QED
    BY <2>1, <2>2, <2>3
<1>4. CASE InsertAfterRehash
  BY <1>4, InsertAfterRehashIsDictionary
<1>5. QED
  BY <1>1, <1>2, <1>3, <1>4 DEF Next, Rehash

(* IsDictionary: whatever the client calls, and whatever happens to the    *)
(* keys that share a tag, unordered_map.c implements a dictionary of the   *)
(* keys whose tag is theirs alone.                                         *)
THEOREM LoneKeysAreDictionary == Spec => IsDictionary
<1>1. DInv /\ [Next]_vars => DInv' /\ [D!Next]_<<Dict, Shown>>
  BY StepIsDictionary
<1>2. QED
  BY InitIsDictionary, <1>1, PTL
     DEF Spec, IsDictionary, D!Spec, D!vars, Dict, Shown
=============================================================================
