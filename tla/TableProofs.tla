----------------------------- MODULE TableProofs ----------------------------
(***************************************************************************)
(* What the operators of the hash table do to a table whose counters cover *)
(* its slots and whose chains are unbroken, for every hash, capacity, heap *)
(* limit, key set and value set.                                           *)
(***************************************************************************)
EXTENDS Table, Lemmas, FiniteSetTheorems

-----------------------------------------------------------------------------
(* A chain reaches every position of the table: what & (capacity - 1)      *)
(* makes of consecutive numbers.                                           *)
LEMMA DivMod ==
  ASSUME NEW x \in Nat, NEW c \in Nat \ {0}
  PROVE  /\ x % c \in Nat /\ x % c < c /\ x \div c \in Nat
         /\ x = c * (x \div c) + (x % c)
OBVIOUS

(* The quotient and the remainder of a division are unique.                *)
LEMMA QuotientOrder ==
  ASSUME NEW c \in Nat \ {0}, NEW q \in Int, NEW p \in Int, q < p
  PROVE  c * q + c <= c * p
<1>1. PICK k \in Nat : p = q + 1 + k
  <2>1. p - q - 1 \in Nat /\ p = q + 1 + (p - q - 1)
    OBVIOUS
  <2>2. QED
    BY <2>1
<1>2. c * p = c * q + c + c * k
  BY <1>1
<1>3. c * k \in Nat
  BY <1>1
<1>4. c * q \in Int
  OBVIOUS
<1>5. QED
  BY <1>2, <1>3, <1>4

LEMMA RemainderUnique ==
  ASSUME NEW c \in Nat \ {0}, NEW q \in Int, NEW p \in Int,
         NEW r \in 0..c-1, NEW s \in 0..c-1, c * q + r = c * p + s
  PROVE  r = s
<1>0. c * q \in Int /\ c * p \in Int /\ r \in Int /\ s \in Int
  OBVIOUS
<1>1. ~(q < p)
  <2> SUFFICES ASSUME q < p PROVE FALSE
    OBVIOUS
  <2>1. c * q + c <= c * p
    BY QuotientOrder
  <2>2. QED
    BY <1>0, <2>1
<1>2. ~(p < q)
  <2> SUFFICES ASSUME p < q PROVE FALSE
    OBVIOUS
  <2>1. c * p + c <= c * q
    BY QuotientOrder
  <2>2. QED
    BY <1>0, <2>1
<1>3. q = p
  BY <1>1, <1>2
<1>4. QED
  BY <1>0, <1>3

LEMMA ModAdd ==
  ASSUME NEW x \in Nat, NEW c \in Nat \ {0}, NEW i \in 0..c-1
  PROVE  (x + i) % c = IF (x % c) + i < c THEN (x % c) + i ELSE (x % c) + i - c
<1> DEFINE r == x % c
           q == x \div c
           s == (x + i) % c
           p == (x + i) \div c
           t == IF r + i < c THEN r + i ELSE r + i - c
           u == IF r + i < c THEN q ELSE q + 1
<1>1. r \in 0..c-1 /\ q \in Nat /\ x = c * q + r
  BY DivMod
<1>2. s \in 0..c-1 /\ p \in Nat /\ x + i = c * p + s
  <2>1. x + i \in Nat
    OBVIOUS
  <2>2. QED
    BY <2>1, DivMod
<1> HIDE DEF r, q, s, p
<1>3. t \in 0..c-1 /\ u \in Int
  BY <1>1
<1>4. c * (q + 1) = c * q + c
  BY <1>1
<1>5. c * q \in Int
  BY <1>1
<1>6. x + i = c * u + t
  <2>1. CASE r + i < c
    BY <1>1, <1>5, <2>1
  <2>2. CASE ~(r + i < c)
    BY <1>1, <1>4, <1>5, <2>2
  <2>3. QED
    BY <2>1, <2>2
<1> HIDE DEF t, u
<1>7. s = t
  <2>1. p \in Int /\ c * p + s = c * u + t
    BY <1>2, <1>6
  <2>2. QED
    BY <1>2, <1>3, <2>1, RemainderUnique
<1>8. s = IF r + i < c THEN r + i ELSE r + i - c
  BY <1>7 DEF t
<1>9. QED
  BY <1>8 DEF s, r

LEMMA ModReaches ==
  ASSUME NEW x \in Nat, NEW c \in Nat \ {0}, NEW p \in 0..c-1
  PROVE  \E i \in 0..c-1 : (x + i) % c = p
<1> DEFINE r == x % c
           i == IF r <= p THEN p - r ELSE p - r + c
<1>1. r \in 0..c-1
  BY DivMod
<1> HIDE DEF r
<1>2. i \in 0..c-1
  BY <1>1
<1>3. (IF r + i < c THEN r + i ELSE r + i - c) = p
  BY <1>1
<1> HIDE DEF i
<1>4. (x + i) % c = p
  BY <1>2, <1>3, ModAdd, Zenon DEF r
<1>5. QED
  BY <1>2, <1>4

LEMMA MinIsLeast ==
  ASSUME NEW S \in SUBSET Nat, S # {}
  PROVE  Min(S) \in S /\ \A m \in S : Min(S) <= m
BY LeastElement DEF Min

-----------------------------------------------------------------------------
(* The slots no probe ends at.                                             *)
Used(t) == {p \in 0..t.capacity-1 : t.slot[p] # Empty}

(* No table fills up: the load count covers the slots in use and is less   *)
(* than the capacity.                                                      *)
GoodTable(t) ==
  /\ IsTable(t)
  /\ t.capacity \in Capacities
  /\ Cardinality(Live(t)) <= t.length
  /\ t.length <= t.load
  /\ Cardinality(Used(t)) <= t.load
  /\ t.load < t.capacity
  /\ \A p \in Live(t) : ChainLeadsTo(t, t.slot[p].key, p)

LEMMA SlotFacts ==
  /\ Empty \notin Node /\ Deleted \notin Node /\ Empty # Deleted
  /\ NULL \notin Nat /\ NULL \notin Key /\ NULL \notin Value
  /\ \A k \in Key : H1(k) \in Nat
BY SlotAssumption, HashAssumption

LEMMA RecordIsTable ==
  ASSUME NEW c \in 1..HeapLimit, NEW f \in [0..c-1 -> Slot],
         NEW n \in Nat, NEW m \in Nat, NEW t,
         t = [slot |-> f, length |-> n, load |-> m, capacity |-> c]
  PROVE  IsTable(t)
<1>1. t.slot = f /\ t.capacity = c
  OBVIOUS
<1>2. t \in [slot : [0..c-1 -> Slot], length : Nat, load : Nat, capacity : {c}]
  OBVIOUS
<1>3. QED
  BY <1>1, <1>2 DEF IsTable, TableOf

LEMMA TableTypes ==
  ASSUME NEW t, GoodTable(t)
  PROVE  /\ t.capacity \in Nat \ {0} /\ 8 <= t.capacity
         /\ t.capacity \in 1..HeapLimit
         /\ t.length \in Nat /\ t.load \in Nat
         /\ t.slot \in [0..t.capacity-1 -> Slot]
         /\ Live(t) \subseteq Used(t) /\ Used(t) \subseteq 0..t.capacity-1
<1>1. /\ t.capacity \in 1..HeapLimit /\ t.length \in Nat /\ t.load \in Nat
      /\ t.slot \in [0..t.capacity-1 -> Slot]
  BY DEF GoodTable, IsTable, TableOf
<1>2. t.capacity \in Nat /\ 8 <= t.capacity
  BY CapacityAssumption DEF GoodTable
<1>3. QED
  BY <1>1, <1>2, SlotFacts DEF Live, Used

LEMMA SlotsAreFinite ==
  ASSUME NEW t, t.capacity \in Nat
  PROVE  /\ IsFiniteSet(0..t.capacity-1) /\ Cardinality(0..t.capacity-1) = t.capacity
         /\ IsFiniteSet(Live(t)) /\ Cardinality(Live(t)) \in Nat
         /\ IsFiniteSet(Used(t)) /\ Cardinality(Used(t)) \in Nat
<1>1. IsFiniteSet(0..t.capacity-1) /\ Cardinality(0..t.capacity-1) = t.capacity
  <2>1. /\ IsFiniteSet(0..t.capacity-1)
        /\ Cardinality(0..t.capacity-1)
             = IF 0 > t.capacity-1 THEN 0 ELSE t.capacity-1 - 0 + 1
    <3>1. 0 \in Int /\ t.capacity-1 \in Int
      OBVIOUS
    <3>2. QED
      BY <3>1, FS_Interval
  <2>2. QED
    BY <2>1
<1>2. Live(t) \subseteq 0..t.capacity-1 /\ Used(t) \subseteq 0..t.capacity-1
  BY DEF Live, Used
<1>3. IsFiniteSet(Live(t)) /\ IsFiniteSet(Used(t))
  BY <1>1, <1>2, FS_Subset
<1>4. QED
  BY <1>1, <1>3, FS_CardinalityType

LEMMA PosTypes ==
  ASSUME NEW t, t.capacity \in Nat \ {0}, NEW k \in Key
  PROVE  /\ \A i \in Nat : Pos(t, k, i) \in 0..t.capacity-1
         /\ \A p \in 0..t.capacity-1 : \E i \in 0..t.capacity-1 : Pos(t, k, i) = p
<1> DEFINE h == H1(k)
           c == t.capacity
<1>1. h \in Nat /\ c \in Nat \ {0}
  BY SlotFacts
<1> HIDE DEF h, c
<1>2. \A i \in Nat : h + i \in Nat
  BY <1>1
<1>3. \A i \in Nat : (h + i) % c \in 0..c-1
  BY <1>1, <1>2, DivMod
<1>4. \A p \in 0..c-1 : \E i \in 0..c-1 : (h + i) % c = p
  BY <1>1, ModReaches
<1>5. QED
  BY <1>3, <1>4 DEF Pos, h, c

(* So there is always an Empty slot.                                       *)
LEMMA GoodHasEmpty ==
  ASSUME NEW t, GoodTable(t)
  PROVE  HasEmpty(t)
<1>1. t.capacity \in Nat /\ t.load \in Nat
  BY TableTypes
<1>2. Cardinality(Used(t)) < t.capacity
  BY <1>1, SlotsAreFinite DEF GoodTable
<1>3. Used(t) # 0..t.capacity-1
  BY <1>1, <1>2, SlotsAreFinite
<1>4. QED
  BY <1>3 DEF Used, HasEmpty

-----------------------------------------------------------------------------
(* A probe ends: at an Empty slot or at one with the key's tag.            *)
LEMMA ProbeStops ==
  ASSUME NEW t, GoodTable(t), NEW k \in Key
  PROVE  /\ Probe(t, k) \in 0..t.capacity-1 /\ Probe(t, k) # NULL
         /\ \/ t.slot[Probe(t, k)] = Empty
            \/ /\ t.slot[Probe(t, k)] \in Node
               /\ t.slot[Probe(t, k)].key \in Key
               /\ H2(t.slot[Probe(t, k)].key) = H2(k)
<1> DEFINE c == t.capacity
           Stop(i) == t.slot[Pos(t, k, i)] = Empty \/ TagMatches(t.slot[Pos(t, k, i)], k)
           stops == {i \in 0..c-1 : Stop(i)}
           m == Min(stops)
           p == Pos(t, k, m)
<1>1. c \in Nat \ {0} /\ t.slot \in [0..c-1 -> Slot]
  BY TableTypes
<1>2. PICK e \in 0..c-1 : t.slot[e] = Empty
  BY GoodHasEmpty DEF HasEmpty
<1>3. PICK i \in 0..c-1 : Pos(t, k, i) = e
  BY <1>1, PosTypes
<1>4. i \in stops /\ stops \in SUBSET Nat
  BY <1>1, <1>2, <1>3
<1>5. m \in stops
  <2> HIDE DEF stops
  <2>1. QED
    BY <1>4, MinIsLeast DEF m
<1>6. Probe(t, k) = p
  <2>1. stops # {}
    BY <1>4
  <2>2. QED
    BY <2>1 DEF Probe
<1>7. p \in 0..c-1 /\ Stop(m)
  BY <1>1, <1>5, PosTypes
<1>8. t.slot[p] \in Slot
  BY <1>1, <1>7
<1>9. p # NULL
  BY <1>1, <1>7, SlotFacts
<1>10. t.slot[p] = Empty \/ TagMatches(t.slot[p], k)
  BY <1>7
<1> HIDE DEF p
<1>11. t.slot[p] = Empty \/ (t.slot[p] \in Node /\ H2(t.slot[p].key) = H2(k))
  BY <1>8, <1>10 DEF TagMatches, Slot
<1>12. t.slot[p] \in Node => t.slot[p].key \in Key
  BY DEF Node
<1>13. QED
  BY <1>6, <1>7, <1>9, <1>11, <1>12

(* It does not end at an Empty slot if the key is in the table.            *)
LEMMA ProbeFinds ==
  ASSUME NEW t, GoodTable(t), NEW q \in Live(t)
  PROVE  t.slot[Probe(t, t.slot[q].key)] # Empty
<1> DEFINE k == t.slot[q].key
           c == t.capacity
           Stop(i) == t.slot[Pos(t, k, i)] = Empty \/ TagMatches(t.slot[Pos(t, k, i)], k)
           stops == {i \in 0..c-1 : Stop(i)}
           m == Min(stops)
<1>1. c \in Nat \ {0} /\ q \in 0..c-1 /\ t.slot[q] \in Node
  BY TableTypes DEF Live
<1>2. PICK n \in 0..c-1 :
        /\ Pos(t, k, n) = q
        /\ \A i \in 0..n-1 : t.slot[Pos(t, k, i)] # Empty
  BY DEF GoodTable, ChainLeadsTo
<1>3. n \in stops /\ stops \in SUBSET Nat
  BY <1>1, <1>2, SlotFacts DEF TagMatches
<1>4. m \in stops /\ m <= n
  <2> HIDE DEF stops
  <2>1. QED
    BY <1>3, MinIsLeast DEF m
<1>5. Probe(t, k) = Pos(t, k, m)
  <2>1. stops # {}
    BY <1>3
  <2>2. QED
    BY <2>1 DEF Probe
<1>6. m \in Nat /\ n \in Nat
  BY <1>2, <1>3, <1>4
<1> HIDE DEF m, stops, k
<1>7. t.slot[Pos(t, k, m)] # Empty
  <2>1. CASE m = n
    BY <1>1, <1>2, <2>1, SlotFacts
  <2>2. CASE m # n
    <3>1. m \in 0..n-1
      BY <1>4, <1>6, <2>2
    <3>2. QED
      BY <1>2, <3>1
  <2>3. QED
    BY <2>1, <2>2
<1>8. QED
  BY <1>5, <1>7 DEF k

(* Only a key with the same tag can be in the way.                         *)
LEMMA ClashSharesTag ==
  ASSUME NEW t, GoodTable(t), NEW k \in Key, Clashes(t, k, Probe(t, k))
  PROVE  k \notin Lone
<1>1. /\ t.slot[Probe(t, k)].key \in Key \ {k}
      /\ H2(t.slot[Probe(t, k)].key) = H2(k)
  BY ProbeStops, SlotFacts DEF Clashes
<1>2. QED
  BY <1>1 DEF Lone

-----------------------------------------------------------------------------
(* What the operations do to such a table.                                 *)
LEMMA NewIsGood ==
  ASSUME NEW c \in Capacities, c \in 1..HeapLimit
  PROVE  /\ GoodTable(NewTable(c)) /\ NewTable(c).capacity = c
         /\ NewTable(c).load = 0
         /\ Live(NewTable(c)) = {}
<1> DEFINE f == [i \in 0..c-1 |-> Empty]
           t == NewTable(c)
<1>1. /\ t.slot = f /\ t.length = 0 /\ t.load = 0 /\ t.capacity = c
      /\ t = [slot |-> f, length |-> 0, load |-> 0, capacity |-> c]
  BY DEF NewTable
<1>2. c \in Nat /\ 8 <= c
  BY CapacityAssumption
<1>3. f \in [0..c-1 -> Slot] /\ \A i \in 0..c-1 : f[i] = Empty
  BY DEF Slot
<1> HIDE DEF f, t
<1>4. Live(t) = {} /\ Used(t) = {}
  BY <1>1, <1>3, SlotFacts DEF Live, Used
<1>5. IsTable(t)
  BY <1>1, <1>3, RecordIsTable
<1>6. GoodTable(t)
  BY <1>1, <1>2, <1>4, <1>5, FS_EmptySet DEF GoodTable
<1>7. QED
  BY <1>1, <1>4, <1>6 DEF t

(* A changed slot that was Empty or is not Empty breaks no chain.          *)
LEMMA ChainKept ==
  ASSUME NEW t, NEW u, u.capacity = t.capacity, t.capacity \in Nat \ {0},
         \A p \in 0..t.capacity-1 : t.slot[p] # Empty => u.slot[p] # Empty,
         NEW k \in Key, NEW p, ChainLeadsTo(t, k, p)
  PROVE  ChainLeadsTo(u, k, p)
<1>1. PICK n \in 0..t.capacity-1 :
        /\ Pos(t, k, n) = p
        /\ \A i \in 0..n-1 : t.slot[Pos(t, k, i)] # Empty
  BY DEF ChainLeadsTo
<1>2. \A i \in Nat : Pos(u, k, i) = Pos(t, k, i)
  BY DEF Pos
<1>3. \A i \in 0..n-1 : u.slot[Pos(u, k, i)] # Empty
  BY <1>1, <1>2, PosTypes
<1>4. QED
  BY <1>1, <1>2, <1>3 DEF ChainLeadsTo

LEMMA PlacedIsGood ==
  ASSUME NEW t, GoodTable(t), t.load + 1 < t.capacity,
         NEW k \in Key, NEW v \in Value
  PROVE  /\ GoodTable(Placed(t, k, v))
         /\ Placed(t, k, v).capacity = t.capacity
         /\ Placed(t, k, v).load = t.load + 1
         /\ \E p \in 0..t.capacity-1 :
              /\ t.slot[p] \notin Node
              /\ Placed(t, k, v).slot = [t.slot EXCEPT ![p] = [key |-> k, value |-> v]]
              /\ Live(Placed(t, k, v)) = Live(t) \cup {p}
<1> DEFINE c == t.capacity
           free == {i \in 0..c-1 : t.slot[Pos(t, k, i)] \in {Empty, Deleted}}
           m == Min(free)
           p == Pos(t, k, m)
           node == [key |-> k, value |-> v]
           f == [t.slot EXCEPT ![p] = node]
           u == Placed(t, k, v)
<1>1. /\ c \in Nat \ {0} /\ t.slot \in [0..c-1 -> Slot]
      /\ t.length \in Nat /\ t.load \in Nat
  BY TableTypes
<1>2. PICK e \in 0..c-1 : t.slot[e] = Empty
  BY GoodHasEmpty DEF HasEmpty
<1>3. PICK i \in 0..c-1 : Pos(t, k, i) = e
  BY <1>1, PosTypes
<1>4. i \in free /\ free \in SUBSET Nat
  BY <1>1, <1>2, <1>3
<1>5. m \in free /\ \A j \in free : m <= j
  <2> HIDE DEF free
  <2>1. QED
    BY <1>4, MinIsLeast DEF m
<1>6. u = [slot |-> f, length |-> t.length + 1, load |-> t.load + 1, capacity |-> c]
  BY DEF Placed
<1>7. /\ m \in 0..c-1 /\ t.slot[p] \in {Empty, Deleted}
      /\ \A j \in 0..m-1 : t.slot[Pos(t, k, j)] \notin {Empty, Deleted}
  <2>1. m \in 0..c-1 /\ t.slot[p] \in {Empty, Deleted}
    BY <1>5
  <2>2. \A j \in 0..m-1 : j \in 0..c-1 /\ ~(m <= j)
    BY <1>1, <2>1
  <2>3. QED
    BY <1>5, <2>1, <2>2
<1> HIDE DEF m, free
<1>8. p \in 0..c-1
  <2>1. m \in Nat
    BY <1>7
  <2>2. QED
    BY <1>1, <2>1, PosTypes
<1> HIDE DEF p, u
<1>9. /\ u.slot = f /\ u.length = t.length + 1 /\ u.load = t.load + 1
      /\ u.capacity = c
  BY <1>6
<1>10. node \in Node /\ t.slot[p] \notin Node
  BY <1>7, SlotFacts DEF Node
<1> HIDE DEF node
<1>11. f \in [0..c-1 -> Slot] /\ \A j \in 0..c-1 : f[j] = IF j = p THEN node ELSE t.slot[j]
  BY <1>1, <1>8, <1>10 DEF Slot
<1> HIDE DEF f
<1>12. Live(u) = Live(t) \cup {p}
  BY <1>8, <1>9, <1>10, <1>11 DEF Live
<1>13. Used(u) = Used(t) \cup {p}
  BY <1>8, <1>9, <1>10, <1>11, SlotFacts DEF Used
<1>14. p \notin Live(t)
  BY <1>10 DEF Live
<1>15. Cardinality(Live(u)) = Cardinality(Live(t)) + 1
  BY <1>1, <1>12, <1>14, SlotsAreFinite, FS_AddElement
<1>16. Cardinality(Used(u)) <= Cardinality(Used(t)) + 1
  <2>1. CASE p \in Used(t)
    <3>1. Used(u) = Used(t)
      BY <1>13, <2>1
    <3>2. QED
      BY <1>1, <3>1, SlotsAreFinite
  <2>2. CASE p \notin Used(t)
    <3>1. IsFiniteSet(Used(t)) /\ Cardinality(Used(t)) \in Nat
      BY <1>1, SlotsAreFinite
    <3>2. Cardinality(Used(u)) = Cardinality(Used(t)) + 1
      BY <1>13, <2>2, <3>1, FS_AddElement
    <3>3. QED
      BY <3>1, <3>2
  <2>3. QED
    BY <2>1, <2>2
<1>17. IsTable(u)
  <2>1. c \in 1..HeapLimit /\ t.length + 1 \in Nat /\ t.load + 1 \in Nat
    BY <1>1, TableTypes
  <2>2. QED
    BY <1>6, <1>11, <2>1, RecordIsTable
<1>18. \A q \in Live(u) : ChainLeadsTo(u, u.slot[q].key, q)
  <2>1. \A j \in 0..c-1 : t.slot[j] # Empty => u.slot[j] # Empty
    BY <1>9, <1>10, <1>11, SlotFacts
  <2>2. ASSUME NEW q \in Live(t) PROVE ChainLeadsTo(u, u.slot[q].key, q)
    <3>1. q \in 0..c-1 /\ q # p /\ t.slot[q] \in Node
      BY <1>14 DEF Live
    <3>2. u.slot[q] = t.slot[q] /\ t.slot[q].key \in Key
      BY <1>9, <1>11, <3>1 DEF Node
    <3>3. ChainLeadsTo(t, t.slot[q].key, q)
      BY DEF GoodTable
    <3>4. QED
      BY <1>1, <1>9, <2>1, <3>2, <3>3, ChainKept
  <2>3. ChainLeadsTo(u, u.slot[p].key, p)
    <3>1. u.slot[p] = node /\ node.key = k
      BY <1>8, <1>9, <1>11 DEF node
    <3>2. \A j \in Nat : Pos(u, k, j) = Pos(t, k, j)
      BY <1>9 DEF Pos
    <3>3. \A j \in 0..m-1 : u.slot[Pos(u, k, j)] # Empty
      <4> SUFFICES ASSUME NEW j \in 0..m-1 PROVE u.slot[Pos(u, k, j)] # Empty
        OBVIOUS
      <4>0. j \in Nat
        BY <1>7
      <4>1. Pos(t, k, j) \in 0..c-1
        BY <1>1, <4>0, PosTypes
      <4>2. QED
        BY <1>7, <2>1, <3>2, <4>0, <4>1
    <3>4. Pos(u, k, m) = p /\ m \in 0..u.capacity-1
      BY <1>7, <1>9, <3>2 DEF p
    <3>5. QED
      BY <3>1, <3>3, <3>4 DEF ChainLeadsTo
  <2>4. QED
    BY <1>12, <2>2, <2>3
<1>19. GoodTable(u)
  <2>1. /\ Cardinality(Live(u)) <= u.length /\ u.length <= u.load
        /\ Cardinality(Used(u)) <= u.load /\ u.load < u.capacity
    <3>1. /\ Cardinality(Live(t)) \in Nat /\ Cardinality(Used(t)) \in Nat
          /\ Cardinality(Used(u)) \in Nat
      BY <1>1, <1>9, SlotsAreFinite
    <3>2. /\ Cardinality(Live(t)) <= t.length /\ t.length <= t.load
          /\ Cardinality(Used(t)) <= t.load
      BY DEF GoodTable
    <3>3. QED
      BY <1>1, <1>9, <1>15, <1>16, <3>1, <3>2
  <2>2. u.capacity \in Capacities
    BY <1>9 DEF GoodTable
  <2>3. QED
    BY <1>17, <1>18, <2>1, <2>2 DEF GoodTable
<1>20. QED
  BY <1>8, <1>9, <1>10, <1>12, <1>19 DEF u, f, node

LEMMA WithoutSlotIsGood ==
  ASSUME NEW t, GoodTable(t), NEW p \in Live(t)
  PROVE  /\ GoodTable(WithoutSlot(t, p))
         /\ WithoutSlot(t, p).capacity = t.capacity
         /\ WithoutSlot(t, p).slot = [t.slot EXCEPT ![p] = Deleted]
         /\ Live(WithoutSlot(t, p)) = Live(t) \ {p}
<1> DEFINE c == t.capacity
           f == [t.slot EXCEPT ![p] = Deleted]
           u == WithoutSlot(t, p)
<1>1. /\ c \in Nat \ {0} /\ t.slot \in [0..c-1 -> Slot]
      /\ t.length \in Nat /\ t.load \in Nat
  BY TableTypes
<1>2. p \in 0..c-1 /\ t.slot[p] \in Node
  BY DEF Live
<1>3. /\ u.slot = f /\ u.length = t.length - 1 /\ u.load = t.load
      /\ u.capacity = c
      /\ u = [slot |-> f, length |-> t.length - 1, load |-> t.load, capacity |-> c]
  BY DEF WithoutSlot
<1>4. f \in [0..c-1 -> Slot] /\ \A j \in 0..c-1 : f[j] = IF j = p THEN Deleted ELSE t.slot[j]
  BY <1>1, <1>2 DEF Slot
<1> HIDE DEF u, f
<1>5. Live(u) = Live(t) \ {p}
  BY <1>3, <1>4, SlotFacts DEF Live
<1>6. Used(u) = Used(t)
  BY <1>2, <1>3, <1>4, SlotFacts DEF Used
<1>7. Cardinality(Live(u)) = Cardinality(Live(t)) - 1
  BY <1>1, <1>5, SlotsAreFinite, FS_RemoveElement
<1>8. /\ Cardinality(Live(t)) \in Nat /\ Cardinality(Used(t)) \in Nat
      /\ Cardinality(Live(u)) \in Nat
  BY <1>1, <1>3, SlotsAreFinite
<1>9. /\ Cardinality(Live(t)) <= t.length /\ t.length <= t.load
      /\ Cardinality(Used(t)) <= t.load /\ t.load < c
  BY DEF GoodTable
<1>10. /\ Cardinality(Live(u)) <= u.length /\ u.length <= u.load
       /\ Cardinality(Used(u)) <= u.load /\ u.load < u.capacity
       /\ u.length \in Nat
  BY <1>1, <1>3, <1>6, <1>7, <1>8, <1>9
<1>11. IsTable(u)
  <2>1. c \in 1..HeapLimit /\ t.length - 1 \in Nat
    BY <1>3, <1>10, TableTypes
  <2>2. QED
    BY <1>1, <1>3, <1>4, <2>1, RecordIsTable
<1>12. \A q \in Live(u) : ChainLeadsTo(u, u.slot[q].key, q)
  <2>1. \A j \in 0..c-1 : t.slot[j] # Empty => u.slot[j] # Empty
    BY <1>3, <1>4, SlotFacts
  <2>2. SUFFICES ASSUME NEW q \in Live(u) PROVE ChainLeadsTo(u, u.slot[q].key, q)
    OBVIOUS
  <2>3. q \in Live(t) /\ q # p /\ q \in 0..c-1 /\ t.slot[q] \in Node
    BY <1>5 DEF Live
  <2>4. u.slot[q] = t.slot[q] /\ t.slot[q].key \in Key
    BY <1>3, <1>4, <2>3 DEF Node
  <2>5. ChainLeadsTo(t, t.slot[q].key, q)
    BY <2>3 DEF GoodTable
  <2>6. QED
    BY <1>1, <1>3, <2>1, <2>4, <2>5, ChainKept
<1>13. u.capacity \in Capacities
  BY <1>3 DEF GoodTable
<1>14. QED
  BY <1>3, <1>5, <1>10, <1>11, <1>12, <1>13 DEF GoodTable, u, f

LEMMA ClearedIsGood ==
  ASSUME NEW t, GoodTable(t)
  PROVE  /\ GoodTable(Cleared(t))
         /\ Cleared(t).capacity = t.capacity
         /\ Live(Cleared(t)) = {}
<1> DEFINE f == [i \in 0..t.capacity-1 |-> Empty]
           u == Cleared(t)
<1>0. u = [slot |-> f, length |-> t.length, load |-> t.load, capacity |-> t.capacity]
  BY DEF Cleared
<1>1. u.slot = f /\ u.length = t.length /\ u.load = t.load /\ u.capacity = t.capacity
  BY <1>0
<1>2. f \in [0..t.capacity-1 -> Slot] /\ \A i \in 0..t.capacity-1 : f[i] = Empty
  BY DEF Slot
<1> HIDE DEF u, f
<1>3. Live(u) = {} /\ Used(u) = {}
  BY <1>1, <1>2, SlotFacts DEF Live, Used
<1>4. /\ t.length \in Nat /\ t.load \in Nat /\ t.capacity \in 1..HeapLimit
      /\ t.capacity \in Capacities /\ t.length <= t.load /\ t.load < t.capacity
  BY TableTypes DEF GoodTable
<1>5. IsTable(u)
  BY <1>0, <1>2, <1>4, RecordIsTable
<1>6. GoodTable(u)
  BY <1>1, <1>3, <1>4, <1>5, FS_EmptySet DEF GoodTable
<1>7. QED
  BY <1>1, <1>3, <1>6 DEF u

LEMMA FoundValue ==
  ASSUME NEW t, NEW k, NEW p, Found(t, k, p)
  PROVE  t.slot[p].value \in Value
BY DEF Found, Node

(* Below the load factor there is room for one more node.                  *)
LEMMA RoomLeft ==
  ASSUME NEW t, GoodTable(t), ~Overloaded(t)
  PROVE  t.load + 1 < t.capacity
<1>1. t.capacity \in Nat /\ t.load \in Nat /\ 8 <= t.capacity
  BY TableTypes
<1>2. QED
  BY <1>1 DEF Overloaded

(* A table grows to twice its capacity or more.                            *)
LEMMA GrownTable ==
  ASSUME NEW t, GoodTable(t), CanGrow(t.capacity, t.length)
  PROVE  /\ GrownCapacity(t.capacity) \in Capacities
         /\ GrownCapacity(t.capacity) \in 1..HeapLimit
         /\ 2 * t.capacity <= GrownCapacity(t.capacity)
<1> DEFINE c == t.capacity
           n == NextPow2(c)
<1>1. c \in Capacities /\ c \in 1..HeapLimit /\ c \in Nat
  BY TableTypes DEF GoodTable
<1>2. 2 * c <= n /\ n \in Capacities /\ n \in Nat
  BY <1>1, GrowthAssumption, CapacityAssumption
<1>3. GrownCapacity(c) <= HeapLimit /\ HeapLimit < MaxCapacity
      /\ HeapLimit \in Nat /\ MaxCapacity \in Nat
  BY GrowthAssumption DEF CanGrow
<1>4. GrownCapacity(c) = IF n < MaxCapacity THEN n ELSE MaxCapacity
  BY DEF GrownCapacity, CCMin
<1> HIDE DEF n, c
<1>5. GrownCapacity(c) = n
  BY <1>2, <1>3, <1>4
<1>6. n \in 1..HeapLimit
  BY <1>1, <1>2, <1>3, <1>5
<1>7. QED
  BY <1>2, <1>5, <1>6 DEF c

-----------------------------------------------------------------------------
(* What a table holds.  A key whose tag is its own is in it at most once.  *)
Holds(t, s) == \E p \in Live(t) : t.slot[p] = s

HasKey(t, k) == \E p \in Live(t) : t.slot[p].key = k

Single(t) ==
  \A p, q \in Live(t) :
    t.slot[p].key = t.slot[q].key /\ t.slot[p].key \in Lone => p = q

LEMMA ContentWhenHeld ==
  ASSUME NEW t, Single(t), NEW p \in Live(t), t.slot[p].key \in Lone
  PROVE  ContentOf(t, t.slot[p].key) = t.slot[p].value
<1> DEFINE at == {q \in Live(t) : t.slot[q].key = t.slot[p].key}
<1>1. at = {p}
  BY DEF Single
<1>2. (CHOOSE q \in at : TRUE) = p
  BY <1>1
<1>3. QED
  BY <1>1, <1>2 DEF ContentOf

LEMMA ContentWhenNot ==
  ASSUME NEW t, NEW k, ~HasKey(t, k)
  PROVE  ContentOf(t, k) = NULL
<1>1. {p \in Live(t) : t.slot[p].key = k} = {}
  BY DEF HasKey
<1>2. QED
  BY <1>1 DEF ContentOf

LEMMA ContentIsNotNull ==
  ASSUME NEW t, Single(t), NEW k \in Lone, HasKey(t, k)
  PROVE  ContentOf(t, k) \in Value /\ ContentOf(t, k) # NULL
<1>1. PICK p \in Live(t) : t.slot[p].key = k
  BY DEF HasKey
<1>2. t.slot[p].value \in Value
  BY DEF Live, Node
<1>3. QED
  BY <1>1, <1>2, ContentWhenHeld, SlotFacts

(* Two tables that hold the same nodes of k have the same content for it.  *)
LEMMA SameContent ==
  ASSUME NEW t, Single(t), NEW u, Single(u), NEW k \in Lone,
         \A s \in Node : s.key = k => (Holds(t, s) <=> Holds(u, s))
  PROVE  ContentOf(u, k) = ContentOf(t, k)
<1>1. CASE HasKey(t, k)
  <2>1. PICK p \in Live(t) : t.slot[p].key = k
    BY <1>1 DEF HasKey
  <2>2. t.slot[p] \in Node /\ Holds(t, t.slot[p])
    BY DEF Live, Holds
  <2>3. PICK q \in Live(u) : u.slot[q] = t.slot[p]
    BY <2>1, <2>2 DEF Holds
  <2>4. QED
    BY <2>1, <2>3, ContentWhenHeld
<1>2. CASE ~HasKey(t, k)
  <2>1. ~HasKey(u, k)
    <3> SUFFICES ASSUME NEW q \in Live(u), u.slot[q].key = k PROVE FALSE
      BY DEF HasKey
    <3>1. u.slot[q] \in Node /\ Holds(u, u.slot[q])
      BY DEF Live, Holds
    <3>2. PICK p \in Live(t) : t.slot[p] = u.slot[q]
      BY <3>1 DEF Holds
    <3>3. QED
      BY <1>2, <3>2 DEF HasKey
  <2>2. QED
    BY <1>2, <2>1, ContentWhenNot
<1>3. QED
  BY <1>1, <1>2

(* The probe for such a key finds it exactly if it is there.               *)
LEMMA LoneProbe ==
  ASSUME NEW t, GoodTable(t), NEW k \in Lone
  PROVE  LET p == Probe(t, k)
         IN  /\ ~Clashes(t, k, p) /\ p # NULL
             /\ Found(t, k, p) => p \in Live(t)
             /\ Found(t, k, p) <=> HasKey(t, k)
             /\ EndsAtEmpty(t, p) <=> ~HasKey(t, k)
<1> DEFINE p == Probe(t, k)
<1>0. k \in Key
  BY DEF Lone
<1>1. /\ p \in 0..t.capacity-1 /\ p # NULL
      /\ \/ t.slot[p] = Empty
         \/ t.slot[p] \in Node /\ t.slot[p].key \in Key /\ H2(t.slot[p].key) = H2(k)
  BY <1>0, ProbeStops
<1>2. t.slot[p] \in Node => t.slot[p].key = k
  <2>1. ~Clashes(t, k, p)
    BY <1>0, ClashSharesTag
  <2>2. QED
    BY <1>1, <2>1 DEF Clashes
<1>3. HasKey(t, k) => t.slot[p] # Empty
  BY ProbeFinds DEF HasKey
<1> HIDE DEF p
<1>4. t.slot[p] \in Node => HasKey(t, k) /\ p \in Live(t)
  BY <1>1, <1>2 DEF Live, HasKey
<1>5. QED
  BY <1>1, <1>2, <1>3, <1>4, SlotFacts DEF Found, EndsAtEmpty, Clashes, p

LEMMA LoneMiss ==
  ASSUME NEW t, GoodTable(t), NEW k \in Key, FindMisses(t, k, Probe(t, k)), k \in Lone
  PROVE  ~HasKey(t, k)
BY LoneProbe DEF FindMisses

(* What the operations do to the nodes of a table.                         *)
LEMMA PlacedHolds ==
  ASSUME NEW t, GoodTable(t), t.load + 1 < t.capacity,
         NEW k \in Key, NEW v \in Value, Single(t),
         k \in Lone => ~HasKey(t, k)
  PROVE  /\ Single(Placed(t, k, v))
         /\ \A s : Holds(Placed(t, k, v), s)
                     <=> Holds(t, s) \/ s = [key |-> k, value |-> v]
<1> DEFINE u == Placed(t, k, v)
           node == [key |-> k, value |-> v]
<1>1. PICK p \in 0..t.capacity-1 :
        /\ t.slot[p] \notin Node
        /\ u.slot = [t.slot EXCEPT ![p] = node]
        /\ Live(u) = Live(t) \cup {p}
  BY PlacedIsGood
<1> HIDE DEF u
<1>2. /\ u.slot[p] = node /\ p \notin Live(t)
      /\ \A q \in Live(t) : u.slot[q] = t.slot[q]
  BY <1>1, TableTypes DEF Live
<1>3. node.key = k
  OBVIOUS
<1> HIDE DEF node
<1>4. Single(u)
  BY <1>1, <1>2, <1>3 DEF Single, HasKey
<1>5. \A s : Holds(u, s) <=> Holds(t, s) \/ s = node
  BY <1>1, <1>2 DEF Holds
<1>6. QED
  BY <1>4, <1>5 DEF u, node

LEMMA WithoutSlotHolds ==
  ASSUME NEW t, GoodTable(t), NEW p \in Live(t), Single(t)
  PROVE  /\ Single(WithoutSlot(t, p))
         /\ \A s : s.key # t.slot[p].key
                     => (Holds(WithoutSlot(t, p), s) <=> Holds(t, s))
         /\ t.slot[p].key \in Lone => ~HasKey(WithoutSlot(t, p), t.slot[p].key)
<1> DEFINE u == WithoutSlot(t, p)
<1>1. u.slot = [t.slot EXCEPT ![p] = Deleted] /\ Live(u) = Live(t) \ {p}
  BY WithoutSlotIsGood
<1> HIDE DEF u
<1>2. \A q \in Live(u) : q \in Live(t) /\ q # p /\ u.slot[q] = t.slot[q]
  BY <1>1, TableTypes DEF Live
<1>3. Single(u)
  BY <1>2 DEF Single
<1>4. \A s : s.key # t.slot[p].key => (Holds(u, s) <=> Holds(t, s))
  BY <1>1, <1>2 DEF Holds
<1>5. t.slot[p].key \in Lone => ~HasKey(u, t.slot[p].key)
  BY <1>2 DEF Single, HasKey
<1>6. QED
  BY <1>3, <1>4, <1>5 DEF u

LEMMA NothingHeld ==
  ASSUME NEW t, Live(t) = {}
  PROVE  Single(t) /\ (\A k : ~HasKey(t, k)) /\ (\A s : ~Holds(t, s))
BY DEF Single, HasKey, Holds
=============================================================================
