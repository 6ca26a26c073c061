---------------------------- MODULE UMapStrProofs ---------------------------
(***************************************************************************)
(* For every capacity, heap limit, hash width of at least a byte, set of   *)
(* strings and value set:                                                  *)
(* unordered_map_str.c never has a slot without a string of its own, loses *)
(* strings only by whole tables, and hangs only at a key whose last        *)
(* character looks like another's; for the keys whose tag is theirs alone  *)
(* it is a dictionary that forgets what a rehash has no memory for.        *)
(***************************************************************************)
EXTENDS UMapStr, TableProofs

-----------------------------------------------------------------------------
LEMMA KeyTypes ==
  ASSUME NEW key \in Key
  PROVE  /\ Len(key) \in Nat
         /\ \A i \in 1..Len(key) : key[i] \in Nat /\ key[i] <= 127
<1>1. key \in Seq(Char)
  BY KeyAssumption
<1>2. \A c \in Char : c \in Nat /\ c <= 127
  BY DEF Char
<1>3. QED
  BY <1>1, <1>2

(* Unsigned overflow leaves the low byte of a number alone.                *)
LEMMA OverflowKeepsLowByte ==
  ASSUME NEW x \in Nat
  PROVE  x % HashRange \in Nat /\ (x % HashRange) % 256 = x % 256
<1>1. HashRange \in Nat /\ HashRange > 0 /\ HashRange % 256 = 0
  BY HashRangeAssumption
<1>2. HashRange = 256 * (HashRange \div 256)
  BY <1>1
<1> DEFINE k == HashRange \div 256
           q == x \div HashRange
           r == x % HashRange
<1>3. k \in Nat /\ q \in Nat /\ r \in Nat
  BY <1>1
<1>4. x = HashRange * q + r
  BY <1>1
<1> HIDE DEF q, r
<1>5. x = (256 * k) * q + r
  BY <1>2, <1>4
<1> HIDE DEF k
<1>6. (256 * k) * q = 256 * (k * q) /\ k * q \in Nat
  BY <1>3
<1> DEFINE j == k * q
<1>7. x = 256 * j + r /\ j \in Nat
  BY <1>5, <1>6
<1> HIDE DEF j
<1>8. x % 256 = r % 256
  BY <1>3, <1>7
<1>9. QED
  BY <1>3, <1>8 DEF r

(* One turn of the hash's loop, from x to y over the character c, and what *)
(* it leaves of that character.                                            *)
IsTurn(x, c, y) == y = Masked((16 * x + c) % HashRange)

LEMMA TurnOfHash ==
  ASSUME NEW x \in Nat, NEW c \in Nat, c <= 127, NEW y, IsTurn(x, c, y)
  PROVE  /\ y \in Nat
         /\ y % 16 = 0
         /\ y % 128 = 16 * (((16 * (x % 16) + c) \div 16) % 8)
<1> DEFINE z == (16 * x + c) % HashRange
           r == x % 16
           q == x \div 16
<1>1. /\ z \in Nat
      /\ z % 256 = (16 * x + c) % 256
  <2>1. 16 * x + c \in Nat
    OBVIOUS
  <2>2. QED
    BY <2>1, OverflowKeepsLowByte
<1>2. r \in Nat /\ r <= 15 /\ q \in Nat /\ x = 16 * q + r
  OBVIOUS
<1> HIDE DEF z, r, q
<1>3. z % 256 = (16 * r + c) % 256
  BY <1>1, <1>2
<1>4. (z - (z % 16)) \in Nat /\ (z - (z % 16)) % 16 = 0
  BY <1>1
<1>5. (z - (z % 16)) % 128 = 16 * (((16 * r + c) \div 16) % 8)
  BY <1>1, <1>2, <1>3
<1>6. QED
  BY <1>4, <1>5 DEF IsTurn, Masked, z, r

(* The loop of _umap_str_hash, turn by turn.                               *)
LEMMA HashUnfolds ==
  ASSUME NEW key \in Key
  PROVE  \E h \in [0..Len(key) -> Nat] :
           /\ h[0] % 16 = 3 /\ h[0] % 128 = 19
           /\ \A i \in 1..Len(key) :
                h[i] = Masked((16 * h[i-1] + key[i]) % HashRange)
           /\ Hash(key) = h[Len(key)]
<1> DEFINE n == Len(key)
           a == 16777619 % HashRange
           Turn(i, x) == Masked((16 * x + key[i]) % HashRange)
           g == [i \in 1..n |-> [x \in Nat |-> Turn(i, x)]]
           Solves(h) == h = [i \in 0..n |-> IF i = 0 THEN a ELSE Turn(i, h[i-1])]
           h0 == CHOOSE h : Solves(h)
<1>1. n \in Nat
  BY KeyTypes
<1>2. a \in Nat /\ a % 16 = 3 /\ a % 128 = 19
  <2>1. a \in Nat /\ a % 256 = 16777619 % 256
    BY OverflowKeepsLowByte
  <2>2. 16777619 % 256 = 147
    OBVIOUS
  <2> HIDE DEF a
  <2>3. QED
    BY <2>1, <2>2
<1>3. \A i \in 1..n : \A x \in Nat : Turn(i, x) \in Nat
  BY <1>1, KeyTypes, TurnOfHash DEF IsTurn
<1> HIDE DEF n, a, Turn
<1>4. g \in [1..n -> [Nat -> Nat]]
  BY <1>3
<1>5. PICK f \in [0..n -> Nat] : f[0] = a /\ \A i \in 1..n : f[i] = g[i][f[i-1]]
  <2>1. a \in Nat
    BY <1>2
  <2> HIDE DEF g
  <2>2. \E f : UnfoldsTo(f, n, Nat, a, g)
    BY <1>1, <1>4, <2>1, Recursion
  <2>3. QED
    BY <2>2 DEF UnfoldsTo
<1>6. \A i \in 0..n : f[i] = IF i = 0 THEN a ELSE Turn(i, f[i-1])
  <2>1. ASSUME NEW i \in 1..n PROVE f[i] = Turn(i, f[i-1])
    <3>1. i - 1 \in 0..n
      BY <1>1
    <3>2. QED
      BY <1>5, <3>1
  <2>2. QED
    BY <1>1, <1>5, <2>1
<1>7. Solves(f)
  <2>1. f = [i \in 0..n |-> f[i]]
    BY <1>5
  <2>2. QED
    BY <1>6, <2>1
<1>8. Solves(h0)
  <2> HIDE DEF Solves
  <2>1. QED
    BY <1>7
<1>9. Hash(key) = h0[n]
  BY DEF Hash, n, a, Turn
<1> HIDE DEF h0
<1>10. /\ h0[0] = a
       /\ \A i \in 1..n : h0[i] = Turn(i, h0[i-1])
       /\ h0 = [i \in 0..n |-> h0[i]]
  BY <1>1, <1>8
<1>11. \A i \in 0..n : h0[i] \in Nat
  <2> DEFINE P == {i \in 0..n : h0[i] \in Nat}
  <2>1. 0 \in P
    BY <1>1, <1>2, <1>10
  <2>2. ASSUME NEW i \in 1..n, i - 1 \in P PROVE i \in P
    <3>1. h0[i-1] \in Nat /\ i \in 0..n
      BY <1>1, <2>2
    <3>2. QED
      BY <1>3, <1>10, <3>1
  <2> HIDE DEF P
  <2>3. \A i \in 0..n : i \in P
    BY <1>1, <2>1, <2>2, InductionUpTo
  <2>4. QED
    BY <2>3 DEF P
<1>12. h0 \in [0..n -> Nat]
  BY <1>10, <1>11
<1>13. QED
  BY <1>2, <1>9, <1>10, <1>12 DEF n, Turn

(* What of a key shows in its tag.                                         *)
LEMMA TagOfHash ==
  ASSUME NEW key \in Key
  PROVE  H2(key) = IF Len(key) = 0 THEN 19 ELSE 16 * Look(key)
<1> DEFINE n == Len(key)
<1>1. n \in Nat /\ \A i \in 1..n : key[i] \in Nat /\ key[i] <= 127
  BY KeyTypes
<1>2. PICK h \in [0..n -> Nat] :
        /\ h[0] % 16 = 3 /\ h[0] % 128 = 19
        /\ \A i \in 1..n : h[i] = Masked((16 * h[i-1] + key[i]) % HashRange)
        /\ Hash(key) = h[n]
  BY HashUnfolds
<1>3. H2(key) = h[n] % 128
  BY <1>2, StringHash DEF HashH2, HashOf
<1>0. n = Len(key)
  OBVIOUS
<1> HIDE DEF n
<1>4. CASE n = 0
  BY <1>0, <1>2, <1>3, <1>4
<1>5. CASE n # 0
  <2> DEFINE c == key[n]
             x == h[n-1]
  <2>0. n \in 1..n /\ n - 1 \in 0..n
    BY <1>1, <1>5
  <2>1. c \in Nat /\ c <= 127 /\ x \in Nat
    BY <1>1, <1>2, <2>0
  <2>2. h[n] % 128 = 16 * (((16 * (x % 16) + c) \div 16) % 8)
    <3>1. IsTurn(x, c, h[n])
      BY <1>2, <2>0 DEF IsTurn
    <3> HIDE DEF x, c
    <3>2. QED
      BY <2>1, <3>1, TurnOfHash
  <2>3. CASE n = 1
    <3>1. x % 16 = 3
      BY <1>2, <2>3
    <3>2. Look(key) = (c \div 16 + 3) % 8
      BY <1>0, <2>3 DEF Look
    <3>3. (16 * 3 + c) \div 16 = c \div 16 + 3
      BY <2>1
    <3> HIDE DEF c, x
    <3>4. QED
      BY <1>0, <1>3, <1>5, <2>2, <3>1, <3>2, <3>3
  <2>4. CASE n > 1
    <3>1. x % 16 = 0
      <4>1. n - 1 \in 1..n /\ n - 2 \in 0..n /\ (n - 1) - 1 = n - 2
        BY <1>1, <2>4
      <4> DEFINE b == key[n-1]
                 w == h[n-2]
      <4>2. IsTurn(w, b, x)
        <5>1. h[n-1] = Masked((16 * h[(n-1)-1] + key[n-1]) % HashRange)
          BY <1>2, <4>1
        <5>2. QED
          BY <4>1, <5>1 DEF IsTurn
      <4>3. w \in Nat /\ b \in Nat /\ b <= 127
        BY <1>1, <1>2, <4>1
      <4> HIDE DEF b, w, x
      <4>4. x % 16 = 0
        BY <4>2, <4>3, TurnOfHash
      <4>5. QED
        BY <4>4
    <3>2. Look(key) = (c \div 16) % 8
      BY <1>0, <1>1, <2>4 DEF Look
    <3> HIDE DEF c, x
    <3>3. (16 * 0 + c) \div 16 = c \div 16
      BY <2>1
    <3>4. QED
      BY <1>0, <1>3, <1>5, <2>2, <3>1, <3>2, <3>3
  <2>5. n = 1 \/ n > 1
    BY <1>1, <1>5
  <2>6. QED
    BY <2>3, <2>4, <2>5
<1>6. QED
  BY <1>4, <1>5

(* Keys with one tag look alike.                                           *)
LEMMA TagShowsLook ==
  ASSUME NEW j \in Key, NEW k \in Key, H2(j) = H2(k)
  PROVE  Look(j) = Look(k)
<1>1. \A i \in Key : Len(i) = 0 => Look(i) = NULL
  <2>1. \A i \in Key : Len(i) = 0 => i = << >>
    BY KeyAssumption
  <2>2. QED
    BY <2>1 DEF Look
<1>2. ASSUME NEW i \in Key, Len(i) # 0 PROVE Look(i) \in Nat
  <2>1. Len(i) \in Nat /\ i[1] \in Nat /\ i[Len(i)] \in Nat
    BY <1>2, KeyTypes
  <2>2. i # << >>
    BY <1>2
  <2>3. CASE Len(i) = 1
    <3>1. Look(i) = (i[1] \div 16 + 3) % 8
      BY <2>2, <2>3 DEF Look
    <3>2. QED
      BY <2>1, <3>1
  <2>4. CASE Len(i) > 1
    <3>1. Look(i) = (i[Len(i)] \div 16) % 8
      BY <2>2, <2>4 DEF Look
    <3>2. QED
      BY <2>1, <3>1
  <2> DEFINE n == Len(i)
  <2>5. n = 1 \/ n > 1
    <3>1. n \in Nat /\ n # 0
      BY <1>2, <2>1
    <3> HIDE DEF n
    <3>2. QED
      BY <3>1
  <2>6. QED
    BY <2>3, <2>4, <2>5
<1>3. QED
  BY <1>1, <1>2, TagOfHash
-----------------------------------------------------------------------------
(* How many slots the operations leave a key.                              *)
LEMMA SlotsTypes ==
  ASSUME NEW t, GoodTable(t), NEW k
  PROVE  /\ IsFiniteSet({p \in Live(t) : t.slot[p].key = k})
         /\ Slots(t, k) \in Nat
<1> DEFINE S == {p \in Live(t) : t.slot[p].key = k}
<1>1. IsFiniteSet(Live(t))
  BY TableTypes, SlotsAreFinite
<1>2. S \subseteq Live(t)
  OBVIOUS
<1>3. IsFiniteSet(S) /\ Cardinality(S) \in Nat
  BY <1>1, <1>2, FS_Subset, FS_CardinalityType
<1>4. QED
  BY <1>3 DEF Slots

LEMMA NoSlots ==
  ASSUME NEW t, Live(t) = {}, NEW k
  PROVE  Slots(t, k) = 0
<1>1. {p \in Live(t) : t.slot[p].key = k} = {}
  OBVIOUS
<1>2. QED
  BY <1>1, FS_EmptySet DEF Slots

LEMMA PlacedSlots ==
  ASSUME NEW t, GoodTable(t), t.load + 1 < t.capacity,
         NEW k \in Key, NEW v \in Value, NEW j
  PROVE  Slots(Placed(t, k, v), j) = Slots(t, j) + IF j = k THEN 1 ELSE 0
<1> DEFINE u == Placed(t, k, v)
           S == {q \in Live(t) : t.slot[q].key = j}
           T == {q \in Live(u) : u.slot[q].key = j}
<1>1. PICK p \in 0..t.capacity-1 :
        /\ t.slot[p] \notin Node
        /\ u.slot = [t.slot EXCEPT ![p] = [key |-> k, value |-> v]]
        /\ Live(u) = Live(t) \cup {p}
  BY PlacedIsGood
<1> HIDE DEF u
<1>2. p \notin Live(t) /\ u.slot[p].key = k /\ \A q \in Live(t) : u.slot[q] = t.slot[q]
  BY <1>1, TableTypes DEF Live
<1>3. IsFiniteSet(S) /\ Slots(t, j) = Cardinality(S) /\ Cardinality(S) \in Nat
  BY SlotsTypes DEF Slots
<1>4. Slots(u, j) = Cardinality(T)
  BY DEF Slots
<1>5. T = IF j = k THEN S \cup {p} ELSE S
  BY <1>1, <1>2
<1>6. p \notin S
  BY <1>2
<1> HIDE DEF S, T
<1>7. Cardinality(T) = IF j = k THEN Cardinality(S) + 1 ELSE Cardinality(S)
  BY <1>3, <1>5, <1>6, FS_AddElement
<1>8. Slots(u, j) = Slots(t, j) + IF j = k THEN 1 ELSE 0
  BY <1>3, <1>4, <1>7
<1>9. QED
  BY <1>8 DEF u

LEMMA WithoutSlotSlots ==
  ASSUME NEW t, GoodTable(t), NEW p \in Live(t), NEW j
  PROVE  /\ Slots(t, t.slot[p].key) >= 1
         /\ Slots(WithoutSlot(t, p), j)
              = Slots(t, j) - IF j = t.slot[p].key THEN 1 ELSE 0
<1> DEFINE u == WithoutSlot(t, p)
           k == t.slot[p].key
           S(i) == {q \in Live(t) : t.slot[q].key = i}
           T == {q \in Live(u) : u.slot[q].key = j}
<1>1. u.slot = [t.slot EXCEPT ![p] = Deleted] /\ Live(u) = Live(t) \ {p}
  BY WithoutSlotIsGood
<1> HIDE DEF u
<1>2. \A q \in Live(u) : q # p /\ q \in Live(t) /\ u.slot[q] = t.slot[q]
  BY <1>1, TableTypes DEF Live
<1>3. \A i : IsFiniteSet(S(i)) /\ Slots(t, i) = Cardinality(S(i)) /\ Cardinality(S(i)) \in Nat
  BY SlotsTypes DEF Slots
<1>4. Slots(u, j) = Cardinality(T)
  BY DEF Slots
<1>5. p \in S(k)
  OBVIOUS
<1>6. T = IF j = k THEN S(k) \ {p} ELSE S(j)
  BY <1>1, <1>2
<1> HIDE DEF S, T, k
<1>7. Cardinality(T) = IF j = k THEN Cardinality(S(k)) - 1 ELSE Cardinality(S(j))
  BY <1>3, <1>5, <1>6, FS_RemoveElement
<1>8. Slots(t, k) >= 1
  <2>1. Cardinality(S(k)) # 0
    BY <1>3, <1>5, FS_EmptySet
  <2>2. QED
    BY <1>3, <2>1
<1>9. Slots(u, j) = Slots(t, j) - IF j = k THEN 1 ELSE 0
  BY <1>3, <1>4, <1>7
<1>10. QED
  BY <1>8, <1>9 DEF u, k

-----------------------------------------------------------------------------
(* The heap: a copy of a key is allocated only while there are fewer than  *)
(* StringLimit, so no key ever has more.                                   *)
StringTypes ==
  /\ strings \in [Key -> 0..StringLimit]
  /\ IsFiniteSet(Copies)

LEMMA AllocateKeepsTypes ==
  ASSUME StringTypes, NEW k \in Key, Allocate(k)
  PROVE  /\ StringTypes'
         /\ \A j \in Key : strings'[j] = strings[j] + IF j = k THEN 1 ELSE 0
<1> DEFINE n == StringLimit
           T == {k} \X (1..n)
<1>1. /\ strings' = [strings EXCEPT ![k] = strings[k] + 1]
      /\ Cardinality(Copies) < n
  BY DEF Allocate
<1>2. /\ strings \in [Key -> 0..n] /\ strings[k] \in 0..n
      /\ n \in Nat /\ IsFiniteSet(Copies)
  BY KeyAssumption DEF StringTypes
<1>3. ASSUME strings[k] = n PROVE FALSE
  <2>1. IsFiniteSet({k}) /\ Cardinality({k}) = 1
    BY FS_Singleton
  <2>2. IsFiniteSet(1..n) /\ Cardinality(1..n) = n
    <3>1. /\ IsFiniteSet(1..n)
          /\ Cardinality(1..n) = IF 1 > n THEN 0 ELSE n - 1 + 1
      <4>1. 1 \in Int /\ n \in Int
        BY <1>2
      <4>2. QED
        BY <4>1, FS_Interval
    <3>2. QED
      BY <1>2, <3>1
  <2>3. Cardinality(T) = Cardinality({k}) * Cardinality(1..n)
    BY <2>1, <2>2, FS_Product
  <2>4. T \subseteq Copies
    BY <1>2, <1>3 DEF Copies
  <2> HIDE DEF T
  <2>5. Cardinality(T) <= Cardinality(Copies) /\ Cardinality(Copies) \in Nat
    BY <1>2, <2>4, FS_Subset, FS_CardinalityType
  <2>6. QED
    BY <1>1, <1>2, <2>1, <2>2, <2>3, <2>5
<1>4. strings[k] + 1 \in 0..n
  BY <1>2, <1>3
<1>5. strings' \in [Key -> 0..n]
  BY <1>1, <1>2, <1>4
<1>6. \A j \in Key : strings'[j] = strings[j] + IF j = k THEN 1 ELSE 0
  BY <1>1, <1>2
<1>7. IsFiniteSet(Copies')
  <2>1. Copies' \subseteq Copies \cup {<<k, strings[k] + 1>>}
    <3> SUFFICES ASSUME NEW j \in Key, NEW i \in 1..n, i <= strings'[j]
                 PROVE  <<j, i>> \in Copies \cup {<<k, strings[k] + 1>>}
      BY DEF Copies
    <3>1. CASE i <= strings[j]
      BY <3>1 DEF Copies
    <3>2. CASE ~(i <= strings[j])
      <4>1. j = k /\ i = strings[k] + 1
        BY <1>2, <1>6, <3>2
      <4>2. QED
        BY <4>1
    <3>3. QED
      BY <3>1, <3>2
  <2>2. IsFiniteSet(Copies \cup {<<k, strings[k] + 1>>})
    BY <1>2, FS_AddElement
  <2>3. QED
    BY <2>1, <2>2, FS_Subset
<1>8. QED
  BY <1>5, <1>6, <1>7 DEF StringTypes

LEMMA FreeKeepsTypes ==
  ASSUME StringTypes, NEW k \in Key, strings[k] >= 1,
         strings' = [strings EXCEPT ![k] = @ - 1]
  PROVE  /\ StringTypes'
         /\ \A j \in Key : strings'[j] = strings[j] - IF j = k THEN 1 ELSE 0
<1>1. strings \in [Key -> 0..StringLimit] /\ StringLimit \in Nat /\ IsFiniteSet(Copies)
  BY KeyAssumption DEF StringTypes
<1>2. strings' \in [Key -> 0..StringLimit]
  BY <1>1
<1>3. \A j \in Key : strings'[j] = strings[j] - IF j = k THEN 1 ELSE 0
  BY <1>1
<1>4. \A j \in Key : strings'[j] <= strings[j]
  BY <1>1, <1>3
<1>5. Copies' \subseteq Copies
  BY <1>1, <1>2, <1>4 DEF Copies
<1>6. QED
  BY <1>1, <1>2, <1>3, <1>5, FS_Subset DEF StringTypes

LEMMA SameStringsKeepTypes ==
  ASSUME StringTypes, UNCHANGED strings
  PROVE  StringTypes'
BY DEF StringTypes, Copies

-----------------------------------------------------------------------------
(* The tables, and what is said of the calls.  The rehash is in range: the *)
(* table it fills is twice as large, and has taken at most one node from   *)
(* each slot it has passed; no call has returned since it began.           *)
Rehashing ==
  /\ GoodTable(pending.table)
  /\ pending \in Underway(pending.table.capacity)
  /\ pending.next \in 0..umap.capacity
  /\ 2 * umap.capacity <= pending.table.capacity
  /\ pending.table.load <= pending.next
  /\ out = NULL

OutOK ==
  out \in [call : {"insert", "find", "delete", "clear"},
           key : Key \cup {NULL}, value : Value \cup {NULL}] \cup {NULL}

TablesOK ==
  /\ GoodTable(umap)
  /\ pending = NULL \/ Rehashing
  /\ hung \in Key \cup {NULL}
  /\ OutOK
  /\ HangIsALookalike

IInv == TablesOK /\ StringTypes /\ EverySlotOwnsAString

(* The record of an insert that resizes is one.                            *)
LEMMA UnderwayRecord ==
  ASSUME NEW k \in Key, NEW v \in Value, NEW n \in Nat, NEW d \in SUBSET Key,
         NEW t, GoodTable(t), NEW r,
         r = [key |-> k, value |-> v, next |-> n, dropped |-> d, table |-> t]
  PROVE  /\ r \in Underway(t.capacity) /\ r # NULL
         /\ r.key = k /\ r.value = v /\ r.next = n /\ r.dropped = d /\ r.table = t
<1>1. t \in TableOf(t.capacity) /\ t.capacity \in 1..HeapLimit
  BY DEF GoodTable, IsTable
<1>2. r \in Underway(t.capacity)
  BY <1>1 DEF Underway
<1>3. QED
  BY <1>1, <1>2, PendingAssumption

LEMMA RehashTypes ==
  ASSUME Rehashing
  PROVE  /\ pending # NULL /\ pending.key \in Key /\ pending.value \in Value
         /\ pending.next \in Nat /\ pending.dropped \in SUBSET Key
         /\ GoodTable(pending.table)
<1>1. pending.table.capacity \in 1..HeapLimit
  BY DEF Rehashing, GoodTable, IsTable
<1>2. QED
  BY <1>1, PendingAssumption DEF Rehashing, Underway

(* A call hands back what the table holds.                                 *)
LEMMA AnswerOK ==
  ASSUME NEW call \in {"insert", "find", "delete", "clear"},
         NEW k \in Key \cup {NULL}, NEW v \in Value \cup {NULL},
         Return(call, k, v)
  PROVE  OutOK' /\ UNCHANGED <<pending, hung>>
BY DEF Return, Answer, OutOK

(* A probe spins only over a key that looks like its own.                  *)
LEMMA HangKeepsTables ==
  ASSUME TablesOK, NEW t, GoodTable(t), NEW k \in Key,
         t = umap \/ (pending # NULL /\ t = pending.table),
         Clashes(t, k, Probe(t, k)) \/ Probe(t, k) = NULL, Hang(k)
  PROVE  TablesOK'
<1> DEFINE p == Probe(t, k)
<1>1. hung' = k /\ out' = NULL /\ UNCHANGED <<umap, pending>>
  BY DEF Hang
<1>2. /\ p \in 0..t.capacity-1 /\ t.slot[p] \in Node
      /\ t.slot[p].key \in Key /\ t.slot[p].key # k /\ H2(t.slot[p].key) = H2(k)
  BY ProbeStops, SlotFacts DEF Clashes
<1>3. p \in Live(t) /\ Look(t.slot[p].key) = Look(k)
  BY <1>2, TagShowsLook DEF Live
<1> HIDE DEF p
<1>4. \E u \in {umap} \cup IF pending = NULL THEN {} ELSE {pending.table} :
        \E q \in Live(u) : u.slot[q].key # k /\ Look(u.slot[q].key) = Look(k)
  BY <1>2, <1>3
<1>5. HangIsALookalike'
  BY <1>1, <1>4 DEF HangIsALookalike, Live
<1>6. QED
  BY <1>1, <1>5 DEF TablesOK, Rehashing, OutOK

LEMMA SameTableKeepsTables ==
  ASSUME TablesOK, OutOK', pending = NULL, UNCHANGED <<umap, pending, hung>>
  PROVE  TablesOK'
BY DEF TablesOK, HangIsALookalike, Live

LEMMA NewTableKeepsTables ==
  ASSUME TablesOK, hung = NULL, GoodTable(umap'), OutOK', pending' = NULL,
         UNCHANGED hung
  PROVE  TablesOK'
BY DEF TablesOK, HangIsALookalike

LEMMA InsertKeepsTables ==
  ASSUME TablesOK, pending = NULL, hung = NULL,
         NEW k \in Key, Insert(k, Probe(umap, k))
  PROVE  TablesOK'
<1> DEFINE p == Probe(umap, k)
<1>1. GoodTable(umap)
  BY DEF TablesOK
<1>2. CASE /\ Found(umap, k, p)
           /\ Return("insert", k, umap.slot[p].value)
           /\ UNCHANGED <<umap, strings>>
  BY <1>2, AnswerOK, FoundValue, SameTableKeepsTables
<1>3. ASSUME NEW v \in Value, InsertInPlace(k, v) PROVE TablesOK'
  <2>1. OutOK' /\ UNCHANGED <<pending, hung>>
    BY <1>3, AnswerOK DEF InsertInPlace
  <2>2. GoodTable(umap')
    BY <1>1, <1>3, RoomLeft, PlacedIsGood DEF InsertInPlace
  <2>3. QED
    BY <2>1, <2>2, NewTableKeepsTables
<1>4. ASSUME NEW v \in Value, InsertResizes(k, v) PROVE TablesOK'
  <2> DEFINE c == GrownCapacity(umap.capacity)
             t == NewTable(c)
  <2>1. /\ pending' = [key |-> k, value |-> v, next |-> 0, dropped |-> {}, table |-> t]
        /\ out' = NULL /\ UNCHANGED <<umap, hung>>
        /\ CanGrow(umap.capacity, umap.length)
    BY <1>4 DEF InsertResizes
  <2>2. c \in Capacities /\ c \in 1..HeapLimit /\ 2 * umap.capacity <= c
    BY <1>1, <2>1, GrownTable
  <2> HIDE DEF c
  <2>3. GoodTable(t) /\ t.capacity = c /\ t.load = 0
    BY <2>2, NewIsGood
  <2> HIDE DEF t
  <2>4. /\ pending' \in Underway(t.capacity)
        /\ pending'.next = 0 /\ pending'.table = t
    BY <2>1, <2>3, UnderwayRecord
  <2>5. Rehashing'
    BY <1>1, <2>1, <2>2, <2>3, <2>4, TableTypes DEF Rehashing
  <2>6. QED
    BY <2>1, <2>5 DEF TablesOK, OutOK, HangIsALookalike
<1>5. CASE InsertRefused(k)
  BY <1>5, AnswerOK, SameTableKeepsTables DEF InsertRefused
<1>6. CASE FindSpins(umap, k, p) /\ Hang(k)
  BY <1>1, <1>6, HangKeepsTables DEF FindSpins
<1>7. QED
  BY <1>2, <1>3, <1>4, <1>5, <1>6 DEF Insert

LEMMA FindKeepsTables ==
  ASSUME TablesOK, pending = NULL, NEW k \in Key, Find(k, Probe(umap, k))
  PROVE  TablesOK'
<1> DEFINE p == Probe(umap, k)
<1>1. CASE /\ Found(umap, k, p)
           /\ Return("find", k, umap.slot[p].value)
           /\ UNCHANGED <<umap, strings>>
  BY <1>1, AnswerOK, FoundValue, SameTableKeepsTables
<1>2. CASE Return("find", k, NULL) /\ UNCHANGED <<umap, strings>>
  BY <1>2, AnswerOK, SameTableKeepsTables
<1>3. CASE FindSpins(umap, k, p) /\ Hang(k)
  BY <1>3, HangKeepsTables DEF FindSpins, TablesOK
<1>4. QED
  BY <1>1, <1>2, <1>3 DEF Find

LEMMA DeleteKeepsTables ==
  ASSUME TablesOK, pending = NULL, hung = NULL,
         NEW k \in Key, Delete(k, Probe(umap, k))
  PROVE  TablesOK'
<1> DEFINE p == Probe(umap, k)
<1>1. GoodTable(umap)
  BY DEF TablesOK
<1>2. CASE /\ Found(umap, k, p)
           /\ umap' = WithoutSlot(umap, p)
           /\ Return("delete", k, NULL)
  <2>1. p \in Live(umap)
    BY <1>1, <1>2, ProbeStops DEF Found, Live
  <2>2. GoodTable(umap')
    BY <1>1, <1>2, <2>1, WithoutSlotIsGood
  <2>3. OutOK' /\ UNCHANGED <<pending, hung>>
    BY <1>2, AnswerOK
  <2>4. QED
    BY <2>2, <2>3, NewTableKeepsTables
<1>3. CASE Return("delete", k, NULL) /\ UNCHANGED <<umap, strings>>
  BY <1>3, AnswerOK, SameTableKeepsTables
<1>4. CASE (Clashes(umap, k, p) \/ p = NULL) /\ Hang(k)
  BY <1>1, <1>4, HangKeepsTables
<1>5. QED
  BY <1>2, <1>3, <1>4 DEF Delete

LEMMA ClearKeepsTables ==
  ASSUME TablesOK, pending = NULL, hung = NULL, Clear
  PROVE  TablesOK'
<1>1. GoodTable(umap')
  BY ClearedIsGood DEF Clear, TablesOK
<1>2. OutOK' /\ UNCHANGED <<pending, hung>>
  BY AnswerOK DEF Clear
<1>3. QED
  BY <1>1, <1>2, NewTableKeepsTables

(* The steps of a rehash.                                                  *)
LEMMA RehashFacts ==
  ASSUME TablesOK, Rehashing
  PROVE  /\ umap.capacity \in Nat /\ 8 <= umap.capacity
         /\ pending.next \in Nat /\ pending.next <= umap.capacity
         /\ pending.table.load \in Nat /\ pending.table.capacity \in Nat
         /\ GoodTable(pending.table)
         /\ pending.table.load + 1 < pending.table.capacity
<1>1. /\ umap.capacity \in Nat /\ 8 <= umap.capacity
      /\ pending.table.load \in Nat /\ pending.table.capacity \in Nat
  BY TableTypes DEF TablesOK, Rehashing
<1>2. /\ pending.next \in Nat /\ pending.next <= umap.capacity
      /\ pending.table.load <= pending.next
      /\ 2 * umap.capacity <= pending.table.capacity
  BY <1>1 DEF Rehashing
<1>3. QED
  BY <1>1, <1>2 DEF Rehashing

LEMMA RehashNextKeepsTables ==
  ASSUME TablesOK, Rehashing, hung = NULL, pending.next < umap.capacity,
         NEW t, GoodTable(t), t.capacity = pending.table.capacity,
         t.load <= pending.next + 1, NEW dropped \in SUBSET Key, RehashNext(t, dropped)
  PROVE  TablesOK'
<1>1. /\ pending' = [key |-> pending.key, value |-> pending.value,
                     next |-> pending.next + 1, dropped |-> dropped, table |-> t]
      /\ UNCHANGED <<umap, hung, out>>
  BY DEF RehashNext
<1>2. /\ pending' \in Underway(t.capacity)
      /\ pending'.next = pending.next + 1 /\ pending'.table = t
  <2> DEFINE k == pending.key
             v == pending.value
             n == pending.next + 1
  <2>1. k \in Key /\ v \in Value /\ n \in Nat
    BY RehashTypes
  <2>2. pending' = [key |-> k, value |-> v, next |-> n, dropped |-> dropped, table |-> t]
    BY <1>1
  <2> HIDE DEF k, v, n
  <2>3. pending' \in Underway(t.capacity) /\ pending'.next = n /\ pending'.table = t
    BY <2>1, <2>2, UnderwayRecord
  <2>4. QED
    BY <2>3 DEF n
<1>3. pending.next + 1 \in 0..umap.capacity
  BY TableTypes DEF TablesOK, Rehashing
<1>4. Rehashing'
  BY <1>1, <1>2, <1>3 DEF Rehashing
<1>5. QED
  BY <1>1, <1>4 DEF TablesOK, OutOK, HangIsALookalike

LEMMA RehashSlotKeepsTables ==
  ASSUME TablesOK, hung = NULL, RehashSlot
  PROVE  TablesOK'
<1> DEFINE t == pending.table
           s == umap.slot[pending.next]
<1>1. Rehashing /\ pending # NULL /\ pending.next < umap.capacity
  BY DEF RehashSlot, TablesOK
<1>2. /\ GoodTable(t) /\ t.load + 1 < t.capacity
      /\ t.load \in Nat /\ pending.next \in Nat
      /\ t.load <= pending.next /\ pending.dropped \in SUBSET Key
  BY <1>1, RehashFacts, RehashTypes DEF Rehashing
<1>3. t.load <= pending.next + 1 /\ t.load + 1 <= pending.next + 1
  BY <1>2
<1>4. ASSUME NEW dropped \in SUBSET Key, RehashNext(t, dropped) PROVE TablesOK'
  BY <1>1, <1>2, <1>3, <1>4, RehashNextKeepsTables
<1>5. CASE s \in Node /\ RehashNode(s, Probe(t, s.key))
  <2>1. s.key \in Key /\ s.value \in Value
    BY <1>5 DEF Node
  <2>2. CASE RehashNext(Placed(t, s.key, s.value), pending.dropped)
    <3> DEFINE u == Placed(t, s.key, s.value)
    <3>1. GoodTable(u) /\ u.capacity = t.capacity /\ u.load = t.load + 1
      BY <1>2, <2>1, PlacedIsGood
    <3>2. RehashNext(u, pending.dropped)
      BY <2>2
    <3> HIDE DEF u
    <3>3. u.load <= pending.next + 1
      BY <1>3, <3>1
    <3>4. QED
      BY <1>1, <1>2, <3>1, <3>2, <3>3, RehashNextKeepsTables
  <2>3. CASE RehashNext(t, pending.dropped \cup {s.key})
    <3>1. pending.dropped \cup {s.key} \in SUBSET Key
      BY <1>2, <2>1
    <3>2. QED
      BY <1>4, <2>3, <3>1
  <2>4. CASE RehashNext(t, pending.dropped)
    BY <1>2, <1>4, <2>4
  <2>5. CASE FindSpins(t, s.key, Probe(t, s.key)) /\ Hang(s.key)
    BY <1>1, <1>2, <2>1, <2>5, HangKeepsTables DEF FindSpins
  <2>6. QED
    BY <1>5, <2>2, <2>3, <2>4, <2>5 DEF RehashNode
<1>6. CASE RehashNext(t, pending.dropped)
  BY <1>2, <1>4, <1>6
<1>7. QED
  BY <1>5, <1>6 DEF RehashSlot

LEMMA InsertAfterRehashKeepsTables ==
  ASSUME TablesOK, hung = NULL, InsertAfterRehash
  PROVE  TablesOK'
<1>1. Rehashing /\ pending.key \in Key /\ pending.value \in Value
  BY RehashTypes DEF InsertAfterRehash, TablesOK
<1>2. GoodTable(umap')
  BY <1>1, RehashFacts, PlacedIsGood DEF InsertAfterRehash, Rehashing
<1>3. OutOK'
  BY <1>1 DEF InsertAfterRehash, Answer, OutOK
<1>4. QED
  BY <1>2, <1>3, NewTableKeepsTables DEF InsertAfterRehash

-----------------------------------------------------------------------------
(* The accounts: a step changes the copies of a key and the slots that own *)
(* one alike, or drops a whole table.                                      *)
SameLoss ==
  \A j \in Key : strings'[j] - Owned(j)' = strings[j] - Owned(j)

TableLost ==
  \A j \in Key : strings'[j] - Owned(j)' = strings[j] - Owned(j) + Slots(umap, j)

Accounted == StringTypes' /\ (SameLoss \/ TableLost)

LEMMA StringsAreNat ==
  ASSUME StringTypes
  PROVE  \A j \in Key : strings[j] \in Nat
BY KeyAssumption DEF StringTypes

LEMMA OwnedWhenIdle ==
  ASSUME TablesOK, pending = NULL, NEW j
  PROVE  Owned(j) = Slots(umap, j) /\ Slots(umap, j) \in Nat
<1>1. Slots(umap, j) \in Nat
  BY SlotsTypes DEF TablesOK
<1>2. QED
  BY <1>1 DEF Owned

LEMMA OwnedWhenPending ==
  ASSUME TablesOK, Rehashing, pending # NULL, NEW j
  PROVE  /\ Owned(j) = Slots(umap, j) + Slots(pending.table, j)
         /\ Slots(umap, j) \in Nat /\ Slots(pending.table, j) \in Nat
BY SlotsTypes DEF Owned, TablesOK, Rehashing

LEMMA OwnedNext ==
  ASSUME NEW j
  PROVE  Owned(j)' = Slots(umap', j)
                       + IF pending' = NULL THEN 0 ELSE Slots(pending'.table, j)
BY DEF Owned, Slots, Live

LEMMA AccountsKept ==
  ASSUME StringTypes, UNCHANGED <<umap, pending, strings>>
  PROVE  Accounted
BY SameStringsKeepTypes DEF Accounted, SameLoss, Owned, Slots, Live

LEMMA PlacedIsAccounted ==
  ASSUME TablesOK, StringTypes, pending = NULL, UNCHANGED pending,
         umap.load + 1 < umap.capacity, NEW k \in Key, NEW v \in Value,
         Allocate(k), umap' = Placed(umap, k, v)
  PROVE  Accounted
<1>1. /\ StringTypes'
      /\ \A j \in Key : strings'[j] = strings[j] + IF j = k THEN 1 ELSE 0
  BY AllocateKeepsTypes
<1>2. ASSUME NEW j \in Key PROVE strings'[j] - Owned(j)' = strings[j] - Owned(j)
  <2>1. Owned(j) = Slots(umap, j) /\ Slots(umap, j) \in Nat /\ strings[j] \in Nat
    BY OwnedWhenIdle, StringsAreNat
  <2>2. Owned(j)' = Slots(umap', j) + 0
    BY OwnedNext
  <2>3. Slots(umap', j) = Slots(umap, j) + IF j = k THEN 1 ELSE 0
    BY PlacedSlots DEF TablesOK
  <2>4. QED
    BY <1>1, <2>1, <2>2, <2>3
<1>3. QED
  BY <1>1, <1>2 DEF Accounted, SameLoss

LEMMA WithoutSlotIsAccounted ==
  ASSUME TablesOK, StringTypes, EverySlotOwnsAString, pending = NULL,
         UNCHANGED pending, NEW p \in Live(umap), NEW k \in Key,
         umap.slot[p].key = k, umap' = WithoutSlot(umap, p),
         strings' = [strings EXCEPT ![k] = @ - 1]
  PROVE  Accounted
<1>1. \A j \in Key : /\ Owned(j) = Slots(umap, j) /\ Slots(umap, j) \in Nat
                     /\ strings[j] \in Nat
  BY OwnedWhenIdle, StringsAreNat
<1>2. /\ Slots(umap, k) >= 1
      /\ \A j : Slots(umap', j) = Slots(umap, j) - IF j = k THEN 1 ELSE 0
  BY WithoutSlotSlots DEF TablesOK
<1>3. Slots(umap, k) <= strings[k]
  BY <1>1 DEF EverySlotOwnsAString
<1>4. strings[k] >= 1
  BY <1>1, <1>2, <1>3
<1>5. /\ StringTypes'
      /\ \A j \in Key : strings'[j] = strings[j] - IF j = k THEN 1 ELSE 0
  BY <1>4, FreeKeepsTypes
<1>6. ASSUME NEW j \in Key PROVE strings'[j] - Owned(j)' = strings[j] - Owned(j)
  <2>1. Owned(j)' = Slots(umap', j) + 0
    BY OwnedNext
  <2>2. QED
    BY <1>1, <1>2, <1>5, <2>1
<1>7. QED
  BY <1>5, <1>6 DEF Accounted, SameLoss

LEMMA InsertIsAccounted ==
  ASSUME TablesOK, StringTypes, pending = NULL,
         NEW k \in Key, Insert(k, Probe(umap, k))
  PROVE  Accounted
<1>1. GoodTable(umap)
  BY DEF TablesOK
<1>2. CASE UNCHANGED <<umap, pending, strings>>
  BY <1>2, AccountsKept
<1>3. ASSUME NEW v \in Value, InsertInPlace(k, v) PROVE Accounted
  BY <1>1, <1>3, RoomLeft, PlacedIsAccounted DEF InsertInPlace, Return
<1>4. ASSUME NEW v \in Value, InsertResizes(k, v) PROVE Accounted
  <2> DEFINE c == GrownCapacity(umap.capacity)
             t == NewTable(c)
  <2>1. /\ pending' = [key |-> k, value |-> v, next |-> 0, dropped |-> {}, table |-> t]
        /\ UNCHANGED <<umap, strings>>
        /\ CanGrow(umap.capacity, umap.length)
    BY <1>4 DEF InsertResizes
  <2>2. c \in Capacities /\ c \in 1..HeapLimit
    BY <1>1, <2>1, GrownTable
  <2> HIDE DEF c
  <2>3. GoodTable(t) /\ Live(t) = {}
    BY <2>2, NewIsGood
  <2> HIDE DEF t
  <2>4. pending' # NULL /\ pending'.table = t
    BY <2>1, <2>3, UnderwayRecord
  <2>5. ASSUME NEW j \in Key PROVE strings'[j] - Owned(j)' = strings[j] - Owned(j)
    <3>1. Slots(t, j) = 0
      BY <2>3, NoSlots
    <3>2. Owned(j)' = Slots(umap, j) + 0
      BY <2>1, <2>4, <3>1, OwnedNext
    <3>3. Owned(j) = Slots(umap, j) /\ Slots(umap, j) \in Nat
      BY OwnedWhenIdle
    <3>4. QED
      BY <2>1, <3>2, <3>3
  <2>6. QED
    BY <2>1, <2>5, SameStringsKeepTypes DEF Accounted, SameLoss
<1>5. QED
  BY <1>2, <1>3, <1>4 DEF Insert, Return, InsertRefused, Hang

LEMMA DeleteIsAccounted ==
  ASSUME TablesOK, StringTypes, EverySlotOwnsAString, pending = NULL,
         NEW k \in Key, Delete(k, Probe(umap, k))
  PROVE  Accounted
<1> DEFINE p == Probe(umap, k)
<1>1. CASE UNCHANGED <<umap, pending, strings>>
  BY <1>1, AccountsKept
<1>2. CASE /\ Found(umap, k, p)
           /\ umap' = WithoutSlot(umap, p)
           /\ strings' = [strings EXCEPT ![k] = @ - 1]
           /\ Return("delete", k, NULL)
  <2>1. p \in Live(umap) /\ umap.slot[p].key = k
    BY <1>2, ProbeStops DEF Found, Live, TablesOK
  <2>2. QED
    BY <1>2, <2>1, WithoutSlotIsAccounted DEF Return
<1>3. QED
  BY <1>1, <1>2 DEF Delete, Return, Hang

LEMMA ClearIsAccounted ==
  ASSUME TablesOK, StringTypes, pending = NULL, Clear
  PROVE  Accounted
<1>1. /\ umap' = Cleared(umap) /\ pending' = NULL /\ UNCHANGED strings
      /\ GoodTable(umap)
  BY DEF Clear, Return, TablesOK
<1>2. ASSUME NEW j \in Key
      PROVE  strings'[j] - Owned(j)' = strings[j] - Owned(j) + Slots(umap, j)
  <2>1. Owned(j) = Slots(umap, j) /\ Slots(umap, j) \in Nat /\ strings[j] \in Nat
    BY OwnedWhenIdle, StringsAreNat
  <2>2. Slots(umap', j) = 0
    BY <1>1, ClearedIsGood, NoSlots
  <2>3. Owned(j)' = 0
    BY <1>1, <2>2, OwnedNext
  <2>4. QED
    BY <1>1, <2>1, <2>3
<1>3. QED
  BY <1>1, <1>2, SameStringsKeepTypes DEF Accounted, TableLost

LEMMA RehashNextIsAccounted ==
  ASSUME TablesOK, Rehashing, StringTypes, StringTypes',
         NEW t, GoodTable(t), NEW dropped \in SUBSET Key, RehashNext(t, dropped),
         \A j \in Key : strings'[j] - Slots(t, j) = strings[j] - Slots(pending.table, j)
  PROVE  Accounted
<1>1. pending' # NULL /\ pending'.table = t /\ umap' = umap
  <2> DEFINE k == pending.key
             v == pending.value
             n == pending.next + 1
  <2>1. k \in Key /\ v \in Value /\ n \in Nat
    BY RehashTypes
  <2>2. /\ pending' = [key |-> k, value |-> v, next |-> n, dropped |-> dropped, table |-> t]
        /\ umap' = umap
    BY DEF RehashNext
  <2> HIDE DEF k, v, n
  <2>3. QED
    BY <2>1, <2>2, UnderwayRecord
<1>2. ASSUME NEW j \in Key PROVE strings'[j] - Owned(j)' = strings[j] - Owned(j)
  <2>1. Owned(j)' = Slots(umap, j) + Slots(t, j)
    BY <1>1, OwnedNext
  <2>2. /\ Owned(j) = Slots(umap, j) + Slots(pending.table, j)
        /\ Slots(umap, j) \in Nat /\ Slots(pending.table, j) \in Nat
    BY RehashTypes, OwnedWhenPending
  <2>3. strings[j] \in Nat /\ strings'[j] \in Nat
    BY KeyAssumption DEF StringTypes
  <2>4. Slots(t, j) \in Nat
    BY SlotsTypes
  <2>5. QED
    BY <2>1, <2>2, <2>3, <2>4
<1>3. QED
  BY <1>2 DEF Accounted, SameLoss

LEMMA RehashSlotIsAccounted ==
  ASSUME TablesOK, StringTypes, RehashSlot
  PROVE  Accounted
<1> DEFINE t == pending.table
           s == umap.slot[pending.next]
<1>1. /\ Rehashing /\ pending # NULL /\ GoodTable(t) /\ t.load + 1 < t.capacity
      /\ pending.dropped \in SUBSET Key
  BY RehashFacts, RehashTypes DEF RehashSlot, TablesOK
<1>2. ASSUME NEW dropped \in SUBSET Key, RehashNext(t, dropped), UNCHANGED strings
      PROVE  Accounted
  BY <1>1, <1>2, SameStringsKeepTypes, RehashNextIsAccounted
<1>3. CASE s \in Node /\ RehashNode(s, Probe(t, s.key))
  <2> DEFINE k == s.key
             u == Placed(t, s.key, s.value)
  <2>1. k \in Key /\ s.value \in Value
    BY <1>3 DEF Node
  <2>2. CASE Allocate(k) /\ RehashNext(u, pending.dropped)
    <3>1. /\ StringTypes'
          /\ \A j \in Key : strings'[j] = strings[j] + IF j = k THEN 1 ELSE 0
      BY <2>1, <2>2, AllocateKeepsTypes
    <3>2. GoodTable(u)
      BY <1>1, <2>1, PlacedIsGood
    <3>3. \A j : Slots(u, j) = Slots(t, j) + IF j = k THEN 1 ELSE 0
      BY <1>1, <2>1, PlacedSlots
    <3>4. \A j \in Key : strings[j] \in Nat /\ Slots(t, j) \in Nat
      BY <1>1, StringsAreNat, SlotsTypes
    <3> HIDE DEF u, k
    <3>5. \A j \in Key : strings'[j] - Slots(u, j) = strings[j] - Slots(t, j)
      BY <3>1, <3>3, <3>4
    <3>6. QED
      BY <1>1, <2>2, <3>1, <3>2, <3>5, RehashNextIsAccounted
  <2>3. CASE RehashNext(t, pending.dropped \cup {k}) /\ UNCHANGED strings
    <3>1. pending.dropped \cup {k} \in SUBSET Key
      BY <1>1, <2>1
    <3>2. QED
      BY <1>2, <2>3, <3>1
  <2>4. CASE RehashNext(t, pending.dropped) /\ UNCHANGED strings
    BY <1>1, <1>2, <2>4
  <2>5. CASE Hang(k)
    BY <2>5, AccountsKept DEF Hang
  <2>6. QED
    BY <1>3, <2>2, <2>3, <2>4, <2>5 DEF RehashNode
<1>4. CASE RehashNext(t, pending.dropped) /\ UNCHANGED strings
  BY <1>1, <1>2, <1>4
<1>5. QED
  BY <1>3, <1>4 DEF RehashSlot

LEMMA InsertAfterRehashIsAccounted ==
  ASSUME TablesOK, StringTypes, InsertAfterRehash
  PROVE  Accounted
<1> DEFINE t == pending.table
           k == pending.key
           v == pending.value
<1>1. /\ Rehashing /\ pending # NULL /\ k \in Key /\ v \in Value
      /\ GoodTable(t) /\ t.load + 1 < t.capacity /\ pending' = NULL
  BY RehashFacts, RehashTypes DEF InsertAfterRehash, TablesOK
<1>2. \A j \in Key : /\ Owned(j) = Slots(umap, j) + Slots(t, j)
                     /\ Slots(umap, j) \in Nat /\ Slots(t, j) \in Nat
                     /\ strings[j] \in Nat
  BY <1>1, OwnedWhenPending, StringsAreNat
<1>3. \A j : Owned(j)' = Slots(umap', j) + 0
  BY <1>1, OwnedNext
<1>4. CASE Allocate(k) /\ umap' = Placed(t, k, v)
  <2>1. /\ StringTypes'
        /\ \A j \in Key : strings'[j] = strings[j] + IF j = k THEN 1 ELSE 0
    BY <1>1, <1>4, AllocateKeepsTypes
  <2>2. \A j : Slots(umap', j) = Slots(t, j) + IF j = k THEN 1 ELSE 0
    BY <1>1, <1>4, PlacedSlots
  <2> HIDE DEF t, k, v
  <2>3. TableLost
    BY <1>2, <1>3, <2>1, <2>2 DEF TableLost
  <2>4. QED
    BY <2>1, <2>3 DEF Accounted
<1>5. CASE umap' = t /\ UNCHANGED strings
  <2> HIDE DEF t
  <2>1. TableLost
    BY <1>2, <1>3, <1>5 DEF TableLost
  <2>2. QED
    BY <1>5, <2>1, SameStringsKeepTypes DEF Accounted
<1>6. QED
  BY <1>4, <1>5 DEF InsertAfterRehash

-----------------------------------------------------------------------------
(* What the accounts say: no slot is left without a string, and a string   *)
(* is lost only with the table it was in.                                  *)
LEMMA AccountsBalance ==
  ASSUME IInv, TablesOK', Accounted
  PROVE  IInv' /\ Lost' \in {Lost, [k \in Key |-> Lost[k] + Slots(umap, k)]}
<1>1. \A k \in Key : /\ strings[k] \in Nat /\ strings'[k] \in Nat
                     /\ Slots(umap, k) \in Nat /\ Owned(k) \in Nat
                     /\ Owned(k) <= strings[k]
  <2>1. TablesOK /\ StringTypes /\ EverySlotOwnsAString /\ StringTypes'
    BY DEF IInv, Accounted
  <2>2. ASSUME NEW k \in Key PROVE Owned(k) \in Nat /\ Slots(umap, k) \in Nat
    <3>1. CASE pending = NULL
      BY <2>1, <3>1, OwnedWhenIdle
    <3>2. CASE pending # NULL
      <4>1. Rehashing
        BY <2>1, <3>2 DEF TablesOK
      <4>2. QED
        BY <2>1, <3>2, <4>1, OwnedWhenPending
    <3>3. QED
      BY <3>1, <3>2
  <2>3. QED
    BY <2>1, <2>2, KeyAssumption DEF EverySlotOwnsAString, StringTypes
<1>2. ASSUME NEW k \in Key PROVE Owned(k)' \in Nat
  <2>1. CASE pending' = NULL
    <3>1. GoodTable(umap') /\ Owned(k)' = Slots(umap', k) + 0
      BY <2>1, OwnedNext DEF TablesOK
    <3>2. Slots(umap', k) \in Nat
      BY <3>1, SlotsTypes
    <3>3. QED
      BY <3>1, <3>2
  <2>2. CASE pending' # NULL
    <3>1. GoodTable(umap') /\ GoodTable(pending'.table)
      BY <2>2 DEF TablesOK, Rehashing
    <3>2. Owned(k)' = Slots(umap', k) + Slots(pending'.table, k)
      BY <2>2, OwnedNext
    <3>3. Slots(umap', k) \in Nat /\ Slots(pending'.table, k) \in Nat
      BY <3>1, SlotsTypes
    <3>4. QED
      BY <3>2, <3>3
  <2>3. QED
    BY <2>1, <2>2
<1>3. Lost = [k \in Key |-> strings[k] - Owned(k)]
      /\ Lost' = [k \in Key |-> strings'[k] - Owned(k)']
  BY DEF Lost
<1>4. CASE SameLoss
  <2>1. Lost' = Lost
    BY <1>3, <1>4 DEF SameLoss
  <2>2. \A k \in Key : Owned(k)' <= strings'[k]
    BY <1>1, <1>2, <1>4 DEF SameLoss
  <2>3. QED
    BY <2>1, <2>2 DEF Accounted, IInv, EverySlotOwnsAString
<1>5. CASE TableLost
  <2>1. Lost' = [k \in Key |-> Lost[k] + Slots(umap, k)]
    BY <1>3, <1>5 DEF TableLost
  <2>2. \A k \in Key : Owned(k)' <= strings'[k]
    BY <1>1, <1>2, <1>5 DEF TableLost
  <2>3. QED
    BY <2>1, <2>2 DEF Accounted, IInv, EverySlotOwnsAString
<1>6. QED
  BY <1>4, <1>5 DEF Accounted

LEMMA StepIsAccounted ==
  ASSUME IInv, [Next]_vars
  PROVE  IInv' /\ Lost' \in {Lost, [k \in Key |-> Lost[k] + Slots(umap, k)]}
<1>1. TablesOK /\ StringTypes /\ EverySlotOwnsAString
  BY DEF IInv
<1>2. CASE UNCHANGED vars
  <2>1. TablesOK'
    BY <1>1, <1>2 DEF vars, TablesOK, Rehashing, OutOK, HangIsALookalike, Live
  <2>2. QED
    BY <1>1, <1>2, <2>1, AccountsKept, AccountsBalance DEF vars
<1>3. CASE hung = NULL /\ Call
  <2>1. pending = NULL
    BY <1>3 DEF Call
  <2>2. ASSUME NEW k \in Key, Insert(k, Probe(umap, k)) PROVE TablesOK' /\ Accounted
    BY <1>1, <1>3, <2>1, <2>2, InsertKeepsTables, InsertIsAccounted
  <2>3. ASSUME NEW k \in Key, Find(k, Probe(umap, k)) PROVE TablesOK' /\ Accounted
    <3>1. UNCHANGED <<umap, pending, strings>>
      BY <2>3 DEF Find, Return, Hang
    <3>2. QED
      BY <1>1, <2>1, <2>3, <3>1, FindKeepsTables, AccountsKept
  <2>4. ASSUME NEW k \in Key, Delete(k, Probe(umap, k)) PROVE TablesOK' /\ Accounted
    BY <1>1, <1>3, <2>1, <2>4, DeleteKeepsTables, DeleteIsAccounted
  <2>5. ASSUME Clear PROVE TablesOK' /\ Accounted
    BY <1>1, <1>3, <2>1, <2>5, ClearKeepsTables, ClearIsAccounted
  <2>6. TablesOK' /\ Accounted
    BY <1>3, <2>2, <2>3, <2>4, <2>5 DEF Call
  <2>7. QED
    BY <2>6, AccountsBalance
<1>4. CASE hung = NULL /\ RehashSlot
  BY <1>1, <1>4, RehashSlotKeepsTables, RehashSlotIsAccounted, AccountsBalance
<1>5. CASE hung = NULL /\ InsertAfterRehash
  BY <1>1, <1>5, InsertAfterRehashKeepsTables, InsertAfterRehashIsAccounted,
     AccountsBalance
<1>6. QED
  BY <1>2, <1>3, <1>4, <1>5 DEF Next, Rehash

LEMMA InitInv == Init => IInv
<1> SUFFICES ASSUME Init PROVE IInv
  OBVIOUS
<1>1. GoodTable(umap) /\ Live(umap) = {} /\ pending = NULL /\ hung = NULL /\ out = NULL
  BY NewIsGood, GrowthAssumption, CapacityAssumption DEF Init
<1>2. TablesOK
  BY <1>1 DEF TablesOK, OutOK, HangIsALookalike
<1>3. strings \in [Key -> 0..StringLimit] /\ \A k \in Key : strings[k] = 0
  BY KeyAssumption DEF Init
<1>4. Copies = {}
  BY <1>3, KeyAssumption DEF Copies
<1>5. EverySlotOwnsAString
  BY <1>1, <1>2, <1>3, NoSlots, OwnedWhenIdle DEF EverySlotOwnsAString
<1>6. QED
  BY <1>2, <1>3, <1>4, <1>5, FS_EmptySet DEF IInv, StringTypes

LEMMA InvImpliesTypeOK == IInv => TypeOK
<1> SUFFICES ASSUME IInv PROVE TypeOK
  OBVIOUS
<1>1. IsTable(umap) /\ hung \in Key \cup {NULL} /\ OutOK
      /\ strings \in [Key -> 0..StringLimit]
  BY DEF IInv, TablesOK, GoodTable, StringTypes
<1>2. CASE pending = NULL
  BY <1>1, <1>2 DEF TypeOK, OutOK
<1>3. CASE pending # NULL
  <2>1. /\ IsTable(pending.table) /\ pending \in Underway(pending.table.capacity)
        /\ pending.next \in 0..umap.capacity
    BY <1>3 DEF IInv, TablesOK, Rehashing, GoodTable
  <2>2. QED
    BY <1>1, <2>1 DEF TypeOK, OutOK
<1>4. QED
  BY <1>2, <1>3

(* TypeOK, EverySlotOwnsAString and HangIsALookalike, whatever the client  *)
(* calls and whenever an allocation fails: no string is freed twice, and   *)
(* only a key whose last character looks like a stored key's can hang.     *)
THEOREM StringMapInvariants ==
  Spec => [](TypeOK /\ EverySlotOwnsAString /\ HangIsALookalike)
<1>1. IInv /\ [Next]_vars => IInv'
  BY StepIsAccounted
<1>2. IInv => TypeOK /\ EverySlotOwnsAString /\ HangIsALookalike
  BY InvImpliesTypeOK DEF IInv, TablesOK
<1>3. QED
  BY InitInv, <1>1, <1>2, PTL DEF Spec

(* StringsLostByTable: no insert, failed or not, and no delete loses a     *)
(* string; a resize and a clear lose those of the table they drop.         *)
THEOREM StringsAreLostByTable == Spec => StringsLostByTable
<1>1. IInv /\ [Next]_vars => IInv'
  BY StepIsAccounted
<1>2. IInv /\ [Next]_vars
        => [Lost' \in {Lost, [k \in Key |-> Lost[k] + Slots(umap, k)]}]_vars
  BY StepIsAccounted
<1>3. QED
  BY InitInv, <1>1, <1>2, PTL DEF Spec, StringsLostByTable

-----------------------------------------------------------------------------
(* While a rehash is at slot n, the new table holds the nodes of the lone  *)
(* keys below n, but for those it found no memory for, and the key to be   *)
(* inserted is in neither table.                                           *)
Copied ==
  \A s \in Node :
    s.key \in Lone =>
      (Holds(pending.table, s)
         <=> /\ s.key \notin pending.dropped
             /\ \E p \in Live(umap) : p < pending.next /\ umap.slot[p] = s)

DroppedBelow ==
  \A k \in pending.dropped :
    k \in Lone => \E p \in Live(umap) : p < pending.next /\ umap.slot[p].key = k

Copying ==
  /\ Single(pending.table)
  /\ Copied
  /\ DroppedBelow
  /\ pending.key \in Lone => ~HasKey(umap, pending.key)

DInv ==
  /\ IInv
  /\ Single(umap)
  /\ pending = NULL \/ (Rehashing /\ Copying)

Dict == [k \in Lone |-> Kept(k)]

Shown ==
  IF out = NULL \/ out.key \in Lone \cup {NULL} THEN out
  ELSE Answer("other", NULL, NULL)

(* What a call shows: for another key, nothing but that it returned.       *)
LEMMA AnswerShown ==
  ASSUME NEW call, NEW k, NEW v, out' = Answer(call, k, v)
  PROVE  /\ k \in Lone \cup {NULL} => Shown' = D!Answer(call, k, v)
         /\ k \notin Lone \cup {NULL}
              => Shown' \in {NULL, D!Answer("other", NULL, NULL)}
<1>1. out'.key = k
  BY DEF Answer
<1>2. out' = D!Answer(call, k, v)
  BY DEF Answer, D!Answer
<1>3. Answer("other", NULL, NULL) = D!Answer("other", NULL, NULL)
  BY DEF Answer, D!Answer
<1>4. QED
  BY <1>1, <1>2, <1>3 DEF Shown

LEMMA QuietStep ==
  ASSUME Dict' = Dict,
         \/ out' = NULL
         \/ \E call, v : \E k \in Key \ Lone : out' = Answer(call, k, v)
  PROVE  D!Next
<1>1. Shown' \in {NULL, D!Answer("other", NULL, NULL)}
  <2>1. CASE out' = NULL
    BY <2>1 DEF Shown
  <2>2. CASE \E call, v : \E k \in Key \ Lone : out' = Answer(call, k, v)
    <3>0. PICK call, v : \E k \in Key \ Lone : out' = Answer(call, k, v)
      BY <2>2
    <3>1. PICK k \in Key \ Lone : out' = Answer(call, k, v)
      BY <3>0
    <3>2. k \notin Lone \cup {NULL}
      BY SlotFacts
    <3>3. QED
      BY <3>1, <3>2, AnswerShown
  <2>3. QED
    BY <2>1, <2>2
<1>2. D!Elsewhere
  BY <1>1 DEF D!Elsewhere, Shown, Dict
<1>3. QED
  BY <1>2 DEF D!Next

(* Between calls the dictionary is what the table holds.                   *)
LEMMA DictWhenIdle ==
  /\ pending = NULL => Dict = [k \in Lone |-> ContentOf(umap, k)]
  /\ pending' = NULL => Dict' = [k \in Lone |-> ContentOf(umap', k)]
<1>1. \A k : ContentOf(umap, k)' = ContentOf(umap', k)
  BY DEF ContentOf, Live
<1>2. QED
  BY <1>1 DEF Dict, Kept

(* A new table that holds other nodes only of one key.                     *)
LEMMA DictAt ==
  ASSUME pending = NULL, pending' = NULL, Single(umap), Single(umap'), NEW k \in Key,
         \A s \in Node : s.key # k => (Holds(umap, s) <=> Holds(umap', s))
  PROVE  /\ k \notin Lone => Dict' = Dict
         /\ k \in Lone => Dict' = [Dict EXCEPT ![k] = ContentOf(umap', k)]
<1>1. ASSUME NEW j \in Lone, j # k
      PROVE  ContentOf(umap', j) = ContentOf(umap, j)
  <2>1. \A s \in Node : s.key = j => (Holds(umap, s) <=> Holds(umap', s))
    BY <1>1
  <2>2. QED
    BY <2>1, SameContent
<1>2. QED
  BY <1>1, DictWhenIdle

LEMMA UnchangedTable ==
  ASSUME DInv, IInv', UNCHANGED <<umap, pending>>
  PROVE  DInv' /\ Dict' = Dict
<1>1. DInv'
  <2>1. Single(umap)' /\ (Copying => Copying')
    BY DEF DInv, Copying, Copied, DroppedBelow, Single, Holds, HasKey, Live
  <2>2. pending' = NULL \/ Rehashing'
    BY DEF IInv, TablesOK
  <2>3. QED
    BY <2>1, <2>2 DEF DInv
<1>2. Dict' = Dict
  BY DEF Dict, Kept, ContentOf, Live
<1>3. QED
  BY <1>1, <1>2

LEMMA NextIdle ==
  ASSUME IInv', Single(umap'), pending' = NULL
  PROVE  DInv'
BY DEF DInv, Single, Live

-----------------------------------------------------------------------------
(* The calls.                                                              *)
LEMMA InsertIsDictionary ==
  ASSUME DInv, pending = NULL, IInv', NEW k \in Key, Insert(k, Probe(umap, k))
  PROVE  DInv' /\ D!Next
<1> DEFINE p == Probe(umap, k)
<1>0. GoodTable(umap) /\ Single(umap) /\ Dict = [j \in Lone |-> ContentOf(umap, j)]
  BY DictWhenIdle DEF DInv, IInv, TablesOK
<1>1. CASE /\ Found(umap, k, p)
           /\ Return("insert", k, umap.slot[p].value)
           /\ UNCHANGED <<umap, strings>>
  <2>1. /\ out' = Answer("insert", k, umap.slot[p].value)
        /\ Found(umap, k, p) /\ UNCHANGED <<umap, pending>>
    BY <1>1 DEF Return
  <2>2. DInv' /\ Dict' = Dict
    BY <2>1, UnchangedTable
  <2>3. CASE k \notin Lone
    BY <2>1, <2>2, <2>3, QuietStep
  <2>4. CASE k \in Lone
    <3>1. p \in Live(umap) /\ umap.slot[p].key = k /\ HasKey(umap, k)
      BY <1>0, <2>1, <2>4, LoneProbe DEF Found
    <3>2. Dict[k] = umap.slot[p].value /\ Dict[k] # NULL
      BY <1>0, <2>4, <3>1, ContentWhenHeld, ContentIsNotNull
    <3>3. Shown' = D!Answer("insert", k, Dict[k])
      BY <2>1, <2>4, <3>2, AnswerShown
    <3>4. D!InsertExisting(k)
      BY <2>2, <3>2, <3>3 DEF D!InsertExisting, Dict, Shown
    <3>5. QED
      BY <2>2, <2>4, <3>4 DEF D!Next
  <2>5. QED
    BY <2>3, <2>4
<1>2. ASSUME NEW v \in Value, FindMisses(umap, k, p), InsertInPlace(k, v)
      PROVE  DInv' /\ D!Next
  <2>1. /\ umap' = Placed(umap, k, v) /\ out' = Answer("insert", k, v)
        /\ umap.load + 1 < umap.capacity /\ pending' = NULL
    BY <1>0, <1>2, RoomLeft DEF InsertInPlace, Return
  <2>2. k \in Lone => ~HasKey(umap, k)
    BY <1>0, <1>2, LoneMiss
  <2>3. /\ Single(umap')
        /\ \A s : Holds(umap', s) <=> Holds(umap, s) \/ s = [key |-> k, value |-> v]
    BY <1>0, <2>1, <2>2, PlacedHolds
  <2>4. DInv'
    BY <2>1, <2>3, NextIdle
  <2>5. \A s \in Node : s.key # k => (Holds(umap, s) <=> Holds(umap', s))
    BY <2>3
  <2>6. CASE k \notin Lone
    BY <1>0, <2>1, <2>3, <2>4, <2>5, <2>6, DictAt, QuietStep
  <2>7. CASE k \in Lone
    <3>1. Dict' = [Dict EXCEPT ![k] = ContentOf(umap', k)]
      BY <1>0, <2>1, <2>3, <2>5, <2>7, DictAt
    <3>2. ContentOf(umap', k) = v
      <4>1. PICK q \in Live(umap') : umap'.slot[q] = [key |-> k, value |-> v]
        BY <2>3 DEF Holds
      <4>2. QED
        BY <2>3, <2>7, <4>1, ContentWhenHeld
    <3>3. Dict[k] = NULL
      BY <1>0, <2>2, <2>7, ContentWhenNot
    <3>4. Shown' = D!Answer("insert", k, v)
      BY <2>1, <2>7, AnswerShown
    <3>5. D!InsertNew(k, v)
      BY <3>1, <3>2, <3>3, <3>4 DEF D!InsertNew, Dict, Shown
    <3>6. QED
      BY <2>4, <2>7, <3>5 DEF D!Next
  <2>8. QED
    BY <2>6, <2>7
<1>3. ASSUME NEW v \in Value, FindMisses(umap, k, p), InsertResizes(k, v)
      PROVE  DInv' /\ D!Next
  <2> DEFINE c == GrownCapacity(umap.capacity)
             t == NewTable(c)
  <2>1. /\ pending' = [key |-> k, value |-> v, next |-> 0, dropped |-> {}, table |-> t]
        /\ out' = NULL /\ UNCHANGED <<umap, hung>>
        /\ CanGrow(umap.capacity, umap.length)
    BY <1>3 DEF InsertResizes
  <2>2. c \in Capacities /\ c \in 1..HeapLimit
    BY <1>0, <2>1, GrownTable
  <2> HIDE DEF c
  <2>3. Live(t) = {}
    BY <2>2, NewIsGood
  <2> HIDE DEF t
  <2>4. pending'.key = k /\ pending'.next = 0 /\ pending'.table = t /\ pending'.dropped = {}
    BY <2>1
  <2>5. k \in Lone => ~HasKey(umap, k)
    BY <1>0, <1>3, LoneMiss
  <2>6. Single(t) /\ \A s : ~Holds(t, s)
    BY <2>3, NothingHeld
  <2>7. \A q \in Live(umap) : ~(q < 0)
    BY <1>0, TableTypes DEF Live
  <2>8. Copying'
    BY <2>1, <2>4, <2>5, <2>6, <2>7
       DEF Copying, Copied, DroppedBelow, Single, Holds, HasKey, Live
  <2>9. DInv'
    BY <1>0, <2>1, <2>8 DEF DInv, IInv, TablesOK, Single, Live
  <2>10. Dict' = Dict
    BY <1>0, <2>1, <2>4 DEF Dict, Kept, ContentOf, Live
  <2>11. QED
    BY <2>1, <2>9, <2>10, QuietStep
<1>4. CASE FindMisses(umap, k, p) /\ InsertRefused(k)
  <2>1. out' = Answer("insert", k, NULL) /\ UNCHANGED <<umap, pending>>
    BY <1>4 DEF InsertRefused, Return
  <2>2. DInv' /\ Dict' = Dict
    BY <2>1, UnchangedTable
  <2>3. CASE k \notin Lone
    BY <2>1, <2>2, <2>3, QuietStep
  <2>4. CASE k \in Lone
    <3>1. Dict[k] = NULL
      BY <1>0, <1>4, <2>4, LoneMiss, ContentWhenNot
    <3>2. Shown' = D!Answer("insert", k, NULL)
      BY <2>1, <2>4, AnswerShown
    <3>3. D!InsertRefused(k)
      BY <2>2, <3>1, <3>2 DEF D!InsertRefused, Dict, Shown
    <3>4. QED
      BY <2>2, <2>4, <3>3 DEF D!Next
  <2>5. QED
    BY <2>3, <2>4
<1>5. CASE Hang(k)
  BY <1>5, UnchangedTable, QuietStep DEF Hang
<1>6. QED
  BY <1>1, <1>2, <1>3, <1>4, <1>5 DEF Insert

LEMMA FindIsDictionary ==
  ASSUME DInv, pending = NULL, IInv', NEW k \in Key, Find(k, Probe(umap, k))
  PROVE  DInv' /\ D!Next
<1> DEFINE p == Probe(umap, k)
<1>0. GoodTable(umap) /\ Single(umap) /\ Dict = [j \in Lone |-> ContentOf(umap, j)]
  BY DictWhenIdle DEF DInv, IInv, TablesOK
<1>1. DInv' /\ Dict' = Dict
  BY UnchangedTable DEF Find, Return, Hang
<1>2. CASE Hang(k)
  BY <1>1, <1>2, QuietStep DEF Hang
<1>3. ASSUME NEW v, out' = Answer("find", k, v), k \notin Lone PROVE D!Next
  BY <1>1, <1>3, QuietStep
<1>4. ASSUME NEW v, out' = Answer("find", k, v), k \in Lone, Dict[k] = v PROVE D!Next
  <2>1. Shown' = D!Answer("find", k, Dict[k])
    BY <1>4, AnswerShown
  <2>2. D!Find(k)
    BY <1>1, <2>1 DEF D!Find, Dict, Shown
  <2>3. QED
    BY <1>4, <2>2 DEF D!Next
<1>5. CASE Found(umap, k, p) /\ Return("find", k, umap.slot[p].value)
  <2>1. k \in Lone => Dict[k] = umap.slot[p].value
    BY <1>0, <1>5, LoneProbe, ContentWhenHeld DEF Found
  <2>2. QED
    BY <1>1, <1>3, <1>4, <1>5, <2>1 DEF Return
<1>6. CASE FindMisses(umap, k, p) /\ Return("find", k, NULL)
  <2>1. k \in Lone => Dict[k] = NULL
    BY <1>0, <1>6, LoneMiss, ContentWhenNot
  <2>2. QED
    BY <1>1, <1>3, <1>4, <1>6, <2>1 DEF Return
<1>7. QED
  BY <1>1, <1>2, <1>5, <1>6 DEF Find

LEMMA DeleteIsDictionary ==
  ASSUME DInv, pending = NULL, IInv', NEW k \in Key, Delete(k, Probe(umap, k))
  PROVE  DInv' /\ D!Next
<1> DEFINE p == Probe(umap, k)
<1>0. GoodTable(umap) /\ Single(umap) /\ Dict = [j \in Lone |-> ContentOf(umap, j)]
  BY DictWhenIdle DEF DInv, IInv, TablesOK
<1>1. CASE /\ Found(umap, k, p)
           /\ umap' = WithoutSlot(umap, p)
           /\ Return("delete", k, NULL)
  <2>0. out' = Answer("delete", k, NULL) /\ pending' = NULL
    BY <1>1 DEF Return
  <2>1. p \in Live(umap) /\ umap.slot[p].key = k
    BY <1>0, <1>1, ProbeStops DEF Found, Live
  <2>2. /\ Single(umap')
        /\ \A s : s.key # k => (Holds(umap', s) <=> Holds(umap, s))
        /\ k \in Lone => ~HasKey(umap', k)
    BY <1>0, <1>1, <2>1, WithoutSlotHolds
  <2>3. DInv'
    BY <2>0, <2>2, NextIdle
  <2>4. \A s \in Node : s.key # k => (Holds(umap, s) <=> Holds(umap', s))
    BY <2>2
  <2>5. CASE k \notin Lone
    BY <1>0, <2>0, <2>2, <2>3, <2>4, <2>5, DictAt, QuietStep
  <2>6. CASE k \in Lone
    <3>1. Dict' = [Dict EXCEPT ![k] = ContentOf(umap', k)]
      BY <1>0, <2>0, <2>2, <2>4, <2>6, DictAt
    <3>2. ContentOf(umap', k) = NULL
      BY <2>2, <2>6, ContentWhenNot
    <3>3. Shown' = D!Answer("delete", k, NULL)
      BY <2>0, <2>6, AnswerShown
    <3>4. D!Delete(k)
      BY <3>1, <3>2, <3>3 DEF D!Delete, Dict, Shown
    <3>5. QED
      BY <2>3, <2>6, <3>4 DEF D!Next
  <2>7. QED
    BY <2>5, <2>6
<1>2. CASE /\ EndsAtEmpty(umap, p)
           /\ Return("delete", k, NULL)
           /\ UNCHANGED <<umap, strings>>
  <2>1. out' = Answer("delete", k, NULL) /\ DInv' /\ Dict' = Dict
    BY <1>2, UnchangedTable DEF Return
  <2>2. CASE k \notin Lone
    BY <2>1, <2>2, QuietStep
  <2>3. CASE k \in Lone
    <3>1. Dict[k] = NULL
      BY <1>0, <1>2, <2>3, LoneProbe, ContentWhenNot
    <3>2. Dict' = [Dict EXCEPT ![k] = NULL]
      BY <2>1, <2>3, <3>1 DEF Dict
    <3>3. Shown' = D!Answer("delete", k, NULL)
      BY <2>1, <2>3, AnswerShown
    <3>4. D!Delete(k)
      BY <3>2, <3>3 DEF D!Delete, Dict, Shown
    <3>5. QED
      BY <2>1, <2>3, <3>4 DEF D!Next
  <2>4. QED
    BY <2>2, <2>3
<1>3. CASE Hang(k)
  BY <1>3, UnchangedTable, QuietStep DEF Hang
<1>4. QED
  BY <1>1, <1>2, <1>3 DEF Delete

LEMMA ClearIsDictionary ==
  ASSUME DInv, pending = NULL, IInv', Clear
  PROVE  DInv' /\ D!Next
<1>1. /\ umap' = Cleared(umap) /\ pending' = NULL
      /\ out' = Answer("clear", NULL, NULL)
      /\ GoodTable(umap)
  BY DEF Clear, Return, DInv, IInv, TablesOK
<1>2. Live(umap') = {}
  BY <1>1, ClearedIsGood
<1>3. Single(umap') /\ \A k : ~HasKey(umap', k)
  BY <1>2, NothingHeld
<1>4. DInv'
  BY <1>1, <1>3, NextIdle
<1>5. \A k \in Lone : ContentOf(umap', k) = NULL
  BY <1>3, ContentWhenNot
<1>6. Dict' = [k \in Lone |-> NULL]
  BY <1>1, <1>5, DictWhenIdle
<1>7. Shown' = D!Answer("clear", NULL, NULL)
  BY <1>1, AnswerShown
<1>8. D!Clear
  BY <1>6, <1>7 DEF D!Clear, Dict, Shown
<1>9. QED
  BY <1>4, <1>8 DEF D!Next

-----------------------------------------------------------------------------
(* The rehash.  A node is copied, or its key is dropped.                   *)
LEMMA RehashNextCopies ==
  ASSUME DInv, IInv', Rehashing, Copying, pending.next < umap.capacity,
         NEW t, NEW dropped \in SUBSET Key, RehashNext(t, dropped), Single(t),
         pending.dropped \subseteq dropped,
         \A k \in dropped \ pending.dropped :
           pending.next \in Live(umap) /\ umap.slot[pending.next].key = k,
         \A s \in Node : s.key \in Lone =>
           (Holds(t, s) <=> \/ Holds(pending.table, s)
                            \/ /\ s = umap.slot[pending.next]
                               /\ s.key \notin dropped)
  PROVE  DInv'
<1> DEFINE n == pending.next
<1>1. /\ pending' = [key |-> pending.key, value |-> pending.value,
                     next |-> n + 1, dropped |-> dropped, table |-> t]
      /\ UNCHANGED umap
  BY DEF RehashNext
<1>2. /\ pending'.key = pending.key /\ pending'.next = n + 1 /\ pending'.table = t
      /\ pending'.dropped = dropped
  BY <1>1
<1>3. /\ umap.capacity \in Nat /\ n \in Nat /\ Single(umap)
      /\ Live(umap) \subseteq 0..umap.capacity-1
  BY RehashFacts, TableTypes DEF DInv, IInv, TablesOK
<1>4. \A p \in Live(umap) : p < n + 1 <=> p < n \/ p = n
  BY <1>3
<1>5. ASSUME NEW s \in Node, s.key \in Lone
      PROVE  Holds(t, s) <=> /\ s.key \notin dropped
                             /\ \E p \in Live(umap) : p < n + 1 /\ umap.slot[p] = s
  <2>1. Holds(pending.table, s)
          <=> /\ s.key \notin pending.dropped
              /\ \E p \in Live(umap) : p < n /\ umap.slot[p] = s
    BY <1>5 DEF Copying, Copied
  <2>2. s = umap.slot[n] => n \in Live(umap)
    BY <1>3 DEF Live
  <2>3. ASSUME s.key \in dropped \ pending.dropped, NEW p \in Live(umap),
               p < n, umap.slot[p] = s
        PROVE  FALSE
    <3>1. n \in Live(umap) /\ umap.slot[n].key = s.key
      BY <2>3
    <3>2. p = n
      BY <1>3, <1>5, <2>3, <3>1 DEF Single
    <3>3. QED
      BY <1>3, <2>3, <3>2
  <2>4. ASSUME s.key \in pending.dropped, s = umap.slot[n] PROVE s.key \in dropped
    BY <2>4
  <2>5. QED
    BY <1>4, <1>5, <2>1, <2>2, <2>3, <2>4
<1>6. ASSUME NEW k \in dropped, k \in Lone
      PROVE  \E p \in Live(umap) : p < n + 1 /\ umap.slot[p].key = k
  <2>1. CASE k \in pending.dropped
    <3>1. PICK p \in Live(umap) : p < n /\ umap.slot[p].key = k
      BY <1>6, <2>1 DEF Copying, DroppedBelow
    <3>2. QED
      BY <1>4, <3>1
  <2>2. CASE k \notin pending.dropped
    <3>1. n \in Live(umap) /\ umap.slot[n].key = k
      BY <2>2
    <3>2. QED
      BY <1>4, <3>1
  <2>3. QED
    BY <2>1, <2>2
<1>7. Copying'
  BY <1>1, <1>2, <1>5, <1>6
     DEF Copying, Copied, DroppedBelow, Single, Holds, HasKey, Live
<1>8. QED
  BY <1>1, <1>7 DEF DInv, IInv, TablesOK, Single, Live

LEMMA RehashNextDict ==
  ASSUME DInv, Rehashing, NEW t, GoodTable(t), NEW dropped \in SUBSET Key,
         RehashNext(t, dropped)
  PROVE  /\ Dict' = [j \in Lone |-> IF j \in dropped THEN NULL ELSE ContentOf(umap, j)]
         /\ Dict = [j \in Lone |->
                      IF j \in pending.dropped THEN NULL ELSE ContentOf(umap, j)]
         /\ Shown' = NULL
<1>1. pending # NULL /\ out = NULL
  BY RehashTypes DEF Rehashing
<1>2. pending' # NULL /\ pending'.dropped = dropped
  <2> DEFINE k == pending.key
             v == pending.value
             n == pending.next + 1
  <2>1. k \in Key /\ v \in Value /\ n \in Nat
    BY RehashTypes
  <2>2. pending' = [key |-> k, value |-> v, next |-> n, dropped |-> dropped, table |-> t]
    BY DEF RehashNext
  <2> HIDE DEF k, v, n
  <2>3. QED
    BY <2>1, <2>2, UnderwayRecord
<1>3. \A j : ContentOf(umap, j)' = ContentOf(umap, j)
  BY DEF RehashNext, ContentOf, Live
<1>4. out' = NULL
  BY <1>1 DEF RehashNext
<1>5. QED
  BY <1>1, <1>2, <1>3, <1>4 DEF Dict, Kept, Shown

(* The node of a lone key is neither copied nor dropped before its slot.   *)
LEMMA NodeIsNew ==
  ASSUME DInv, Rehashing, Copying, NEW k \in Lone,
         pending.next \in Live(umap), umap.slot[pending.next].key = k
  PROVE  k \notin pending.dropped /\ ~HasKey(pending.table, k)
<1> DEFINE n == pending.next
<1>1. n \in Nat /\ Single(umap)
  BY RehashTypes DEF DInv
<1>2. ASSUME NEW p \in Live(umap), p < n, umap.slot[p].key = k PROVE FALSE
  <2>1. p = n
    BY <1>1, <1>2 DEF Single
  <2>2. QED
    BY <1>1, <1>2, <2>1
<1>3. k \notin pending.dropped
  BY <1>2 DEF Copying, DroppedBelow
<1>4. ASSUME NEW q \in Live(pending.table), pending.table.slot[q].key = k PROVE FALSE
  <2> DEFINE s == pending.table.slot[q]
  <2>1. s \in Node /\ Holds(pending.table, s)
    BY DEF Live, Holds
  <2>2. PICK p \in Live(umap) : p < n /\ umap.slot[p] = s
    BY <1>4, <2>1 DEF Copying, Copied
  <2>3. QED
    BY <1>2, <1>4, <2>2
<1>5. QED
  BY <1>3, <1>4 DEF HasKey

LEMMA RehashSlotForgets ==
  ASSUME DInv, IInv', RehashSlot
  PROVE  DInv' /\ (D!Next \/ \E k \in Lone : D!Forget(k))
<1> DEFINE t == pending.table
           n == pending.next
           s == umap.slot[n]
           p == Probe(t, s.key)
<1>1. /\ Rehashing /\ Copying /\ n < umap.capacity
      /\ n \in 0..umap.capacity-1 /\ Single(umap) /\ Single(t)
      /\ GoodTable(t) /\ t.load + 1 < t.capacity
      /\ pending.dropped \in SUBSET Key
  BY RehashFacts, RehashTypes DEF RehashSlot, DInv, IInv, TablesOK, Copying
<1>2. s \in Node => n \in Live(umap)
  BY <1>1 DEF Live
<1>3. ASSUME Dict' = Dict, Shown' = NULL PROVE D!Next
  <2>1. D!Elsewhere
    BY <1>3 DEF D!Elsewhere, Dict, Shown
  <2>2. QED
    BY <2>1 DEF D!Next
<1>4. ASSUME RehashNext(t, pending.dropped), s \notin Node \/ s.key \notin Lone
      PROVE  DInv' /\ D!Next
  <2>1. DInv'
    BY <1>1, <1>4, RehashNextCopies
  <2>2. QED
    BY <1>1, <1>3, <1>4, <2>1, RehashNextDict
<1>5. ASSUME s \in Node, FindMisses(t, s.key, p),
             RehashNext(Placed(t, s.key, s.value), pending.dropped)
      PROVE  DInv' /\ D!Next
  <2> DEFINE u == Placed(t, s.key, s.value)
  <2>1. s.key \in Key /\ s.value \in Value /\ s = [key |-> s.key, value |-> s.value]
    BY <1>5 DEF Node
  <2>2. s.key \in Lone => s.key \notin pending.dropped /\ ~HasKey(t, s.key)
    BY <1>1, <1>2, <1>5, NodeIsNew
  <2>3. Single(u) /\ \A r : Holds(u, r) <=> Holds(t, r) \/ r = s
    BY <1>1, <2>1, <2>2, PlacedHolds
  <2>4. GoodTable(u)
    BY <1>1, <2>1, PlacedIsGood
  <2> HIDE DEF u
  <2>5. RehashNext(u, pending.dropped)
    BY <1>5 DEF u
  <2>6. DInv'
    BY <1>1, <2>2, <2>3, <2>5, RehashNextCopies
  <2>7. QED
    BY <1>1, <1>3, <2>4, <2>5, <2>6, RehashNextDict
<1>6. ASSUME s \in Node, RehashNext(t, pending.dropped \cup {s.key})
      PROVE  DInv' /\ (D!Next \/ \E k \in Lone : D!Forget(k))
  <2> DEFINE d == pending.dropped \cup {s.key}
  <2>1. d \in SUBSET Key /\ s.key \in Key
    BY <1>1, <1>6 DEF Node
  <2>2. DInv'
    <3>1. \A r \in Node : r.key \in Lone =>
            (Holds(t, r) <=> Holds(t, r) \/ (r = s /\ r.key \notin d))
      OBVIOUS
    <3>2. \A k \in d \ pending.dropped : n \in Live(umap) /\ s.key = k
      BY <1>2, <1>6
    <3>3. pending.dropped \subseteq d /\ RehashNext(t, d)
      BY <1>6
    <3> HIDE DEF d
    <3>4. QED
      BY <1>1, <2>1, <3>1, <3>2, <3>3, RehashNextCopies
  <2>3. /\ Dict' = [j \in Lone |-> IF j \in d THEN NULL ELSE ContentOf(umap, j)]
        /\ Dict = [j \in Lone |->
                     IF j \in pending.dropped THEN NULL ELSE ContentOf(umap, j)]
        /\ Shown' = NULL
    <3>1. RehashNext(t, d)
      BY <1>6
    <3> HIDE DEF d
    <3>2. QED
      BY <1>1, <2>1, <3>1, RehashNextDict
  <2>4. CASE s.key \notin Lone
    <3>1. Dict' = Dict
      BY <2>3, <2>4
    <3>2. QED
      BY <1>3, <2>2, <2>3, <3>1
  <2>5. CASE s.key \in Lone
    <3>1. Dict' = [Dict EXCEPT ![s.key] = NULL]
      BY <2>3, <2>5
    <3>2. D!Forget(s.key)
      BY <2>3, <3>1 DEF D!Forget, Dict, Shown
    <3>3. QED
      BY <2>2, <2>5, <3>2
  <2>6. QED
    BY <2>4, <2>5
<1>7. ASSUME s \in Node, Found(t, s.key, p), RehashNext(t, pending.dropped)
      PROVE  DInv' /\ D!Next
  <2>1. s.key \notin Lone
    <3> SUFFICES ASSUME s.key \in Lone PROVE FALSE
      OBVIOUS
    <3>1. HasKey(t, s.key)
      BY <1>1, <1>7, LoneProbe
    <3>2. QED
      BY <1>1, <1>2, <1>7, <3>1, NodeIsNew
  <2>2. QED
    BY <1>4, <1>7, <2>1
<1>8. ASSUME Hang(s.key) PROVE DInv' /\ D!Next
  BY <1>8, UnchangedTable, QuietStep DEF Hang
<1>9. QED
  BY <1>4, <1>5, <1>6, <1>7, <1>8 DEF RehashSlot, RehashNode

LEMMA InsertAfterRehashIsDictionary ==
  ASSUME DInv, IInv', InsertAfterRehash
  PROVE  DInv' /\ D!Next
<1> DEFINE t == pending.table
           k == pending.key
           v == pending.value
<1>1. /\ Rehashing /\ Copying /\ pending # NULL /\ pending.next = umap.capacity
      /\ Single(umap) /\ Single(t) /\ GoodTable(umap)
      /\ k \in Key /\ v \in Value /\ pending' = NULL
      /\ GoodTable(t) /\ t.load + 1 < t.capacity
  BY RehashFacts, RehashTypes DEF InsertAfterRehash, DInv, IInv, TablesOK, Copying
<1>2. ASSUME NEW s \in Node, s.key \in Lone
      PROVE  Holds(t, s) <=> s.key \notin pending.dropped /\ Holds(umap, s)
  <2>1. \A p \in Live(umap) : p < pending.next
    BY <1>1, TableTypes DEF Live
  <2>2. QED
    BY <1>1, <1>2, <2>1 DEF Copying, Copied, Holds
<1>3. ASSUME k \in Lone PROVE ~HasKey(t, k) /\ ~HasKey(umap, k) /\ Dict[k] = NULL
  <2>1. ~HasKey(umap, k)
    BY <1>1, <1>3 DEF Copying
  <2>2. ASSUME NEW q \in Live(t), t.slot[q].key = k PROVE FALSE
    <3>1. t.slot[q] \in Node /\ Holds(t, t.slot[q])
      BY DEF Live, Holds
    <3>2. Holds(umap, t.slot[q])
      BY <1>2, <1>3, <2>2, <3>1
    <3>3. QED
      BY <2>1, <2>2, <3>2 DEF Holds, HasKey
  <2>3. Dict[k] = NULL
    BY <1>3, <2>1, ContentWhenNot DEF Dict, Kept
  <2>4. QED
    BY <2>1, <2>2, <2>3 DEF HasKey
<1>4. ASSUME NEW j \in Lone PROVE ContentOf(t, j) = Dict[j]
  <2>1. CASE j \in pending.dropped
    <3>1. ~HasKey(t, j)
      <4> SUFFICES ASSUME NEW q \in Live(t), t.slot[q].key = j PROVE FALSE
        BY DEF HasKey
      <4>1. t.slot[q] \in Node /\ Holds(t, t.slot[q])
        BY DEF Live, Holds
      <4>2. QED
        BY <1>2, <2>1, <4>1
    <3>2. QED
      BY <1>1, <2>1, <3>1, ContentWhenNot DEF Dict, Kept
  <2>2. CASE j \notin pending.dropped
    <3>1. \A s \in Node : s.key = j => (Holds(umap, s) <=> Holds(t, s))
      BY <1>2, <2>2
    <3>2. QED
      BY <1>1, <2>2, <3>1, SameContent DEF Dict, Kept
  <2>3. QED
    BY <2>1, <2>2
<1>5. CASE Allocate(k) /\ umap' = Placed(t, k, v) /\ out' = Answer("insert", k, v)
  <2> DEFINE u == Placed(t, k, v)
  <2>1. /\ Single(u)
        /\ \A s : Holds(u, s) <=> Holds(t, s) \/ s = [key |-> k, value |-> v]
    BY <1>1, <1>3, PlacedHolds
  <2>2. umap' = u /\ out' = Answer("insert", k, v)
    BY <1>5
  <2> HIDE DEF u, t, k, v
  <2>3. DInv'
    BY <1>1, <2>1, <2>2, NextIdle
  <2>4. ASSUME NEW j \in Lone, j # k PROVE ContentOf(umap', j) = Dict[j]
    <3>1. \A s \in Node : s.key = j => (Holds(t, s) <=> Holds(u, s))
      BY <2>1, <2>4
    <3>2. ContentOf(u, j) = ContentOf(t, j)
      BY <1>1, <2>1, <3>1, SameContent
    <3>3. QED
      BY <1>4, <2>2, <3>2
  <2>5. Dict' = [j \in Lone |-> ContentOf(umap', j)]
    BY <1>1, DictWhenIdle
  <2>6. CASE k \notin Lone
    <3>1. Dict' = Dict
      BY <2>4, <2>5, <2>6 DEF Dict
    <3>2. QED
      BY <1>1, <2>2, <2>3, <2>6, <3>1, QuietStep
  <2>7. CASE k \in Lone
    <3>1. PICK q \in Live(umap') : umap'.slot[q] = [key |-> k, value |-> v]
      BY <2>1, <2>2 DEF Holds
    <3>2. ContentOf(umap', k) = v
      BY <2>1, <2>2, <2>7, <3>1, ContentWhenHeld
    <3>3. Dict' = [Dict EXCEPT ![k] = v]
      BY <2>4, <2>5, <2>7, <3>2 DEF Dict
    <3>4. Shown' = D!Answer("insert", k, v)
      BY <2>2, <2>7, AnswerShown
    <3>5. D!InsertNew(k, v)
      BY <1>3, <2>7, <3>3, <3>4 DEF D!InsertNew, Dict, Shown
    <3>6. QED
      BY <1>1, <2>3, <2>7, <3>5 DEF D!Next
  <2>8. QED
    BY <2>6, <2>7
<1>6. CASE umap' = t /\ out' = Answer("insert", k, NULL)
  <2>1. DInv'
    BY <1>1, <1>6, NextIdle
  <2>2. Dict' = Dict
    BY <1>1, <1>4, <1>6, DictWhenIdle DEF Dict
  <2>3. CASE k \notin Lone
    BY <1>1, <1>6, <2>1, <2>2, <2>3, QuietStep
  <2>4. CASE k \in Lone
    <3>1. Shown' = D!Answer("insert", k, NULL)
      BY <1>6, <2>4, AnswerShown
    <3>2. D!InsertRefused(k)
      BY <1>3, <2>2, <2>4, <3>1 DEF D!InsertRefused, Dict, Shown
    <3>3. QED
      BY <2>1, <2>4, <3>2 DEF D!Next
  <2>5. QED
    BY <2>3, <2>4
<1>7. QED
  BY <1>5, <1>6 DEF InsertAfterRehash

-----------------------------------------------------------------------------
LEMMA InitIsDictionary == Init => DInv /\ D!Init
<1> SUFFICES ASSUME Init PROVE DInv /\ D!Init
  OBVIOUS
<1>1. Live(umap) = {}
  BY NewIsGood, GrowthAssumption, CapacityAssumption DEF Init
<1>2. Single(umap) /\ \A k : ~HasKey(umap, k)
  BY <1>1, NothingHeld
<1>3. DInv
  BY <1>2, InitInv DEF Init, DInv
<1>4. Dict = [k \in Lone |-> NULL]
  BY <1>2, ContentWhenNot, DictWhenIdle DEF Init
<1>5. QED
  BY <1>3, <1>4 DEF Init, D!Init, Dict

LEMMA StepIsDictionary ==
  DInv /\ [Next]_vars
    => DInv' /\ [D!Next \/ \E k \in Lone : D!Forget(k)]_<<Dict, Shown>>
<1> SUFFICES ASSUME DInv, [Next]_vars
             PROVE  DInv' /\ [D!Next \/ \E k \in Lone : D!Forget(k)]_<<Dict, Shown>>
  OBVIOUS
<1>0. IInv'
  BY StepIsAccounted DEF DInv
<1>1. CASE UNCHANGED vars
  BY <1>0, <1>1, UnchangedTable DEF vars, Shown
<1>2. CASE Call
  BY <1>0, <1>2, InsertIsDictionary, FindIsDictionary, DeleteIsDictionary,
     ClearIsDictionary DEF Call
<1>3. CASE RehashSlot
  BY <1>0, <1>3, RehashSlotForgets
<1>4. CASE InsertAfterRehash
  BY <1>0, <1>4, InsertAfterRehashIsDictionary
<1>5. QED
  BY <1>1, <1>2, <1>3, <1>4 DEF Next, Rehash

(* IsForgetfulDictionary: for the keys whose tag is theirs alone           *)
(* unordered_map_str.c implements a dictionary, which only forgets a key   *)
(* that a rehash has no memory for.                                        *)
THEOREM LoneStringsAreDictionary == Spec => IsForgetfulDictionary
<1>1. DInv /\ [Next]_vars
        => DInv' /\ [D!Next \/ \E k \in Lone : D!Forget(k)]_<<Dict, Shown>>
  BY StepIsDictionary
<1>2. QED
  BY InitIsDictionary, <1>1, PTL
     DEF Spec, IsForgetfulDictionary, D!ForgetfulSpec, D!vars, Dict, Shown
=============================================================================
