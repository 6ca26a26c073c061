------------------------- MODULE PriorityQueueProofs ------------------------
(***************************************************************************)
(* For every capacity, heap limit and growth macro, and all the numbers    *)
(* that values and elements are: without a removal by value                *)
(* priority_queue.c keeps its pairs sorted, its searches stay in the       *)
(* buffer, and it implements the list that PriorityList.tla describes.     *)
(***************************************************************************)
EXTENDS PriorityQueue, Lemmas, FiniteSetTheorems

-----------------------------------------------------------------------------
(* SequencesExt's Min and Max.                                             *)
LEMMA MinIs ==
  ASSUME NEW S \in SUBSET Nat, NEW m \in S, \A k \in S : m <= k
  PROVE  Min(S) = m
<1>1. \A x \in S : (\A y \in S : x <= y) => x = m
  OBVIOUS
<1>2. QED
  BY <1>1 DEF Min

LEMMA MaxIs ==
  ASSUME NEW S \in SUBSET Nat, NEW m \in S, \A k \in S : k <= m
  PROVE  Max(S) = m
<1>1. \A x \in S : (\A y \in S : x >= y) => x = m
  OBVIOUS
<1>2. QED
  BY <1>1 DEF Max

LEMMA MinExists ==
  ASSUME NEW S \in SUBSET Nat, S # {}
  PROVE  Min(S) \in S /\ \A k \in S : Min(S) <= k
<1>1. PICK m \in S : \A k \in S : m <= k
  BY LeastElement
<1>2. Min(S) = m
  BY <1>1, MinIs
<1>3. QED
  BY <1>1, <1>2

LEMMA MaxExists ==
  ASSUME NEW n \in Nat, NEW S \in SUBSET (0..n), S # {}
  PROVE  Max(S) \in S /\ \A k \in S : k <= Max(S)
<1> DEFINE D == {n - k : k \in S}
<1>1. D \in SUBSET Nat /\ D # {}
  <2>1. \A k \in S : n - k \in Nat /\ n - k \in D
    OBVIOUS
  <2>2. QED
    BY <2>1
<1>2. PICK e \in D : \A k \in D : e <= k
  <2> HIDE DEF D
  <2>1. QED
    BY <1>1, LeastElement
<1>3. PICK m \in S : e = n - m
  BY <1>2
<1>4. \A k \in S : k <= m
  BY <1>2, <1>3
<1>5. Max(S) = m
  BY <1>4, MaxIs
<1>6. QED
  BY <1>4, <1>5

-----------------------------------------------------------------------------
(* A queue in range, and how far its values ascend.                        *)
QueueOf(c) ==
  [length : 0..c, capacity : {c},
   value : [0..c-1 -> Number], data : [0..c-1 -> Number]]

IsQueue(q) == q.capacity \in 1..HeapLimit /\ q \in QueueOf(q.capacity)

Ascending(q, n) == \A i, j \in 0..n-1 : i < j => q.value[i] <= q.value[j]

LEMMA QueueTypes ==
  ASSUME NEW q, IsQueue(q)
  PROVE  /\ q.capacity \in Nat /\ q.capacity \in 1..HeapLimit /\ q.capacity >= 1
         /\ q.length \in Nat /\ q.length <= q.capacity /\ q.length \in 0..q.capacity
         /\ q.value \in [0..q.capacity-1 -> Number]
         /\ q.data \in [0..q.capacity-1 -> Number]
         /\ Positions(q) = 0..q.capacity-1
         /\ q = [length |-> q.length, capacity |-> q.capacity,
                 value |-> q.value, data |-> q.data]
         /\ \A i \in 0..q.capacity-1 : q.value[i] \in Int /\ q.data[i] \in Int
<1>1. HeapLimit \in Nat /\ Number \subseteq Int
  BY GrowthAssumption, NumberAssumption
<1>2. /\ q.capacity \in 1..HeapLimit
      /\ q.length \in 0..q.capacity
      /\ q.value \in [0..q.capacity-1 -> Number]
      /\ q.data \in [0..q.capacity-1 -> Number]
      /\ q = [length |-> q.length, capacity |-> q.capacity,
              value |-> q.value, data |-> q.data]
  BY DEF IsQueue, QueueOf
<1>3. \A i \in 0..q.capacity-1 : q.value[i] \in Int /\ q.data[i] \in Int
  BY <1>1, <1>2
<1>4. QED
  BY <1>1, <1>2, <1>3 DEF Positions

LEMMA QueueByFields ==
  ASSUME NEW c \in 1..HeapLimit, NEW n \in 0..c,
         NEW f \in [0..c-1 -> Number], NEW g \in [0..c-1 -> Number],
         NEW q, q = [length |-> n, capacity |-> c, value |-> f, data |-> g]
  PROVE  IsQueue(q) /\ q.length = n /\ q.capacity = c /\ q.value = f /\ q.data = g
<1>1. q.length = n /\ q.capacity = c /\ q.value = f /\ q.data = g
  OBVIOUS
<1>2. q \in QueueOf(c)
  BY DEF QueueOf
<1>3. QED
  BY <1>1, <1>2 DEF IsQueue

(* A pair re-inserted where it is.                                         *)
LEMMA ReinsertedStays ==
  ASSUME NEW q, IsQueue(q), NEW i \in 0..q.capacity-1
  PROVE  Reinserted(q, i, i) = q
<1> DEFINE from == [n \in Positions(q) |-> CASE n = i        -> i
                                        [] n \in i+1..i -> n - 1
                                        [] OTHER        -> n]
<1>1. \A n \in Positions(q) : from[n] = n
  BY QueueTypes
<1>2. Reinserted(q, i, i)
        = [length |-> q.length, capacity |-> q.capacity,
           value |-> [n \in Positions(q) |-> q.value[from[n]]],
           data |-> [n \in Positions(q) |-> q.data[from[n]]]]
  BY DEF Reinserted
<1> HIDE DEF from
<1>3. [n \in Positions(q) |-> q.value[from[n]]] = q.value
  BY <1>1, QueueTypes
<1>4. [n \in Positions(q) |-> q.data[from[n]]] = q.data
  BY <1>1, QueueTypes
<1>5. QED
  BY <1>2, <1>3, <1>4, QueueTypes

LEMMA MovedDownStays ==
  ASSUME NEW q, IsQueue(q), NEW i \in 0..q.capacity-1, Ascending(q, i + 1)
  PROVE  MovedDown(q, i) = q
<1> DEFINE S == {j \in 0..i : \A n \in j..i-1 : q.value[n] > q.value[i]}
<1>1. i \in S /\ S \in SUBSET Nat /\ \A k \in S : k <= i
  OBVIOUS
<1>2. ASSUME NEW k \in S, k < i PROVE FALSE
  <2>1. k \in 0..i /\ k \in k..i-1 /\ k \in 0..q.capacity-1
    BY <1>2, QueueTypes
  <2>2. q.value[k] > q.value[i]
    BY <1>2, <2>1
  <2>3. q.value[k] <= q.value[i]
    <3>1. k \in 0..(i+1)-1 /\ i \in 0..(i+1)-1
      BY <2>1
    <3> HIDE DEF S
    <3>2. QED
      BY <1>2, <3>1 DEF Ascending
  <2>4. QED
    BY <2>1, <2>2, <2>3, QueueTypes
<1>3. \A k \in S : i <= k
  BY <1>1, <1>2
<1> HIDE DEF S
<1>4. Min(S) = i
  BY <1>1, <1>3, MinIs
<1>5. QED
  BY <1>4, ReinsertedStays DEF MovedDown, S

(* The sort, turn by turn.                                                 *)
LEMMA SortedUnfolds ==
  ASSUME NEW q, NEW n \in Nat, q.length - 1 = n,
         NEW t, t = [i \in 0..n |-> t[i]], t[0] = q,
         \A i \in 1..n : t[i] = MovedDown(t[i-1], i)
  PROVE  Sorted(q) = t[n]
<1> DEFINE Solves(h) ==
             h = [i \in 0..n |-> IF i = 0 THEN q ELSE MovedDown(h[i-1], i)]
           h0 == CHOOSE h : Solves(h)
<1>1. Solves(t)
  <2>1. \A i \in 0..n : i = 0 \/ i \in 1..n
    OBVIOUS
  <2>2. \A i \in 0..n : t[i] = IF i = 0 THEN q ELSE MovedDown(t[i-1], i)
    BY <2>1
  <2>3. QED
    BY <2>2
<1>2. Solves(h0)
  <2> HIDE DEF Solves
  <2>1. QED
    BY <1>1
<1>3. Sorted(q) = h0[n]
  BY DEF Sorted
<1> HIDE DEF h0
<1>4. h0[0] = q /\ \A i \in 1..n : h0[i] = MovedDown(h0[i-1], i)
  <2>1. \A i \in 0..n : h0[i] = IF i = 0 THEN q ELSE MovedDown(h0[i-1], i)
    BY <1>2
  <2>2. 0 \in 0..n /\ \A i \in 1..n : i \in 0..n /\ i # 0
    OBVIOUS
  <2>3. QED
    BY <2>1, <2>2
<1> DEFINE P == {i \in 0..n : h0[i] = t[i]}
<1>5. 0 \in P
  BY <1>4
<1>6. ASSUME NEW i \in 1..n, i - 1 \in P PROVE i \in P
  <2>1. h0[i-1] = t[i-1] /\ i \in 0..n
    BY <1>6
  <2>2. h0[i] = t[i]
    BY <1>4, <2>1
  <2>3. QED
    BY <2>1, <2>2
<1> HIDE DEF P
<1>7. \A i \in 0..n : i \in P
  BY <1>5, <1>6, InductionUpTo
<1>8. n \in P
  BY <1>7
<1>9. QED
  BY <1>3, <1>8 DEF P

LEMMA SortedMovesLast ==
  ASSUME NEW q, IsQueue(q), q.length >= 1, Ascending(q, q.length - 1)
  PROVE  Sorted(q) = MovedDown(q, q.length - 1)
<1> DEFINE n == q.length - 1
           t == [i \in 0..n |-> IF i < n THEN q ELSE MovedDown(q, n)]
<1>1. n \in Nat /\ \A i \in 0..n : i \in 0..q.capacity-1
  BY QueueTypes
<1>2. ASSUME NEW i \in 0..n, i < n \/ i = 0 PROVE MovedDown(q, i) = q
  <2>1. Ascending(q, i + 1)
    BY <1>1, <1>2 DEF Ascending
  <2>2. QED
    BY <1>1, <2>1, MovedDownStays
<1> HIDE DEF n
<1>3. t[0] = q
  BY <1>1, <1>2
<1>4. ASSUME NEW i \in 1..n PROVE t[i] = MovedDown(t[i-1], i)
  <2>1. t[i-1] = q
    BY <1>1
  <2>2. t[i] = MovedDown(q, i)
    <3>1. CASE i < n
      <4>1. MovedDown(q, i) = q /\ t[i] = q
        BY <1>1, <1>2, <3>1
      <4>2. QED
        BY <4>1
    <3>2. CASE i = n
      BY <1>1, <3>2
    <3>3. QED
      BY <1>1, <3>1, <3>2
  <2>3. QED
    BY <2>1, <2>2
<1>5. t[n] = MovedDown(q, n) /\ t = [i \in 0..n |-> t[i]]
  BY <1>1
<1> HIDE DEF t
<1>6. Sorted(q) = t[n]
  BY <1>1, <1>3, <1>4, <1>5, SortedUnfolds DEF n
<1>7. QED
  BY <1>5, <1>6 DEF n

LEMMA SortedStays ==
  ASSUME NEW q, IsQueue(q), q.length >= 1, Ascending(q, q.length)
  PROVE  Sorted(q) = q
<1> DEFINE n == q.length - 1
<1>1. n \in 0..q.capacity-1 /\ n + 1 = q.length
  BY QueueTypes
<1>2. Ascending(q, n)
  <2>1. \A i \in 0..n-1 : i \in 0..q.length-1
    BY <1>1, QueueTypes
  <2>2. QED
    BY <2>1 DEF Ascending
<1>3. MovedDown(q, n) = q
  BY <1>1, MovedDownStays
<1>4. QED
  BY <1>2, <1>3, SortedMovesLast

(* Moving the last pair down to its place, of a queue that is sorted up to *)
(* it.                                                                     *)
TakesIn(s, q, v, d, j) ==
  /\ \A k \in 0..j-1 : q.value[k] <= v
  /\ \A k \in j..q.length-1 : q.value[k] > v
  /\ IsQueue(s)
  /\ s.length = q.length + 1
  /\ s.capacity = q.capacity
  /\ \A k \in 0..q.length :
       /\ s.value[k] = IF k < j THEN q.value[k] ELSE IF k = j THEN v ELSE q.value[k-1]
       /\ s.data[k] = IF k < j THEN q.data[k] ELSE IF k = j THEN d ELSE q.data[k-1]
  /\ Ascending(s, q.length + 1)

Appended(q, v, d) ==
  [length |-> q.length + 1, capacity |-> q.capacity,
   value |-> [q.value EXCEPT ![q.length] = v],
   data |-> [q.data EXCEPT ![q.length] = d]]

LEMMA SortedTakesIn ==
  ASSUME NEW q, IsQueue(q), q.length < q.capacity, Ascending(q, q.length),
         NEW v \in Number, NEW d \in Number
  PROVE  \E j \in 0..q.length : TakesIn(Sorted(Appended(q, v, d)), q, v, d, j)
<1> DEFINE n == q.length
           c == q.capacity
           a == Appended(q, v, d)
           f == [q.value EXCEPT ![n] = v]
           g == [q.data EXCEPT ![n] = d]
<1>1. /\ n \in Nat /\ c \in Nat /\ n < c /\ c \in 1..HeapLimit
      /\ q.value \in [0..c-1 -> Number] /\ q.data \in [0..c-1 -> Number]
      /\ \A k \in 0..c-1 : q.value[k] \in Int
      /\ v \in Int
  BY QueueTypes, NumberAssumption
<1>2. /\ f \in [0..c-1 -> Number] /\ g \in [0..c-1 -> Number]
      /\ \A k \in 0..c-1 : /\ f[k] = IF k = n THEN v ELSE q.value[k]
                           /\ g[k] = IF k = n THEN d ELSE q.data[k]
  BY <1>1
<1>3. \A i, k \in 0..n-1 : i < k => q.value[i] <= q.value[k]
  BY DEF Ascending
<1>4. a = [length |-> n + 1, capacity |-> c, value |-> f, data |-> g]
  BY DEF Appended
<1> HIDE DEF a, f, g
<1>5. IsQueue(a) /\ a.length = n + 1 /\ a.capacity = c /\ a.value = f /\ a.data = g
  <2>1. n + 1 \in 0..c
    BY <1>1
  <2> HIDE DEF n, c
  <2>2. QED
    BY <1>1, <1>2, <1>4, <2>1, QueueByFields
<1> HIDE DEF n, c
<1>6. Sorted(a) = MovedDown(a, n)
  <2>1. a.length >= 1 /\ a.length - 1 = n
    BY <1>1, <1>5
  <2>2. Ascending(a, n)
    <3>1. \A i \in 0..n-1 : i \in 0..c-1 /\ i # n
      BY <1>1
    <3>2. \A i \in 0..n-1 : f[i] = q.value[i]
      BY <1>2, <3>1
    <3>3. QED
      BY <1>3, <1>5, <3>2 DEF Ascending
  <2>3. Ascending(a, a.length - 1)
    BY <2>1, <2>2
  <2>4. Sorted(a) = MovedDown(a, a.length - 1)
    BY <1>5, <2>1, <2>3, SortedMovesLast
  <2>5. QED
    BY <2>1, <2>4
<1> DEFINE S == {j \in 0..n : \A k \in j..n-1 : f[k] > f[n]}
           j == Min(S)
<1>7. j \in S /\ \A k \in S : j <= k
  <2>1. S \in SUBSET Nat /\ n \in S
    BY <1>1
  <2> HIDE DEF S
  <2>2. QED
    BY <2>1, MinExists
<1>8. Sorted(a) = Reinserted(a, n, j)
  BY <1>5, <1>6 DEF MovedDown
<1> HIDE DEF j
<1>9. /\ j \in 0..n
      /\ \A k \in j..n-1 : q.value[k] > v
      /\ \A k \in 0..j-1 : q.value[k] <= v
  <2>1. j \in 0..n /\ f[n] = v
    BY <1>1, <1>2, <1>7
  <2>2. \A k \in j..n-1 : q.value[k] > v
    <3>1. \A k \in j..n-1 : k \in 0..c-1 /\ k # n
      BY <1>1, <2>1
    <3>2. \A k \in j..n-1 : f[k] = q.value[k]
      BY <1>2, <3>1
    <3>3. \A k \in j..n-1 : f[k] > f[n]
      BY <1>7
    <3>4. QED
      BY <2>1, <3>2, <3>3
  <2>3. ASSUME NEW k \in 0..j-1 PROVE q.value[k] <= v
    <3>1. j - 1 \in 0..n /\ j - 1 \notin S
      <4>1. j - 1 \in 0..n /\ ~(j <= j - 1)
        BY <1>1, <2>1, <2>3
      <4> HIDE DEF S
      <4>2. QED
        BY <1>7, <4>1
    <3>2. PICK l \in (j-1)..n-1 : ~(f[l] > f[n])
      BY <3>1
    <3>3. l \in 0..c-1 /\ l # n /\ l \in 0..n-1 /\ k \in 0..n-1 /\ k \in 0..c-1
      BY <1>1, <2>1, <2>3, <3>1
    <3>4. ~(q.value[l] > v) /\ q.value[l] \in Int /\ q.value[k] \in Int
      BY <1>1, <1>2, <2>1, <3>2, <3>3
    <3>5. k < l \/ k = l
      BY <2>1, <2>3, <3>2
    <3>6. q.value[k] <= q.value[l]
      BY <1>3, <3>3, <3>4, <3>5
    <3>7. QED
      BY <1>1, <3>4, <3>6
  <2>4. QED
    BY <2>1, <2>2, <2>3
<1> HIDE DEF S
<1> DEFINE s == Sorted(a)
           from == [k \in 0..c-1 |-> CASE k = j        -> n
                                        [] k \in j+1..n -> k - 1
                                        [] OTHER        -> k]
           fs == [k \in 0..c-1 |-> f[from[k]]]
           gs == [k \in 0..c-1 |-> g[from[k]]]
<1>10. s = [length |-> n + 1, capacity |-> c, value |-> fs, data |-> gs]
  <2>1. Positions(a) = 0..c-1
    BY <1>5, QueueTypes
  <2>2. QED
    BY <1>5, <1>8, <2>1 DEF Reinserted
<1>11. \A k \in 0..c-1 : /\ from[k] \in 0..c-1
                         /\ from[k] = IF k = j THEN n
                                      ELSE IF k \in j+1..n THEN k - 1 ELSE k
  BY <1>1, <1>9
<1> HIDE DEF from, s
<1>12. fs \in [0..c-1 -> Number] /\ gs \in [0..c-1 -> Number]
  BY <1>2, <1>11
<1>13. ASSUME NEW k \in 0..n
       PROVE  /\ fs[k] = IF k < j THEN q.value[k] ELSE IF k = j THEN v ELSE q.value[k-1]
              /\ gs[k] = IF k < j THEN q.data[k] ELSE IF k = j THEN d ELSE q.data[k-1]
  <2>1. k \in 0..c-1 /\ fs[k] = f[from[k]] /\ gs[k] = g[from[k]]
    BY <1>1
  <2>2. CASE k < j
    <3>1. from[k] = k /\ k # n
      BY <1>9, <1>11, <2>1, <2>2
    <3>2. QED
      BY <1>2, <2>1, <2>2, <3>1
  <2>3. CASE k = j
    <3>1. from[k] = n /\ n \in 0..c-1
      BY <1>1, <1>9, <1>11, <2>1, <2>3
    <3>2. f[n] = v /\ g[n] = d
      BY <1>2, <3>1
    <3>3. ~(k < j)
      BY <1>9, <2>3
    <3>4. QED
      BY <2>1, <2>3, <3>1, <3>2, <3>3
  <2>4. CASE k > j
    <3>1. from[k] = k - 1 /\ k - 1 # n /\ k - 1 \in 0..c-1 /\ ~(k < j) /\ k # j
      BY <1>1, <1>9, <1>11, <2>1, <2>4
    <3>2. QED
      BY <1>2, <2>1, <3>1
  <2>5. k < j \/ k = j \/ k > j
    BY <1>9
  <2>6. QED
    BY <2>2, <2>3, <2>4, <2>5
<1> HIDE DEF fs, gs
<1>14. IsQueue(s) /\ s.length = n + 1 /\ s.capacity = c /\ s.value = fs /\ s.data = gs
  <2> DEFINE m == n + 1
  <2>1. m \in 0..c
    BY <1>1
  <2>2. s = [length |-> m, capacity |-> c, value |-> fs, data |-> gs]
    BY <1>10
  <2> HIDE DEF m
  <2>3. IsQueue(s) /\ s.length = m /\ s.capacity = c /\ s.value = fs /\ s.data = gs
    BY <1>1, <1>12, <2>1, <2>2, QueueByFields
  <2>4. QED
    BY <2>3 DEF m
<1>15. Ascending(s, n + 1)
  <2> SUFFICES ASSUME NEW i \in 0..n, NEW k \in 0..n, i < k
               PROVE  fs[i] <= fs[k]
    BY <1>1, <1>14 DEF Ascending
  <2> DEFINE w(m) == IF m < j THEN q.value[m] ELSE IF m = j THEN v ELSE q.value[m-1]
  <2>1. fs[i] = w(i) /\ fs[k] = w(k)
    BY <1>13
  <2>2. \A m \in 0..n-1 : m \in 0..c-1 /\ q.value[m] \in Int
    BY <1>1
  <2>3. CASE k < j
    <3>1. i < j /\ i \in 0..n-1 /\ k \in 0..n-1
      BY <1>1, <1>9, <2>3
    <3>2. QED
      BY <1>3, <2>1, <2>3, <3>1
  <2>4. CASE k = j
    <3>1. i < j /\ i \in 0..j-1 /\ ~(k < j)
      BY <1>9, <2>4
    <3>2. QED
      BY <1>9, <2>1, <2>4, <3>1
  <2>5. CASE k > j
    <3>1. k - 1 \in 0..n-1 /\ k - 1 \in j..n-1 /\ w(k) = q.value[k-1]
      BY <1>1, <1>9, <2>5
    <3>2. q.value[k-1] > v /\ q.value[k-1] \in Int
      BY <1>9, <2>2, <3>1
    <3>3. CASE i < j
      <4>1. i \in 0..j-1 /\ i \in 0..n-1 /\ w(i) = q.value[i]
        BY <1>1, <1>9, <3>3
      <4>2. q.value[i] <= v /\ q.value[i] \in Int
        BY <1>9, <2>2, <4>1
      <4> HIDE DEF w
      <4>3. QED
        BY <1>1, <2>1, <3>1, <3>2, <4>1, <4>2
    <3>4. CASE i = j
      <4>1. w(i) = v
        BY <1>9, <3>4
      <4> HIDE DEF w
      <4>2. QED
        BY <1>1, <2>1, <3>1, <3>2, <4>1
    <3>5. CASE i > j
      <4>1. w(i) = q.value[i-1] /\ i - 1 \in 0..n-1 /\ i - 1 < k - 1
        BY <1>1, <1>9, <3>5
      <4> HIDE DEF w
      <4>2. QED
        BY <1>3, <2>1, <3>1, <4>1
    <3>6. i < j \/ i = j \/ i > j
      BY <1>9
    <3>7. QED
      BY <3>3, <3>4, <3>5, <3>6
  <2>6. k < j \/ k = j \/ k > j
    BY <1>9
  <2>7. QED
    BY <2>3, <2>4, <2>5, <2>6
<1>16. TakesIn(s, q, v, d, j)
  BY <1>9, <1>13, <1>14, <1>15 DEF TakesIn, n, c
<1>17. QED
  BY <1>9, <1>16 DEF s, a, n

(* A grown queue is the same one, with more room.                          *)
LEMMA ResizedIsTheSame ==
  ASSUME NEW q, IsQueue(q), q.length = q.capacity, Ascending(q, q.length),
         CanGrow(q.capacity, q.length)
  PROVE  LET r == Resized(q)
         IN  /\ IsQueue(r)
             /\ r.length = q.length /\ r.length < r.capacity
             /\ Ascending(r, r.length)
             /\ \A i \in 0..q.length-1 : r.value[i] = q.value[i] /\ r.data[i] = q.data[i]
<1> DEFINE n == q.length
           c == GrownCapacity(q.capacity)
           f == [i \in 0..c-1 |-> IF i < q.capacity THEN q.value[i] ELSE 0]
           g == [i \in 0..c-1 |-> IF i < q.capacity THEN q.data[i] ELSE 0]
           r == [length |-> n, capacity |-> c, value |-> f, data |-> g]
<1>1. c \in 1..HeapLimit /\ c \in Nat /\ n < c /\ n \in 1..c /\ n \in Nat
  BY QueueTypes, GrowthAssumption DEF CanGrow, GrownCapacity, CCMin
<1>2. Resized(q) = Sorted(r)
  BY DEF Resized
<1> HIDE DEF c
<1>3. /\ f \in [0..c-1 -> Number] /\ g \in [0..c-1 -> Number]
      /\ \A i \in 0..n-1 : f[i] = q.value[i] /\ g[i] = q.data[i]
  BY <1>1, QueueTypes DEF Number
<1> HIDE DEF f, g
<1>4. IsQueue(r) /\ r.length = n /\ r.capacity = c /\ r.value = f /\ r.data = g
  <2>1. n \in 0..c
    BY <1>1
  <2> HIDE DEF n
  <2>2. PICK x : x = r
    OBVIOUS
  <2>3. IsQueue(x) /\ x.length = n /\ x.capacity = c /\ x.value = f /\ x.data = g
    BY <1>1, <1>3, <2>1, <2>2, QueueByFields
  <2>4. QED
    BY <2>2, <2>3
<1> HIDE DEF r
<1>5. Ascending(r, n)
  BY <1>3, <1>4 DEF Ascending
<1> HIDE DEF n
<1>6. Sorted(r) = r
  <2>1. r.length >= 1 /\ Ascending(r, r.length)
    BY <1>1, <1>4, <1>5
  <2>2. QED
    BY <1>4, <2>1, SortedStays
<1>7. QED
  BY <1>1, <1>2, <1>3, <1>4, <1>5, <1>6 DEF n

-----------------------------------------------------------------------------
(* The loop of the search, turn by turn.                                   *)
Turn(q, v, w) == IF w.r = NULL THEN Halved(q, v, w) ELSE w

LEMMA SearchUnfolds ==
  ASSUME NEW q, NEW n \in Nat, q.length = n, q.capacity \in Int, NEW v
  PROVE  \E w : /\ w[0] = Window(0, n - 1, NULL)
                /\ \A i \in 1..n : w[i] = Turn(q, v, w[i-1])
                /\ Search(q, v) = w[n].r
<1> DEFINE S == [lo : Int, hi : Int, r : Int \cup {Lost, NULL}]
           a == Window(0, n - 1, NULL)
           T(x) == Turn(q, v, x)
           g == [i \in 1..n |-> [x \in S |-> T(x)]]
           Solves(h) == h = [i \in 0..n |-> IF i = 0 THEN a
                                            ELSE IF h[i-1].r = NULL THEN Halved(q, v, h[i-1])
                                            ELSE h[i-1]]
           h0 == CHOOSE h : Solves(h)
<1>1. ASSUME NEW x \in S PROVE T(x) \in S
  <2> DEFINE md == x.lo + (x.hi - x.lo) \div 2
             lo == IF q.value[md] < v THEN md + 1 ELSE x.lo
             hi == IF q.value[md] < v THEN x.hi ELSE md - 1
             r == CASE q.value[md] = v              -> md
                    [] q.value[md] # v /\ lo = hi -> q.capacity
                    [] q.value[md] # v /\ lo < hi -> NULL
                    [] q.value[md] # v /\ lo > hi -> Lost
  <2>1. md \in Int
    BY DEF S
  <2> HIDE DEF md
  <2>2. lo \in Int /\ hi \in Int
    BY <2>1
  <2> HIDE DEF lo, hi
  <2>3. lo = hi \/ lo < hi \/ lo > hi
    BY <2>2
  <2>4. r \in Int \cup {Lost, NULL}
    <3>1. CASE q.value[md] = v
      BY <2>1, <2>2, <3>1
    <3>2. CASE q.value[md] # v
      BY <2>2, <2>3, <3>2
    <3>3. QED
      BY <3>1, <3>2
  <2>5. Halved(q, v, x) = [lo |-> lo, hi |-> hi, r |-> r]
    BY DEF Halved, Window, md, lo, hi
  <2> HIDE DEF r
  <2>6. QED
    BY <2>2, <2>4, <2>5 DEF Turn
<1>2. a \in S
  BY DEF Window
<1> HIDE DEF S, a, T
<1>3. g \in [1..n -> [S -> S]]
  BY <1>1
<1>4. PICK f : UnfoldsTo(f, n, S, a, g)
  <2> HIDE DEF g
  <2>1. QED
    BY <1>2, <1>3, Recursion
<1>5. /\ f = [i \in 0..n |-> f[i]] /\ f[0] = a
      /\ \A i \in 1..n : f[i] = T(f[i-1])
  <2>1. f \in [0..n -> S] /\ f[0] = a /\ \A i \in 1..n : f[i] = g[i][f[i-1]]
    BY <1>4 DEF UnfoldsTo
  <2>2. ASSUME NEW i \in 1..n PROVE f[i] = T(f[i-1])
    <3>1. i - 1 \in 0..n
      OBVIOUS
    <3>2. f[i-1] \in S
      BY <2>1, <3>1
    <3>3. QED
      BY <2>1, <3>2
  <2>3. QED
    BY <2>1, <2>2
<1>6. Solves(f)
  <2>1. ASSUME NEW i \in 1..n
        PROVE  f[i] = IF f[i-1].r = NULL THEN Halved(q, v, f[i-1]) ELSE f[i-1]
    BY <1>5 DEF T, Turn
  <2>2. \A i \in 0..n : i = 0 \/ i \in 1..n
    OBVIOUS
  <2>3. \A i \in 0..n : f[i] = IF i = 0 THEN a
                               ELSE IF f[i-1].r = NULL THEN Halved(q, v, f[i-1])
                               ELSE f[i-1]
    BY <1>5, <2>1, <2>2
  <2>4. QED
    BY <1>5, <2>3
<1>7. Solves(h0)
  <2> HIDE DEF Solves
  <2>1. QED
    BY <1>6
<1>8. Search(q, v) = h0[n].r
  BY DEF Search, a
<1> HIDE DEF h0
<1>9. h0[0] = a /\ \A i \in 1..n : h0[i] = T(h0[i-1])
  <2>1. \A i \in 0..n : h0[i] = IF i = 0 THEN a
                                ELSE IF h0[i-1].r = NULL THEN Halved(q, v, h0[i-1])
                                ELSE h0[i-1]
    BY <1>7
  <2>2. 0 \in 0..n /\ \A i \in 1..n : i \in 0..n /\ i # 0
    OBVIOUS
  <2>3. ASSUME NEW i \in 1..n PROVE h0[i] = T(h0[i-1])
    BY <2>1, <2>2 DEF T, Turn
  <2>4. QED
    BY <2>1, <2>2, <2>3
<1>10. QED
  BY <1>8, <1>9 DEF a, T

(* The positions with the value at k.                                      *)
RunOf(q, k) == {m \in 0..q.length-1 : q.value[m] = q.value[k]}

(* A turn of the search for the value at k leaves k, with the run of equal *)
(* values around it, in the window, which has become smaller; or it ends   *)
(* in the run, or with a miss of a run that is k alone.                    *)
Around(q, k, i, w) ==
  IF w.r = NULL
  THEN /\ w.lo \in 0..k /\ w.hi \in k..q.length-1
       /\ w.hi - w.lo <= q.length - 1 - i
       /\ \A m \in RunOf(q, k) : w.lo <= m /\ m <= w.hi
  ELSE w.r \in RunOf(q, k) \/ (w.r = q.capacity /\ RunOf(q, k) = {k})

LEMMA TurnStaysAround ==
  ASSUME NEW q, IsQueue(q), Ascending(q, q.length), NEW k \in 0..q.length-1,
         NEW i \in 1..q.length, NEW w, Around(q, k, i - 1, w)
  PROVE  Around(q, k, i, Turn(q, q.value[k], w))
<1> DEFINE n == q.length
           v == q.value[k]
<1>0. k \in RunOf(q, k) /\ RunOf(q, k) \subseteq 0..n-1
  BY DEF RunOf
<1>1. /\ n \in Nat /\ k \in Nat /\ i \in Nat /\ q.capacity \in Int /\ NULL \notin Int
      /\ \A m \in 0..n-1 : q.value[m] \in Int
  BY QueueTypes, NumberAssumption
<1>2. \A x, y \in 0..n-1 : x < y => q.value[x] <= q.value[y]
  BY DEF Ascending
<1>3. CASE w.r # NULL
  BY <1>3 DEF Around, Turn
<1>4. CASE w.r = NULL
  <2> DEFINE md == w.lo + (w.hi - w.lo) \div 2
             lo == IF q.value[md] < v THEN md + 1 ELSE w.lo
             hi == IF q.value[md] < v THEN w.hi ELSE md - 1
             r == CASE q.value[md] = v              -> md
                    [] q.value[md] # v /\ lo = hi -> q.capacity
                    [] q.value[md] # v /\ lo < hi -> NULL
                    [] q.value[md] # v /\ lo > hi -> Lost
  <2>1. /\ w.lo \in 0..k /\ w.hi \in k..n-1 /\ w.hi - w.lo <= n - 1 - (i - 1)
        /\ \A m \in RunOf(q, k) : w.lo <= m /\ m <= w.hi
    BY <1>4 DEF Around
  <2>2. Turn(q, v, w) = [lo |-> lo, hi |-> hi, r |-> r]
    BY <1>4 DEF Turn, Halved, Window
  <2>3. md \in w.lo..w.hi /\ md \in 0..n-1
    BY <1>1, <2>1
  <2> HIDE DEF md
  <2>4. CASE q.value[md] = v
    <3>1. r = md
      BY <2>4
    <3> HIDE DEF lo, hi, r
    <3>2. md # NULL /\ md \in RunOf(q, k)
      BY <1>1, <2>3, <2>4 DEF RunOf
    <3>3. QED
      BY <2>2, <3>1, <3>2 DEF Around
  <2>5. CASE q.value[md] # v
    <3>1. /\ lo \in 0..k /\ hi \in k..n-1 /\ hi - lo <= n - 1 - i
          /\ \A m \in RunOf(q, k) : lo <= m /\ m <= hi
      <4>1. CASE q.value[md] < v
        <5>1. \A m \in RunOf(q, k) : md < m
          <6>1. \A m \in RunOf(q, k) : m \in 0..n-1 /\ ~(m < md) /\ md # m
            BY <1>1, <1>2, <2>3, <2>5, <4>1 DEF RunOf
          <6>2. QED
            BY <1>1, <2>3, <6>1
        <5>2. lo = md + 1 /\ hi = w.hi
          BY <4>1
        <5> HIDE DEF lo, hi
        <5>3. QED
          BY <1>1, <1>0, <2>1, <2>3, <5>1, <5>2
      <4>2. CASE ~(q.value[md] < v)
        <5>1. \A m \in RunOf(q, k) : md > m
          <6>1. \A m \in RunOf(q, k) : m \in 0..n-1 /\ ~(md < m) /\ md # m
            BY <1>1, <1>2, <2>3, <2>5, <4>2 DEF RunOf
          <6>2. QED
            BY <1>1, <2>3, <6>1
        <5>2. lo = w.lo /\ hi = md - 1
          BY <4>2
        <5> HIDE DEF lo, hi
        <5>3. QED
          BY <1>1, <1>0, <2>1, <2>3, <5>1, <5>2
      <4>3. QED
        BY <4>1, <4>2
    <3> HIDE DEF lo, hi
    <3>2. (lo = hi /\ ~(lo < hi) /\ ~(lo > hi)) \/ (lo < hi /\ lo # hi /\ ~(lo > hi))
      BY <1>1, <3>1
    <3>3. (r = q.capacity /\ r # NULL /\ RunOf(q, k) = {k}) \/ r = NULL
      <4>1. CASE lo = hi /\ ~(lo < hi) /\ ~(lo > hi)
        <5>1. r = q.capacity
          BY <2>5, <4>1
        <5>2. \A m \in RunOf(q, k) : m = k
          BY <1>1, <1>0, <3>1, <4>1
        <5>3. QED
          BY <1>1, <1>0, <5>1, <5>2
      <4>2. CASE lo < hi /\ lo # hi /\ ~(lo > hi)
        <5>1. r = NULL
          BY <2>5, <4>2
        <5>2. QED
          BY <5>1
      <4>3. QED
        BY <3>2, <4>1, <4>2
    <3> HIDE DEF r, n, v
    <3>4. QED
      BY <2>2, <3>1, <3>3 DEF Around, n, v
  <2>6. QED
    BY <2>4, <2>5
<1>5. QED
  BY <1>3, <1>4

(* So the search for a value that is there ends at it, or misses one that  *)
(* no other position has.                                                  *)
LEMMA SearchFinds ==
  ASSUME NEW q, IsQueue(q), Ascending(q, q.length), NEW k \in 0..q.length-1
  PROVE  /\ \/ /\ Search(q, q.value[k]) = q.capacity
               /\ \A m \in 0..q.length-1 : q.value[m] = q.value[k] => m = k
            \/ Search(q, q.value[k]) \in {m \in 0..q.length-1 : q.value[m] = q.value[k]}
         /\ Search(q, q.value[k]) # Lost
<1> DEFINE n == q.length
           v == q.value[k]
<1>1. n \in Nat /\ q.capacity \in Int /\ Lost \notin Int /\ NULL \notin Int /\ k \in Nat
  BY QueueTypes, NumberAssumption
<1>2. PICK w : /\ w[0] = Window(0, n - 1, NULL)
               /\ \A i \in 1..n : w[i] = Turn(q, v, w[i-1])
               /\ Search(q, v) = w[n].r
  <2> HIDE DEF v
  <2>1. QED
    BY <1>1, SearchUnfolds
<1> DEFINE P == {i \in 0..n : Around(q, k, i, w[i])}
<1>3. 0 \in P
  <2>1. w[0].lo = 0 /\ w[0].hi = n - 1 /\ w[0].r = NULL
    BY <1>2 DEF Window
  <2>2. Around(q, k, 0, w[0])
    BY <1>1, <2>1 DEF Around, RunOf
  <2>3. QED
    BY <1>1, <2>2
<1>4. ASSUME NEW i \in 1..n, i - 1 \in P PROVE i \in P
  <2>1. Around(q, k, i - 1, w[i-1]) /\ i \in 0..n
    BY <1>1, <1>4
  <2>2. Around(q, k, i, Turn(q, v, w[i-1]))
    <3>1. PICK x : x = w[i-1]
      OBVIOUS
    <3>2. Around(q, k, i - 1, x)
      BY <2>1, <3>1
    <3>3. Around(q, k, i, Turn(q, q.value[k], x))
      BY <3>2, TurnStaysAround
    <3>4. QED
      BY <3>1, <3>3
  <2>3. w[i] = Turn(q, v, w[i-1])
    BY <1>2
  <2>4. QED
    BY <2>1, <2>2, <2>3
<1> HIDE DEF P
<1>5. n \in P
  <2> HIDE DEF n
  <2>1. \A i \in 0..n : i \in P
    BY <1>1, <1>3, <1>4, InductionUpTo
  <2>2. QED
    BY <1>1, <2>1
<1>6. Around(q, k, n, w[n])
  BY <1>5 DEF P
<1>7. w[n].r # NULL
  <2> SUFFICES ASSUME w[n].r = NULL PROVE FALSE
    OBVIOUS
  <2>1. w[n].lo \in 0..k /\ w[n].hi \in k..n-1 /\ w[n].hi - w[n].lo <= n - 1 - n
    BY <1>6 DEF Around
  <2>2. QED
    BY <1>1, <2>1
<1>8. \/ /\ Search(q, v) = q.capacity
         /\ \A m \in 0..n-1 : q.value[m] = v => m = k
      \/ Search(q, v) \in {m \in 0..n-1 : q.value[m] = v}
  BY <1>2, <1>6, <1>7 DEF Around, RunOf
<1>9. Search(q, v) # Lost
  BY <1>1, <1>8
<1>10. QED
  BY <1>8, <1>9

LEMMA RunEndTypes ==
  ASSUME NEW q, IsQueue(q), NEW r \in 0..q.capacity-1
  PROVE  /\ RunEnd(q, r) \in r..q.capacity-1
         /\ \A i \in r..RunEnd(q, r) : q.value[i] = q.value[r]
         /\ \A n \in r..q.capacity-1 :
              (\A i \in r..n : q.value[i] = q.value[r]) => n <= RunEnd(q, r)
<1> DEFINE S == {n \in r..q.capacity-1 : \A i \in r..n : q.value[i] = q.value[r]}
           c == q.capacity
<1>1. c \in Nat
  BY QueueTypes
<1>2. S \subseteq 0..c /\ r \in S
  BY <1>1
<1> HIDE DEF S, c
<1>3. Max(S) \in S /\ \A n \in S : n <= Max(S)
  BY <1>1, <1>2, MaxExists
<1>4. RunEnd(q, r) = Max(S)
  BY DEF RunEnd, S
<1>5. QED
  BY <1>3, <1>4 DEF S

LEMMA MatchTypes ==
  ASSUME NEW q, IsQueue(q), NEW r \in 0..q.capacity-1, NEW v, NEW d
  PROVE  \/ Match(q, r, v, d) = q.capacity
         \/ Match(q, r, v, d) \in {n \in 0..q.capacity-1 : q.data[n] = d}
<1> DEFINE S == {i \in 0..r : q.data[i] = d \/ i = 0 \/ q.value[i] # v}
           n == Max(S)
<1>1. S \subseteq 0..r /\ 0 \in S /\ r \in Nat
  OBVIOUS
<1> HIDE DEF S
<1>2. Max(S) \in S
  BY <1>1, MaxExists
<1>3. n \in 0..q.capacity-1
  BY <1>2, QueueTypes DEF S
<1>4. Match(q, r, v, d) = IF q.data[n] = d THEN n ELSE q.capacity
  BY DEF Match, S
<1> HIDE DEF n
<1>5. QED
  BY <1>3, <1>4

(* What a push hands back: the data it has pushed, or NULL.                *)
LEMMA FindsTheData ==
  ASSUME NEW q, IsQueue(q), Ascending(q, q.length), NEW k \in 0..q.length-1,
         NEW d \in Number, NEW r \in FindIndex(q, q.value[k], d)
  PROVE  DataAt(q, r) \in {Pair(NULL, d), Pair(NULL, NULL)}
<1> DEFINE v == q.value[k]
           c == q.capacity
           s == Search(q, v)
<1>1. /\ c \in Nat /\ q.length <= c /\ q.length \in Nat /\ d # NULL /\ Lost \notin Int
      /\ Positions(q) = 0..c-1
  BY QueueTypes, NumberAssumption
<1>2. s = c \/ s \in 0..c-1
  BY <1>1, SearchFinds
<1> HIDE DEF s
<1>3. r = c \/ r \in {n \in 0..c-1 : q.data[n] = d}
  <2>1. CASE s \in 0..c-1
    <3>1. s # Lost /\ s # c
      BY <1>1, <2>1
    <3>2. FindIndex(q, v, d) = {Match(q, RunEnd(q, s), v, d)}
      BY <1>1, <2>1, <3>1 DEF FindIndex, s
    <3> DEFINE e == RunEnd(q, s)
    <3>3. e \in 0..c-1
      BY <2>1, RunEndTypes
    <3> HIDE DEF e
    <3>4. Match(q, e, v, d) = c \/ Match(q, e, v, d) \in {n \in 0..c-1 : q.data[n] = d}
      BY <3>3, MatchTypes
    <3>5. QED
      BY <3>2, <3>4 DEF e
  <2>2. CASE s = c
    <3>1. s # Lost /\ s \notin Positions(q)
      BY <1>1, <2>2
    <3>2. FindIndex(q, v, d)
            = {c} \cup IF d # NULL /\ q.data[0] = v THEN {Match(q, c - 1, v, d)} ELSE {}
      BY <2>2, <3>1 DEF FindIndex, ReadsBehind, s
    <3> DEFINE e == c - 1
    <3>3. e \in 0..c-1
      BY QueueTypes
    <3> HIDE DEF e
    <3>4. Match(q, e, v, d) = c \/ Match(q, e, v, d) \in {n \in 0..c-1 : q.data[n] = d}
      BY <3>3, MatchTypes
    <3>5. QED
      BY <3>2, <3>4 DEF e
  <2>3. QED
    BY <1>2, <2>1, <2>2
<1>4. QED
  BY <1>1, <1>3 DEF DataAt

(* Where an iterator begins at a value: the topmost pair that has it.      *)
LEMMA FindsTheTopmost ==
  ASSUME NEW q, IsQueue(q), Ascending(q, q.length), NEW k \in 0..q.length-1,
         q.length < q.capacity => q.value[q.length] # q.value[k],
         NEW r \in FindIndex(q, q.value[k], NULL), r # q.capacity
  PROVE  /\ r \in 0..q.length-1
         /\ q.value[r] = q.value[k]
         /\ \A m \in 0..q.length-1 : q.value[m] = q.value[k] => m <= r
<1> DEFINE v == q.value[k]
           c == q.capacity
           n == q.length
           s == Search(q, v)
<1>1. /\ c \in Nat /\ n <= c /\ n \in Nat /\ Lost \notin Int
      /\ Positions(q) = 0..c-1
      /\ \A m \in 0..n-1 : q.value[m] \in Int
  BY QueueTypes, NumberAssumption
<1>2. \A x, y \in 0..n-1 : x < y => q.value[x] <= q.value[y]
  BY DEF Ascending
<1>3. s = c \/ s \in {m \in 0..n-1 : q.value[m] = v}
  BY SearchFinds
<1> HIDE DEF s
<1>4. s # c
  <2> SUFFICES ASSUME s = c PROVE FALSE
    OBVIOUS
  <2>1. s # Lost /\ s \notin Positions(q)
    BY <1>1
  <2>2. FindIndex(q, v, NULL) = {c}
    BY <2>1 DEF FindIndex, ReadsBehind, s
  <2>3. QED
    BY <2>2
<1>5. s \in 0..n-1 /\ q.value[s] = v /\ s \in 0..c-1 /\ s # Lost
  BY <1>1, <1>3, <1>4
<1>6. r = RunEnd(q, s)
  BY <1>1, <1>5 DEF FindIndex, s
<1>7. /\ r \in s..c-1
      /\ \A i \in s..r : q.value[i] = v
      /\ \A m \in s..c-1 : (\A i \in s..m : q.value[i] = v) => m <= r
  BY <1>5, <1>6, RunEndTypes
<1>8. r <= n - 1
  <2> SUFFICES ASSUME r >= n PROVE FALSE
    BY <1>1, <1>5, <1>7
  <2>1. n < c /\ n \in s..r
    BY <1>1, <1>5, <1>7
  <2>2. QED
    BY <1>7, <2>1
<1>9. ASSUME NEW m \in 0..n-1, q.value[m] = v PROVE m <= r
  <2>1. CASE m < s
    BY <1>1, <1>5, <1>7, <2>1
  <2>2. CASE m >= s
    <3>1. m \in s..c-1
      BY <1>1, <1>5, <2>2
    <3>2. ASSUME NEW i \in s..m PROVE q.value[i] = v
      <4>1. i \in 0..n-1 /\ (i = s \/ s < i) /\ (i = m \/ i < m)
        BY <1>1, <1>5, <2>2
      <4>2. q.value[i] \in Int /\ v \in Int
        BY <1>1, <1>5, <4>1
      <4>3. v <= q.value[i] /\ q.value[i] <= v
        BY <1>2, <1>5, <1>9, <4>1, <4>2
      <4>4. QED
        BY <4>2, <4>3
    <3>3. QED
      BY <1>7, <3>1, <3>2
  <2>3. QED
    BY <1>1, <1>5, <2>1, <2>2
<1>10. QED
  BY <1>1, <1>5, <1>7, <1>8, <1>9

-----------------------------------------------------------------------------
(* The list that stands for a queue, and the cursor for an iterator.       *)
PairOfNumbers == [value : Number, data : Number]

Pairs(q, n) == [i \in 1..n |-> Pair(q.value[i-1], q.data[i-1])]

Shows(q, i) ==
  [below |-> Pairs(q, i.index),
   shown |-> Pair(i.value, CASE i.data = NULL           -> NULL
                             [] i.data \in Positions(q) -> q.data[i.data]
                             [] i.data = q.capacity    -> Junk)]

LEMMA PairsAreSeq ==
  ASSUME NEW q, IsQueue(q), NEW n \in 0..q.capacity
  PROVE  /\ Pairs(q, n) \in Seq(PairOfNumbers)
         /\ Len(Pairs(q, n)) = n
         /\ n \in Nat
         /\ \A i \in 1..n : /\ i - 1 \in 0..q.capacity-1
                            /\ Pairs(q, n)[i] = Pair(q.value[i-1], q.data[i-1])
                            /\ Pairs(q, n)[i].value = q.value[i-1]
                            /\ Pairs(q, n)[i].data = q.data[i-1]
<1>1. n \in Nat /\ \A i \in 1..n : i - 1 \in 0..q.capacity-1
  BY QueueTypes
<1>2. \A i \in 1..n : Pair(q.value[i-1], q.data[i-1]) \in PairOfNumbers
  BY <1>1, QueueTypes DEF Pair, PairOfNumbers
<1>3. \A i \in 1..n : Pairs(q, n)[i] = Pair(q.value[i-1], q.data[i-1])
  BY DEF Pairs
<1>4. Pairs(q, n) \in Seq(PairOfNumbers) /\ Len(Pairs(q, n)) = n
  BY <1>1, <1>2 DEF Pairs
<1>5. QED
  BY <1>1, <1>3, <1>4 DEF Pair

(* Below position n: the first n pairs of a longer list.                   *)
LEMMA PairsFront ==
  ASSUME NEW q, IsQueue(q), NEW n \in 0..q.capacity, NEW m \in 1..n
  PROVE  SubSeq(Pairs(q, n), 1, m - 1) = Pairs(q, m - 1)
<1> DEFINE s == Pairs(q, n)
<1>1. s \in Seq(PairOfNumbers) /\ Len(s) = n /\ n \in Nat
  BY PairsAreSeq
<1>2. \A i \in 1..m-1 : s[i] = Pair(q.value[i-1], q.data[i-1])
  BY <1>1, PairsAreSeq
<1> HIDE DEF s
<1>3. SubSeq(s, 1, m - 1) = [i \in 1..m-1 |-> s[i]]
  BY <1>1
<1>4. QED
  BY <1>2, <1>3 DEF s, Pairs

(* The pushed pair is behind all that are not of a higher value.           *)
WithPair(items, v, d) ==
  LET place == Cardinality({i \in 1..Len(items) : items[i].value <= v}) + 1
  IN  SubSeq(items, 1, place - 1) \o <<Pair(v, d)>> \o SubSeq(items, place, Len(items))

LEMMA TakesInInserts ==
  ASSUME NEW p, IsQueue(p), NEW q, IsQueue(q), p.length = q.length,
         \A i \in 0..p.length-1 : q.value[i] = p.value[i] /\ q.data[i] = p.data[i],
         NEW v \in Number, NEW d \in Number,
         NEW j \in 0..q.length, NEW s, TakesIn(s, q, v, d, j)
  PROVE  Pairs(s, s.length) = WithPair(Pairs(p, p.length), v, d)
<1> DEFINE n == p.length
           items == Pairs(p, n)
           B == {i \in 1..Len(items) : items[i].value <= v}
<1>1. /\ n \in Nat /\ v \in Int /\ n \in 0..p.capacity /\ j \in 0..n
      /\ \A i \in 0..n-1 : p.value[i] \in Int
  BY QueueTypes, NumberAssumption
<1>2. /\ items \in Seq(PairOfNumbers) /\ Len(items) = n
      /\ \A i \in 1..n : /\ i - 1 \in 0..n-1
                         /\ items[i] = Pair(p.value[i-1], p.data[i-1])
                         /\ items[i].value = p.value[i-1]
  BY <1>1, PairsAreSeq
<1>3. /\ \A k \in 0..j-1 : q.value[k] <= v
      /\ \A k \in j..n-1 : q.value[k] > v
      /\ s.length = n + 1
      /\ \A k \in 0..n :
           /\ s.value[k] = IF k < j THEN q.value[k] ELSE IF k = j THEN v ELSE q.value[k-1]
           /\ s.data[k] = IF k < j THEN q.data[k] ELSE IF k = j THEN d ELSE q.data[k-1]
  BY DEF TakesIn
<1>4. \A i \in 0..n-1 : q.value[i] = p.value[i] /\ q.data[i] = p.data[i]
  OBVIOUS
<1> HIDE DEF items, n
<1>5. B = 1..j
  <2>1. ASSUME NEW i \in 1..n PROVE items[i].value <= v <=> i <= j
    <3>1. i - 1 \in 0..n-1 /\ items[i].value = q.value[i-1]
      BY <1>2, <1>4
    <3>2. CASE i <= j
      <4>1. i - 1 \in 0..j-1
        BY <1>1, <3>2
      <4>2. QED
        BY <1>3, <3>1, <3>2, <4>1
    <3>3. CASE ~(i <= j)
      <4>1. i - 1 \in j..n-1
        BY <1>1, <3>3
      <4>2. q.value[i-1] > v /\ q.value[i-1] \in Int
        BY <1>1, <1>3, <1>4, <3>1, <4>1
      <4>3. QED
        BY <1>1, <3>1, <3>3, <4>2
    <3>4. QED
      BY <3>2, <3>3
  <2>2. B = {i \in 1..n : i <= j}
    BY <1>2, <2>1
  <2>3. QED
    BY <1>1, <2>2
<1>6. Cardinality(B) = j
  <2>1. Cardinality(1..j) = j
    <3>1. Cardinality(1..j) = IF 1 > j THEN 0 ELSE j - 1 + 1
      BY <1>1, FS_Interval
    <3>2. QED
      BY <1>1, <3>1
  <2>2. QED
    BY <1>5, <2>1
<1> HIDE DEF B
<1> DEFINE k == j + 1
           x == Pair(v, d)
<1>7. SubSeq(items, 1, k - 1) \o <<x>> \o SubSeq(items, k, n)
        = [i \in 1..n+1 |-> IF i < k THEN items[i] ELSE IF i = k THEN x ELSE items[i - 1]]
  <2>1. k \in 1..n+1
    BY <1>1
  <2> HIDE DEF k, x
  <2>2. QED
    BY <1>1, <1>2, <2>1, InsertDef
<1>8. ASSUME NEW i \in 1..n+1
      PROVE  Pair(s.value[i-1], s.data[i-1])
               = IF i < k THEN items[i] ELSE IF i = k THEN x ELSE items[i - 1]
  <2>1. i - 1 \in 0..n
    BY <1>1
  <2>2. CASE i < k
    <3>1. i - 1 < j /\ i \in 1..n /\ i - 1 \in 0..n-1
      BY <1>1, <2>2
    <3>2. s.value[i-1] = p.value[i-1] /\ s.data[i-1] = p.data[i-1]
      BY <1>3, <1>4, <2>1, <3>1
    <3>3. QED
      BY <1>2, <2>2, <3>1, <3>2
  <2>3. CASE i = k
    <3>1. i - 1 = j /\ ~(i - 1 < j) /\ ~(i < k)
      BY <1>1, <2>3
    <3>2. s.value[i-1] = v /\ s.data[i-1] = d
      BY <1>3, <2>1, <3>1
    <3>3. QED
      BY <2>3, <3>1, <3>2
  <2>4. CASE i > k
    <3>1. /\ ~(i - 1 < j) /\ i - 1 # j /\ ~(i < k) /\ i # k
          /\ (i - 1) - 1 \in 0..n-1 /\ i - 1 \in 1..n
      BY <1>1, <2>4
    <3>2. s.value[i-1] = p.value[(i-1)-1] /\ s.data[i-1] = p.data[(i-1)-1]
      BY <1>3, <1>4, <2>1, <3>1
    <3>3. items[i-1] = Pair(p.value[(i-1)-1], p.data[(i-1)-1])
      BY <1>2, <3>1
    <3>4. QED
      BY <3>1, <3>2, <3>3
  <2>5. i < k \/ i = k \/ i > k
    BY <1>1
  <2>6. QED
    BY <2>2, <2>3, <2>4, <2>5
<1>9. Pairs(s, s.length) = [i \in 1..n+1 |-> Pair(s.value[i-1], s.data[i-1])]
  BY <1>3 DEF Pairs
<1>10. Pairs(s, s.length)
         = SubSeq(items, 1, k - 1) \o <<x>> \o SubSeq(items, k, n)
  BY <1>7, <1>8, <1>9
<1>11. QED
  BY <1>2, <1>6, <1>10 DEF WithPair, items, n, B, k, x

-----------------------------------------------------------------------------
(* The invariant of a client that never removes by value: the queue is     *)
(* sorted, and an iterator in range points to its position, or nowhere.    *)
IteratorOK ==
  it # NULL => /\ it \in [index : 0..qu.capacity, data : 0..qu.capacity \cup {NULL},
                          value : Number]
               /\ it.data \in {it.index, NULL}

OutOK == out \in [value : Number \cup {NULL}, data : Number \cup {NULL}]

IInv == IsQueue(qu) /\ Ascending(qu, qu.length) /\ IteratorOK /\ OutOK

Items == Pairs(qu, qu.length)

CursorShown == IF it = NULL THEN NULL ELSE Shows(qu, it)

LEMMA InvImpliesType == IInv => TypeOK
BY QueueTypes DEF IInv, IteratorOK, OutOK, TypeOK, Positions

LEMMA InvImpliesFound == IInv => OnlySingleValuesAreMissed
<1> SUFFICES ASSUME IInv, NEW i \in 0..qu.length-1
             PROVE  /\ Search(qu, qu.value[i]) # Lost
                    /\ Search(qu, qu.value[i]) = qu.capacity =>
                         \A j \in 0..qu.length-1 : qu.value[j] = qu.value[i] => j = i
  BY DEF OnlySingleValuesAreMissed, ReadsBehind
<1>1. qu.length \in Nat /\ qu.capacity \in Nat /\ qu.length <= qu.capacity
  BY QueueTypes DEF IInv
<1>2. QED
  BY <1>1, SearchFinds DEF IInv

LEMMA InitHolds == Init => IInv /\ L!Init
<1> SUFFICES ASSUME Init PROVE IInv /\ L!Init
  OBVIOUS
<1> DEFINE c == DefaultCapacity
           f == [i \in 0..c-1 |-> 0]
<1>1. /\ qu = [length |-> 0, capacity |-> c, value |-> f, data |-> f]
      /\ it = NULL /\ out = Pair(NULL, NULL)
  BY DEF Init, NewQueue
<1>2. c \in 1..HeapLimit /\ c \in Nat /\ f \in [0..c-1 -> Number] /\ 0 \in 0..c
  BY GrowthAssumption DEF Number
<1> HIDE DEF c, f
<1>3. IsQueue(qu) /\ qu.length = 0
  BY <1>1, <1>2, QueueByFields
<1>4. IInv
  BY <1>1, <1>3 DEF IInv, IteratorOK, OutOK, Ascending, Pair
<1>5. PairsBelow(qu.length) = << >>
  BY <1>3 DEF PairsBelow
<1>6. QED
  BY <1>1, <1>4, <1>5 DEF L!Init, L!Pair, Pair

-----------------------------------------------------------------------------
(* A push into q, which is qu or qu with more room.                        *)
LEMMA PushInto ==
  ASSUME IInv, NEW q, IsQueue(q), q.length < q.capacity, q.length = qu.length,
         Ascending(q, q.length),
         \A i \in 0..qu.length-1 : q.value[i] = qu.value[i] /\ q.data[i] = qu.data[i],
         NEW v \in Value, NEW d \in Data, InsertedIn(q, v, d)
  PROVE  /\ \E j \in 0..q.length : TakesIn(qu', q, v, d, j)
         /\ IsQueue(qu') /\ Ascending(qu', qu'.length) /\ qu'.capacity = q.capacity
         /\ OutOK'
         /\ out' \in {Pair(NULL, d), Pair(NULL, NULL)}
         /\ Items' = WithPair(Items, v, d)
<1>1. v \in Number /\ d \in Number
  BY DEF Number
<1>2. qu' = Sorted(Appended(q, v, d)) /\ \E r \in FindIndex(qu', v, d) : out' = DataAt(qu', r)
  BY DEF InsertedIn, Appended
<1>3. PICK s : s = qu'
  OBVIOUS
<1>4. PICK j \in 0..q.length : TakesIn(s, q, v, d, j)
  BY <1>1, <1>2, <1>3, SortedTakesIn
<1>5. /\ IsQueue(s) /\ s.length = q.length + 1 /\ s.capacity = q.capacity
      /\ Ascending(s, s.length)
      /\ q.length \in Nat /\ j \in 0..s.length-1 /\ s.value[j] = v
  BY <1>4, QueueTypes DEF TakesIn
<1>6. out' \in {Pair(NULL, d), Pair(NULL, NULL)}
  <2>1. PICK r \in FindIndex(s, v, d) : out' = DataAt(s, r)
    BY <1>2, <1>3
  <2>2. QED
    BY <1>1, <1>5, <2>1, FindsTheData
<1>7. OutOK'
  BY <1>1, <1>6 DEF OutOK, Pair
<1>8. Pairs(s, s.length) = WithPair(Pairs(qu, qu.length), v, d)
  <2>1. PICK p : p = qu
    OBVIOUS
  <2>2. /\ IsQueue(p) /\ p.length = q.length
        /\ \A i \in 0..p.length-1 : q.value[i] = p.value[i] /\ q.data[i] = p.data[i]
    BY <2>1 DEF IInv
  <2>3. Pairs(s, s.length) = WithPair(Pairs(p, p.length), v, d)
    BY <1>1, <1>4, <2>2, TakesInInserts
  <2>4. QED
    BY <2>1, <2>3
<1>9. Items' = Pairs(s, s.length)
  BY <1>3 DEF Items
<1>10. QED
  BY <1>3, <1>4, <1>5, <1>6, <1>7, <1>8, <1>9 DEF Items

LEMMA IsLPush ==
  ASSUME NEW v \in Value, NEW d \in Data,
         out' \in {Pair(NULL, d), Pair(NULL, NULL)},
         CursorShown' \in {CursorShown, NULL},
         Items' = WithPair(Items, v, d)
  PROVE  L!Next
<1>1. \A S : L!Cardinality(S) = Cardinality(S)
  BY DEF L!Cardinality, Cardinality
<1>2. L!Push(v, d)
  BY <1>1 DEF L!Push, L!InsertAt, WithPair, L!Pair, Pair, Items, CursorShown, Shows, Pairs,
              PairsBelow, Shown
<1>3. QED
  BY <1>2 DEF L!Next

LEMMA StepPushInPlace ==
  ASSUME IInv, NEW v \in Value, NEW d \in Data, PushIsSafe(v), PushInPlace(v, d)
  PROVE  IInv' /\ L!Next
<1>1. /\ IsQueue(qu) /\ Ascending(qu, qu.length) /\ qu.length < qu.capacity
      /\ InsertedIn(qu, v, d) /\ it' = it
  BY DEF IInv, PushInPlace
<1>2. /\ \E j \in 0..qu.length : TakesIn(qu', qu, v, d, j)
      /\ IsQueue(qu') /\ Ascending(qu', qu'.length) /\ qu'.capacity = qu.capacity
      /\ OutOK'
      /\ out' \in {Pair(NULL, d), Pair(NULL, NULL)}
      /\ Items' = WithPair(Items, v, d)
  BY <1>1, PushInto
<1>3. PICK j \in 0..qu.length : TakesIn(qu', qu, v, d, j)
  BY <1>2
<1>4. IteratorOK'
  BY <1>1, <1>2 DEF IInv, IteratorOK
<1>5. CursorShown' = CursorShown
  <2>1. CASE it = NULL
    BY <1>1, <2>1 DEF CursorShown
  <2>2. CASE it # NULL
    <3> DEFINE n == it.index
    <3>1. /\ n \in 0..qu.capacity /\ n < qu.length /\ qu.value[n] <= v
          /\ it.data \in {n, NULL}
      BY <1>1, <2>2 DEF IInv, IteratorOK, PushIsSafe
    <3>2. /\ qu.length \in Nat /\ qu.capacity \in Nat /\ v \in Int
          /\ \A i \in 0..qu.length-1 : qu.value[i] \in Int
      BY <1>1, QueueTypes, NumberAssumption DEF Number
    <3>3. n < j
      <4>1. CASE n >= j
        <5>1. n \in j..qu.length-1 /\ n \in 0..qu.length-1
          BY <3>1, <3>2, <4>1
        <5>2. qu.value[n] > v
          BY <1>3, <5>1 DEF TakesIn
        <5>3. QED
          BY <3>1, <3>2, <5>1, <5>2
      <4>2. QED
        BY <3>1, <3>2, <4>1
    <3>4. \A k \in 0..n : qu'.value[k] = qu.value[k] /\ qu'.data[k] = qu.data[k]
      <4>1. \A k \in 0..n : k \in 0..qu.length /\ k < j
        BY <3>1, <3>2, <3>3
      <4>2. QED
        BY <1>3, <4>1 DEF TakesIn
    <3>5. Pairs(qu', n) = Pairs(qu, n)
      <4>1. \A i \in 1..n : i - 1 \in 0..n
        BY <3>1, <3>2
      <4>2. QED
        BY <3>4, <4>1 DEF Pairs
    <3>6. Positions(qu') = Positions(qu)
      BY <1>2 DEF Positions
    <3>7. it.data # NULL => qu'.data[it.data] = qu.data[it.data]
      BY <3>1, <3>2, <3>4
    <3>8. Shows(qu', it) = Shows(qu, it)
      BY <1>2, <3>5, <3>6, <3>7 DEF Shows
    <3>9. QED
      BY <1>1, <2>2, <3>8 DEF CursorShown
  <2>3. QED
    BY <2>1, <2>2
<1>6. IInv'
  BY <1>2, <1>4 DEF IInv
<1>7. L!Next
  BY <1>2, <1>5, IsLPush
<1>8. QED
  BY <1>6, <1>7

LEMMA StepPushGrown ==
  ASSUME IInv, NEW v \in Value, NEW d \in Data, PushGrown(v, d)
  PROVE  IInv' /\ L!Next
<1> DEFINE q == Resized(qu)
<1>1. /\ IsQueue(qu) /\ Ascending(qu, qu.length) /\ qu.length = qu.capacity
      /\ CanGrow(qu.capacity, qu.length)
      /\ InsertedIn(q, v, d) /\ it' = NULL
  BY QueueTypes DEF IInv, PushGrown
<1>2. /\ IsQueue(q) /\ q.length = qu.length /\ q.length < q.capacity
      /\ Ascending(q, q.length)
      /\ \A i \in 0..qu.length-1 : q.value[i] = qu.value[i] /\ q.data[i] = qu.data[i]
  BY <1>1, ResizedIsTheSame
<1> HIDE DEF q
<1>3. /\ IsQueue(qu') /\ Ascending(qu', qu'.length)
      /\ OutOK'
      /\ out' \in {Pair(NULL, d), Pair(NULL, NULL)}
      /\ Items' = WithPair(Items, v, d)
  BY <1>1, <1>2, PushInto
<1>4. IInv'
  BY <1>1, <1>3 DEF IInv, IteratorOK
<1>5. CursorShown' = NULL
  BY <1>1 DEF CursorShown
<1>6. L!Next
  BY <1>3, <1>5, IsLPush
<1>7. QED
  BY <1>4, <1>6

(* The calls that leave the queue as it is.                                *)
LEMMA QueueStays ==
  ASSUME IInv, UNCHANGED qu
  PROVE  /\ IsQueue(qu)' /\ Ascending(qu, qu.length)'
         /\ Items' = Items
         /\ UNCHANGED it => IteratorOK' /\ CursorShown' = CursorShown
BY DEF IInv, IteratorOK, Items, CursorShown

LEMMA StepRefused ==
  ASSUME IInv, PushRefused
  PROVE  IInv' /\ L!Next
<1>1. out' = Pair(NULL, NULL) /\ UNCHANGED <<qu, it>>
  BY DEF PushRefused
<1>2. OutOK'
  BY <1>1 DEF OutOK, Pair
<1>3. IInv'
  BY <1>1, <1>2, QueueStays DEF IInv
<1>4. L!Refuse
  BY <1>1 DEF L!Refuse, L!Pair, Pair, PairsBelow, Shown
<1>5. QED
  BY <1>3, <1>4 DEF L!Next

LEMMA StepTop ==
  ASSUME IInv, Top
  PROVE  IInv' /\ L!Next
<1> DEFINE n == qu.length
           s == Pairs(qu, n)
<1>1. /\ out' = IF n > 0 THEN Pair(qu.value[n-1], qu.data[n-1]) ELSE Pair(NULL, NULL)
      /\ UNCHANGED <<qu, it>>
  BY DEF Top
<1>2. /\ IsQueue(qu) /\ n \in Nat /\ n \in 0..qu.capacity /\ n <= qu.capacity
  BY QueueTypes DEF IInv
<1>3. s \in Seq(PairOfNumbers) /\ Len(s) = n
  BY <1>2, PairsAreSeq
<1>4. n > 0 => /\ qu.value[n-1] \in Number /\ qu.data[n-1] \in Number
               /\ s[n] = Pair(qu.value[n-1], qu.data[n-1])
  <2>1. n > 0 => n - 1 \in 0..qu.capacity-1 /\ n \in 1..n
    <3>1. qu.capacity \in Nat
      BY <1>2, QueueTypes
    <3> HIDE DEF n
    <3>2. QED
      BY <1>2, <3>1
  <2>2. QED
    BY <1>2, <2>1, QueueTypes, PairsAreSeq
<1>5. OutOK'
  BY <1>1, <1>4 DEF OutOK, Pair
<1>6. IInv'
  BY <1>1, <1>5, QueueStays DEF IInv
<1>7. out' = IF s = << >> THEN Pair(NULL, NULL) ELSE s[Len(s)]
  <2>1. s = << >> <=> n = 0
    BY <1>3
  <2> HIDE DEF s
  <2>2. QED
    BY <1>1, <1>2, <1>3, <1>4, <2>1
<1>8. L!Top
  BY <1>1, <1>7 DEF L!Top, L!Last, L!Pair, Pair, PairsBelow, Pairs, Shown
<1>9. QED
  BY <1>6, <1>8 DEF L!Next

LEMMA StepRemoveTop ==
  ASSUME IInv, NEW count \in {1, qu.length}, RemoveTop(count)
  PROVE  IInv' /\ L!Next
<1> DEFINE n == qu.length - count
           s == Pairs(qu, qu.length)
<1>1. /\ qu.length >= count /\ UNCHANGED <<it, out>>
      /\ qu' = [qu EXCEPT !.length = @ - count]
  BY DEF RemoveTop
<1>2. /\ IsQueue(qu) /\ qu.length \in Nat /\ qu.length <= qu.capacity /\ qu.capacity \in Nat
      /\ qu.capacity \in 1..HeapLimit
      /\ qu.value \in [0..qu.capacity-1 -> Number]
      /\ qu.data \in [0..qu.capacity-1 -> Number]
      /\ qu = [length |-> qu.length, capacity |-> qu.capacity,
               value |-> qu.value, data |-> qu.data]
  BY QueueTypes DEF IInv
<1>3. n \in 0..qu.capacity /\ n \in 0..qu.length
  BY <1>1, <1>2
<1>4. qu' = [length |-> n, capacity |-> qu.capacity, value |-> qu.value, data |-> qu.data]
  BY <1>1, <1>2
<1>5. /\ IsQueue(qu') /\ qu'.length = n /\ qu'.capacity = qu.capacity
      /\ qu'.value = qu.value /\ qu'.data = qu.data
  <2> HIDE DEF n
  <2>1. QED
    BY <1>2, <1>3, <1>4, QueueByFields
<1>6. Ascending(qu', qu'.length)
  <2>1. \A i \in 0..n-1 : i \in 0..qu.length-1
    BY <1>2, <1>3
  <2> HIDE DEF n
  <2>2. QED
    BY <1>5, <2>1 DEF Ascending, IInv
<1>7. CursorShown' = CursorShown /\ IteratorOK'
  BY <1>1, <1>5 DEF CursorShown, Shows, Pairs, Positions, IteratorOK, IInv
<1>8. IInv'
  BY <1>1, <1>5, <1>6, <1>7 DEF IInv, OutOK
<1>9. Items' = Pairs(qu, n)
  BY <1>5 DEF Items, Pairs
<1>10. s \in Seq(PairOfNumbers) /\ Len(s) = qu.length
  <2>1. qu.length \in 0..qu.capacity
    BY <1>2
  <2>2. QED
    BY <1>2, <2>1, PairsAreSeq
<1>11. CASE count = 1
  <2>1. s # << >> /\ SubSeq(s, 1, Len(s) - 1) = Pairs(qu, n)
    <3>1. qu.length \in 0..qu.capacity /\ qu.length \in 1..qu.length
      BY <1>1, <1>2, <1>11
    <3>2. SubSeq(s, 1, qu.length - 1) = Pairs(qu, qu.length - 1)
      BY <1>2, <3>1, PairsFront
    <3>3. s # << >>
      BY <1>10, <3>1
    <3> HIDE DEF s
    <3>4. QED
      BY <1>10, <1>11, <3>2, <3>3
  <2>2. L!Pop
    BY <1>1, <1>7, <1>9, <2>1
       DEF L!Pop, L!Front, CursorShown, Shows, Items, Pairs, PairsBelow, Shown
  <2>3. QED
    BY <1>8, <2>2 DEF L!Next
<1>12. CASE count = qu.length
  <2>1. Pairs(qu, n) = << >>
    BY <1>2, <1>12 DEF Pairs
  <2>2. L!Clear
    BY <1>1, <1>7, <1>9, <2>1
       DEF L!Clear, CursorShown, Shows, Items, Pairs, PairsBelow, Shown
  <2>3. QED
    BY <1>8, <2>2 DEF L!Next
<1>13. QED
  BY <1>11, <1>12

-----------------------------------------------------------------------------
(* The iterator.                                                           *)
LEMMA ShowsACursor ==
  ASSUME NEW q, IsQueue(q),
         NEW i \in [index : 0..q.capacity, data : 0..q.capacity \cup {NULL},
                   value : Number],
         i.data \in {i.index, NULL}
  PROVE  Shows(q, i) # NULL /\ Shows(q, i).below = Pairs(q, i.index)
<1>1. /\ i.index \in 0..q.capacity /\ i.value \in Number
      /\ i.data \in {i.index, NULL}
  OBVIOUS
<1>2. /\ q.capacity \in Nat /\ Positions(q) = 0..q.capacity-1
      /\ q.data \in [0..q.capacity-1 -> Number] /\ NULL \notin Int
  BY QueueTypes, NumberAssumption
<1>3. Pairs(q, i.index) \in Seq(PairOfNumbers)
  BY <1>1, <1>2, PairsAreSeq
<1> DEFINE d == CASE i.data = NULL           -> NULL
                  [] i.data \in Positions(q) -> q.data[i.data]
                  [] i.data = q.capacity    -> Junk
<1>4. d \in Number \cup {NULL, Junk}
  <2>1. CASE i.data = NULL
    <3>1. i.data \notin Positions(q) /\ i.data # q.capacity
      BY <1>2, <2>1
    <3>2. QED
      BY <2>1, <3>1
  <2>2. CASE i.data = i.index /\ i.data # NULL
    <3>1. i.data \in Positions(q) \/ (i.data = q.capacity /\ i.data \notin Positions(q))
      BY <1>1, <1>2, <2>2
    <3>2. CASE i.data \in Positions(q)
      <4>1. i.data # q.capacity
        BY <1>2, <3>2
      <4>2. d = q.data[i.data]
        BY <2>2, <3>2, <4>1
      <4>3. QED
        BY <1>2, <3>2, <4>2
    <3>3. CASE i.data = q.capacity /\ i.data \notin Positions(q)
      BY <2>2, <3>3
    <3>4. QED
      BY <3>1, <3>2, <3>3
  <2>3. QED
    BY <1>1, <2>1, <2>2
<1>5. Shows(q, i) = [below |-> Pairs(q, i.index), shown |-> [value |-> i.value, data |-> d]]
  BY DEF Shows, Pair
<1> HIDE DEF d
<1>6. Shows(q, i) \in Cursor
  BY <1>1, <1>3, <1>4, <1>5 DEF Cursor, PairOfNumbers
<1>7. QED
  BY <1>5, <1>6, IteratorAssumption

LEMMA IteratorFacts ==
  ASSUME IInv, it # NULL
  PROVE  /\ it.index \in 0..qu.capacity
         /\ CursorShown = Shows(qu, it)
         /\ CursorShown # NULL
         /\ CursorShown.below = Pairs(qu, it.index)
<1>1. /\ it \in [index : 0..qu.capacity, data : 0..qu.capacity \cup {NULL}, value : Number]
      /\ it.data \in {it.index, NULL} /\ IsQueue(qu)
  BY DEF IInv, IteratorOK
<1>2. Shows(qu, it) # NULL /\ Shows(qu, it).below = Pairs(qu, it.index)
  BY <1>1, ShowsACursor
<1>3. QED
  BY <1>1, <1>2 DEF CursorShown

(* The iterator at a position, and the cursor it stands for.               *)
LEMMA IteratorAtFacts ==
  ASSUME IInv, NEW i \in 0..qu.capacity
  PROVE  /\ IteratorAt(i) # NULL
         /\ IteratorAt(i).index = i /\ IteratorAt(i).data = i
         /\ IteratorAt(i) \in [index : 0..qu.capacity,
                               data : 0..qu.capacity \cup {NULL}, value : Number]
         /\ i < qu.capacity =>
              Shows(qu, IteratorAt(i))
                = [below |-> Pairs(qu, i), shown |-> Pair(qu.value[i], qu.data[i])]
<1> DEFINE e == IF i < qu.capacity THEN qu.value[i] ELSE qu.data[0]
<1>1. /\ IsQueue(qu) /\ qu.capacity \in Nat /\ qu.capacity >= 1
      /\ Positions(qu) = 0..qu.capacity-1 /\ NULL \notin Int
      /\ qu.value \in [0..qu.capacity-1 -> Number]
      /\ qu.data \in [0..qu.capacity-1 -> Number]
  BY QueueTypes, NumberAssumption DEF IInv
<1>2. e \in Number /\ i \in Nat
  BY <1>1
<1>3. IteratorAt(i) = [index |-> i, data |-> i, value |-> e]
  BY DEF IteratorAt
<1>4. ASSUME i < qu.capacity
      PROVE  Shows(qu, IteratorAt(i))
                = [below |-> Pairs(qu, i), shown |-> Pair(qu.value[i], qu.data[i])]
  <2>1. e = qu.value[i] /\ i # NULL /\ i \in Positions(qu) /\ i # qu.capacity
    BY <1>1, <1>2, <1>4
  <2> HIDE DEF e
  <2>2. QED
    BY <1>3, <2>1 DEF Shows
<1> HIDE DEF e
<1>5. IteratorAt(i) \in Iterator
  BY <1>2, <1>3 DEF Iterator
<1>6. IteratorAt(i) # NULL
  BY <1>5, IteratorAssumption
<1>7. QED
  BY <1>2, <1>3, <1>4, <1>6

(* A step that leaves the queue and puts the iterator somewhere.           *)
LEMMA IteratorStepHolds ==
  ASSUME IInv, UNCHANGED <<qu, out>>,
         it' = NULL \/ \E i \in 0..qu.capacity :
                         \/ it' = IteratorAt(i)
                         \/ it' = [index |-> i, data |-> NULL, value |-> 0]
  PROVE  /\ IInv'
         /\ it' # NULL => CursorShown' = Shows(qu, it')
         /\ it' = NULL => CursorShown' = NULL
<1>1. IsQueue(qu)' /\ Ascending(qu, qu.length)' /\ OutOK'
  BY QueueStays DEF IInv, OutOK
<1>2. IteratorOK'
  <2> SUFFICES ASSUME it' # NULL
               PROVE  /\ it' \in [index : 0..qu.capacity,
                                  data : 0..qu.capacity \cup {NULL}, value : Number]
                      /\ it'.data \in {it'.index, NULL}
    BY DEF IteratorOK
  <2>1. PICK i \in 0..qu.capacity : \/ it' = IteratorAt(i)
                                    \/ it' = [index |-> i, data |-> NULL, value |-> 0]
    OBVIOUS
  <2>2. CASE it' = IteratorAt(i)
    BY <2>2, IteratorAtFacts
  <2>3. CASE it' = [index |-> i, data |-> NULL, value |-> 0]
    BY <2>3 DEF Number
  <2>4. QED
    BY <2>1, <2>2, <2>3
<1>3. QED
  BY <1>1, <1>2 DEF IInv, CursorShown

(* How the list's cursor is to be placed to follow.                        *)
LEMMA StepItBegin ==
  ASSUME IInv, ItBegin \/ ItRBegin
  PROVE  IInv' /\ L!Next
<1> DEFINE n == qu.length
           s == Pairs(qu, n)
<1>1. /\ IsQueue(qu) /\ n \in Nat /\ n <= qu.capacity /\ n \in 0..qu.capacity
      /\ qu.capacity \in Nat
  BY QueueTypes DEF IInv
<1>2. s \in Seq(PairOfNumbers) /\ Len(s) = n /\ DOMAIN s = 1..n
  BY <1>1, PairsAreSeq
<1>3. /\ it = NULL /\ UNCHANGED <<qu, out>>
      /\ it' = NULL \/ \E i \in 0..n-1 : i + 1 \in {1, n} /\ it' = IteratorAt(i)
  <2>1. CASE ItBegin
    <3>1. \A i \in {n - 1} \cap Nat : i \in 0..n-1 /\ i + 1 = n
      BY <1>1
    <3> HIDE DEF n
    <3>2. QED
      BY <2>1, <3>1 DEF ItBegin, n
  <2>2. CASE ItRBegin
    <3>1. \A i \in {0} \cap 0..n-1 : i \in 0..n-1 /\ i + 1 = 1
      OBVIOUS
    <3> HIDE DEF n
    <3>2. QED
      BY <2>2, <3>1 DEF ItRBegin, n
  <2>3. QED
    BY <2>1, <2>2
<1> HIDE DEF n
<1>4. \A i \in 0..n-1 : i \in 0..qu.capacity /\ i < qu.capacity /\ i + 1 \in 1..n
  BY <1>1
<1>5. /\ IInv'
      /\ it' # NULL => CursorShown' = Shows(qu, it')
      /\ it' = NULL => CursorShown' = NULL
  BY <1>3, <1>4, IteratorStepHolds
<1>6. ASSUME it' # NULL
      PROVE  \E m \in {1, n} \cap DOMAIN s :
               CursorShown' = [below |-> SubSeq(s, 1, m - 1), shown |-> s[m]]
  <2>1. PICK i \in 0..n-1 : i + 1 \in {1, n} /\ it' = IteratorAt(i)
    BY <1>3, <1>6
  <2>2. CursorShown' = [below |-> Pairs(qu, i), shown |-> Pair(qu.value[i], qu.data[i])]
    BY <1>4, <1>5, <1>6, <2>1, IteratorAtFacts
  <2> DEFINE m == i + 1
  <2>3. m \in 1..n /\ m - 1 = i
    BY <1>4
  <2>4. SubSeq(s, 1, m - 1) = Pairs(qu, i) /\ s[m] = Pair(qu.value[i], qu.data[i])
    <3> HIDE DEF m
    <3>1. SubSeq(s, 1, m - 1) = Pairs(qu, m - 1)
      BY <1>1, <2>3, PairsFront
    <3>2. s[m] = Pair(qu.value[m-1], qu.data[m-1])
      BY <1>1, <2>3, PairsAreSeq
    <3>3. QED
      BY <2>3, <3>1, <3>2
  <2>5. m \in {1, n} \cap DOMAIN s
    BY <1>2, <2>1, <2>3
  <2> HIDE DEF m, s
  <2>6. QED
    BY <2>2, <2>4, <2>5
<1>7. CursorShown = NULL
  BY <1>3 DEF CursorShown
<1>8. CursorShown' \in {NULL} \cup {[below |-> SubSeq(s, 1, m - 1), shown |-> s[m]] :
                                      m \in {1, Len(s)} \cap DOMAIN s}
  BY <1>2, <1>5, <1>6
<1>9. L!Begin
  BY <1>3, <1>7, <1>8
     DEF L!Begin, L!CursorAt, CursorShown, Shows, Pairs, PairsBelow, Shown, n
<1>10. QED
  BY <1>5, <1>9 DEF L!Next

LEMMA StepItNext ==
  ASSUME IInv, ItNext
  PROVE  IInv' /\ L!Next
<1> DEFINE n == it.index
           s == Pairs(qu, n)
<1>1. /\ it # NULL /\ UNCHANGED <<qu, out>>
      /\ it' = IF n > 0 THEN IteratorAt(n - 1) ELSE NULL
  BY DEF ItNext
<1>2. /\ n \in 0..qu.capacity /\ n \in Nat /\ IsQueue(qu) /\ qu.capacity \in Nat
      /\ CursorShown # NULL /\ CursorShown.below = s
  BY <1>1, IteratorFacts, QueueTypes DEF IInv
<1>3. s \in Seq(PairOfNumbers) /\ Len(s) = n
  BY <1>2, PairsAreSeq
<1> HIDE DEF n
<1>4. /\ IInv'
      /\ it' # NULL => CursorShown' = Shows(qu, it')
      /\ it' = NULL => CursorShown' = NULL
  <2>1. n > 0 => n - 1 \in 0..qu.capacity
    BY <1>2
  <2>2. QED
    BY <1>1, <2>1, IteratorStepHolds
<1>5. CursorShown' = IF s = << >> THEN NULL
                     ELSE [below |-> SubSeq(s, 1, Len(s) - 1), shown |-> s[Len(s)]]
  <2>1. CASE n = 0
    <3>1. s = << >>
      BY <1>3, <2>1
    <3>2. it' = NULL
      BY <1>1, <2>1
    <3>3. QED
      BY <1>4, <3>1, <3>2
  <2>2. CASE n > 0
    <3> DEFINE i == n - 1
    <3>1. i \in 0..qu.capacity /\ i < qu.capacity /\ n \in 1..n
      BY <1>2, <2>2
    <3>2. it' = IteratorAt(i) /\ i + 1 = n
      BY <1>1, <1>2, <2>2
    <3>3. SubSeq(s, 1, n - 1) = Pairs(qu, i) /\ s[n] = Pair(qu.value[i], qu.data[i])
      BY <1>2, <3>1, PairsFront, PairsAreSeq
    <3> HIDE DEF i
    <3>4. CursorShown' = [below |-> Pairs(qu, i), shown |-> Pair(qu.value[i], qu.data[i])]
      BY <1>4, <3>1, <3>2, IteratorAtFacts
    <3>5. s # << >>
      BY <1>2, <1>3, <2>2
    <3>6. QED
      BY <1>3, <3>3, <3>4, <3>5
  <2>3. QED
    BY <1>2, <2>1, <2>2
<1>6. L!MoveDown
  BY <1>1, <1>2, <1>5
     DEF L!MoveDown, L!Front, L!Last, CursorShown, Shows, Pairs, PairsBelow, Shown
<1>7. QED
  BY <1>4, <1>6 DEF L!Next

MovedUp(items, c, d) ==
  LET n == Len(c.below) + 1
  IN  CASE n < Len(items) -> d = [below |-> SubSeq(items, 1, (n + 1) - 1),
                                  shown |-> items[n + 1]]
        [] n = Len(items) -> d # NULL /\ d.below = items
        [] n > Len(items) -> d = NULL

LEMMA StepItPrev ==
  ASSUME IInv, ItPrev
  PROVE  IInv' /\ L!Next
<1> DEFINE n == it.index
           l == qu.length
           s == Pairs(qu, n)
           items == Pairs(qu, l)
<1>1. /\ it # NULL /\ UNCHANGED <<qu, out>>
      /\ it' = IF n < l THEN IteratorAt(n + 1) ELSE NULL
  BY DEF ItPrev
<1>2. /\ n \in 0..qu.capacity /\ n \in Nat /\ IsQueue(qu) /\ qu.capacity \in Nat
      /\ l \in Nat /\ l <= qu.capacity /\ l \in 0..qu.capacity
      /\ CursorShown # NULL /\ CursorShown.below = s
  BY <1>1, IteratorFacts, QueueTypes DEF IInv
<1>3. Len(s) = n /\ Len(items) = l
  BY <1>2, PairsAreSeq
<1> HIDE DEF n, l
<1>4. /\ IInv'
      /\ it' # NULL => CursorShown' = Shows(qu, it')
      /\ it' = NULL => CursorShown' = NULL
  <2>1. n < l => n + 1 \in 0..qu.capacity
    BY <1>2
  <2>2. QED
    BY <1>1, <2>1, IteratorStepHolds
<1> DEFINE k == Len(s) + 1
<1>5. k = n + 1
  BY <1>3
<1> HIDE DEF k
<1>6. k < Len(items) =>
        CursorShown' = [below |-> SubSeq(items, 1, (k + 1) - 1), shown |-> items[k + 1]]
  <2> SUFFICES ASSUME n + 1 < l
               PROVE  CursorShown' = [below |-> SubSeq(items, 1, (k + 1) - 1),
                                      shown |-> items[k + 1]]
    BY <1>3, <1>5
  <2> DEFINE i == n + 1
             m == n + 2
  <2>1. /\ i \in 0..qu.capacity /\ i < qu.capacity /\ m \in 1..l
        /\ m - 1 = i /\ k + 1 = m /\ (k + 1) - 1 = m - 1
    BY <1>2, <1>5
  <2>2. it' = IteratorAt(i)
    BY <1>1, <1>2
  <2> HIDE DEF i, m
  <2>3. SubSeq(items, 1, m - 1) = Pairs(qu, i) /\ items[m] = Pair(qu.value[i], qu.data[i])
    <3>1. SubSeq(items, 1, m - 1) = Pairs(qu, m - 1)
      BY <1>2, <2>1, PairsFront
    <3>2. items[m] = Pair(qu.value[m-1], qu.data[m-1])
      BY <1>2, <2>1, PairsAreSeq
    <3>3. QED
      BY <2>1, <3>1, <3>2
  <2>4. CursorShown' = [below |-> Pairs(qu, i), shown |-> Pair(qu.value[i], qu.data[i])]
    BY <1>4, <2>1, <2>2, IteratorAtFacts
  <2> HIDE DEF items
  <2>5. QED
    BY <2>1, <2>3, <2>4
<1>7. k = Len(items) => CursorShown' # NULL /\ CursorShown'.below = items
  <2> SUFFICES ASSUME n + 1 = l
               PROVE  CursorShown' # NULL /\ CursorShown'.below = items
    BY <1>3, <1>5
  <2>1. it' = IteratorAt(l)
    BY <1>1, <1>2
  <2>2. it' # NULL /\ it'.index = l
    BY <1>2, <2>1, IteratorAtFacts
  <2>3. CursorShown' = Shows(qu, it') /\ qu' = qu
    BY <1>1, <1>4, <2>2
  <2>4. Shows(qu, it') # NULL /\ Shows(qu, it').below = Pairs(qu, it'.index)
    <3>1. /\ it' \in [index : 0..qu.capacity, data : 0..qu.capacity \cup {NULL},
                     value : Number]
          /\ it'.data \in {it'.index, NULL}
      BY <1>1, <1>4, <2>2 DEF IInv, IteratorOK
    <3>2. PICK i : i = it'
      OBVIOUS
    <3>3. Shows(qu, i) # NULL /\ Shows(qu, i).below = Pairs(qu, i.index)
      BY <1>2, <3>1, <3>2, ShowsACursor
    <3>4. QED
      BY <3>2, <3>3
  <2>5. QED
    BY <2>2, <2>3, <2>4
<1>8. k > Len(items) => CursorShown' = NULL
  <2> SUFFICES ASSUME n + 1 > l PROVE CursorShown' = NULL
    BY <1>3, <1>5
  <2>1. it' = NULL
    BY <1>1, <1>2
  <2>2. QED
    BY <1>4, <2>1
<1>9. MovedUp(items, CursorShown, CursorShown')
  <2>1. k \in Nat /\ Len(items) \in Nat
    BY <1>2, <1>3, <1>5
  <2> HIDE DEF items, s
  <2>2. MovedUp(items, CursorShown, CursorShown') <=>
          CASE k < Len(items) -> CursorShown' = [below |-> SubSeq(items, 1, (k + 1) - 1),
                                                 shown |-> items[k + 1]]
            [] k = Len(items) -> CursorShown' # NULL /\ CursorShown'.below = items
            [] k > Len(items) -> CursorShown' = NULL
    BY <1>2 DEF MovedUp, k
  <2> DEFINE m == Len(items)
             A == CursorShown' = [below |-> SubSeq(items, 1, (k + 1) - 1), shown |-> items[k + 1]]
             B == CursorShown' # NULL /\ CursorShown'.below = items
             C == CursorShown' = NULL
  <2>3. MovedUp(items, CursorShown, CursorShown') <=> CASE k < m -> A [] k = m -> B [] k > m -> C
    BY <2>2
  <2>4. (k < m => A) /\ (k = m => B) /\ (k > m => C) /\ m \in Nat
    BY <1>6, <1>7, <1>8, <2>1
  <2> HIDE DEF A, B, C, m
  <2>5. (k < m /\ k # m /\ ~(k > m)) \/ (k = m /\ ~(k < m) /\ ~(k > m))
        \/ (k > m /\ k # m /\ ~(k < m))
    BY <2>1, <2>4
  <2>6. QED
    BY <2>3, <2>4, <2>5
<1>10. L!MoveUp
  <2>1. MovedUp(Pairs(qu, qu.length), CursorShown, CursorShown')
    BY <1>9 DEF l
  <2>2. CursorShown # NULL /\ UNCHANGED <<qu, out>>
    BY <1>1, <1>2
  <2>3. QED
    BY <2>1, <2>2
       DEF MovedUp, L!MoveUp, L!CursorAt, CursorShown, Shows, Pairs, PairsBelow, Shown
<1>11. QED
  BY <1>4, <1>10 DEF L!Next

LEMMA StepItValue ==
  ASSUME IInv, NEW v \in Value, ItValueIsSafe(v), ItValue(v)
  PROVE  IInv' /\ L!Next
<1> DEFINE n == qu.length
           s == Pairs(qu, n)
           At(r) == [index |-> r, data |-> NULL, value |-> 0]
           of == {m \in DOMAIN s : s[m].value = v}
<1>1. /\ IsQueue(qu) /\ Ascending(qu, qu.length)
      /\ n \in Nat /\ n <= qu.capacity /\ n \in 0..qu.capacity /\ qu.capacity \in Nat
  BY QueueTypes DEF IInv
<1>2. /\ Len(s) = n /\ DOMAIN s = 1..n
      /\ \A m \in 1..n : s[m].value = qu.value[m-1]
  <2>1. /\ s \in Seq(PairOfNumbers) /\ Len(s) = n
        /\ \A i \in 1..n : s[i].value = qu.value[i-1]
    <3> HIDE DEF n
    <3>1. QED
      BY <1>1, PairsAreSeq
  <2>2. DOMAIN s = 1..n
    <3> HIDE DEF s
    <3>1. QED
      BY <2>1
  <2>3. QED
    BY <2>1, <2>2
<1>3. PICK k \in 0..n-1 : qu.value[k] = v
  BY DEF ItValueIsSafe
<1>4. n < qu.capacity => qu.value[n] # v
  BY DEF ItValueIsSafe
<1>5. /\ it = NULL /\ UNCHANGED <<qu, out>>
      /\ it' = NULL \/ \E r \in FindIndex(qu, v, NULL) : r # qu.capacity /\ it' = At(r)
  BY DEF ItValue
<1>6. ASSUME NEW r \in FindIndex(qu, v, NULL), r # qu.capacity
      PROVE  /\ r \in 0..n-1 /\ r \in 0..qu.capacity /\ qu.value[r] = v
             /\ \A m \in 0..n-1 : qu.value[m] = v => m <= r
  <2>1. PICK q : q = qu
    OBVIOUS
  <2>2. /\ IsQueue(q) /\ Ascending(q, q.length) /\ k \in 0..q.length-1
        /\ (q.length < q.capacity => q.value[q.length] # q.value[k])
        /\ r \in FindIndex(q, q.value[k], NULL) /\ r # q.capacity
    BY <1>1, <1>3, <1>4, <1>6, <2>1
  <2>3. /\ r \in 0..q.length-1 /\ q.value[r] = q.value[k]
        /\ \A m \in 0..q.length-1 : q.value[m] = q.value[k] => m <= r
    BY <2>2, FindsTheTopmost
  <2>4. r \in 0..qu.capacity
    BY <1>1, <2>1, <2>3
  <2>5. QED
    BY <1>3, <2>1, <2>3, <2>4
<1>7. /\ IInv'
      /\ it' # NULL => CursorShown' = Shows(qu, it')
      /\ it' = NULL => CursorShown' = NULL
  <2>1. it' = NULL \/ \E i \in 0..qu.capacity : it' = At(i)
    BY <1>5, <1>6
  <2>2. QED
    BY <1>5, <2>1, IteratorStepHolds
<1>8. of # {}
  <2>1. k + 1 \in 1..n /\ (k + 1) - 1 = k
    BY <1>1
  <2>2. k + 1 \in of
    BY <1>2, <1>3, <2>1
  <2>3. QED
    BY <2>2
<1>9. ASSUME it' # NULL
      PROVE  CursorShown' = [below |-> SubSeq(s, 1, Max(of) - 1), shown |-> Pair(0, NULL)]
  <2>1. PICK r \in FindIndex(qu, v, NULL) : r # qu.capacity /\ it' = At(r)
    BY <1>5, <1>9
  <2>2. /\ r \in 0..n-1 /\ qu.value[r] = v
        /\ \A m \in 0..n-1 : qu.value[m] = v => m <= r
    BY <1>6, <2>1
  <2> DEFINE t == r + 1
  <2>3. t \in 1..n /\ t - 1 = r
    BY <1>1, <2>2
  <2>4. Max(of) = t
    <3>1. t \in of
      BY <1>2, <2>2, <2>3
    <3>2. \A m \in of : m \in 1..n /\ m <= t
      <4>1. \A m \in of : m \in 1..n /\ m - 1 \in 0..n-1 /\ qu.value[m-1] = v
        BY <1>1, <1>2
      <4> HIDE DEF of
      <4>2. QED
        BY <1>1, <2>2, <4>1
    <3>3. of \in SUBSET Nat
      BY <1>1, <1>2
    <3> HIDE DEF of, t
    <3>4. QED
      BY <3>1, <3>2, <3>3, MaxIs
  <2>5. SubSeq(s, 1, t - 1) = Pairs(qu, r)
    <3> HIDE DEF t
    <3>1. SubSeq(s, 1, t - 1) = Pairs(qu, t - 1)
      BY <1>1, <2>3, PairsFront
    <3>2. QED
      BY <2>3, <3>1
  <2>6. Shows(qu, it') = [below |-> Pairs(qu, r), shown |-> Pair(0, NULL)]
    <3>1. it' = At(r)
      BY <2>1
    <3>2. Shows(qu, At(r)) = [below |-> Pairs(qu, r), shown |-> Pair(0, NULL)]
      <4>1. NULL \notin Positions(qu) /\ NULL # qu.capacity
        BY <1>1, QueueTypes, NumberAssumption
      <4>2. QED
        BY <4>1 DEF Shows
    <3>3. QED
      BY <3>1, <3>2
  <2> HIDE DEF t, of, s
  <2>7. QED
    BY <1>7, <1>9, <2>4, <2>5, <2>6
<1>10. L!BeginAt(v)
  <2>1. \A S : L!Max(S) = Max(S)
    BY DEF L!Max, Max
  <2>2. CursorShown' \in {NULL, [below |-> SubSeq(s, 1, Max(of) - 1), shown |-> Pair(0, NULL)]}
    BY <1>7, <1>9
  <2>3. CursorShown = NULL
    BY <1>5 DEF CursorShown
  <2> DEFINE w == L!CursorAt(L!Max(of))
  <2>4. [w EXCEPT !.shown = L!Pair(0, NULL)]
          = [below |-> SubSeq(s, 1, Max(of) - 1), shown |-> Pair(0, NULL)]
    <3> DEFINE t == Max(of)
    <3>1. L!Max(of) = t
      BY <2>1
    <3> HIDE DEF t
    <3>2. w = [below |-> SubSeq(s, 1, t - 1), shown |-> s[t]]
      BY <3>1 DEF L!CursorAt, PairsBelow, Pairs
    <3> HIDE DEF w, s
    <3> DEFINE b == SubSeq(s, 1, t - 1)
               x == s[t]
               e == Pair(0, NULL)
    <3> HIDE DEF b, x, e
    <3>3. [w EXCEPT !.shown = e] = [below |-> b, shown |-> e]
      <4>1. w = [below |-> b, shown |-> x]
        BY <3>2 DEF b, x
      <4>2. [[below |-> b, shown |-> x] EXCEPT !.shown = e] = [below |-> b, shown |-> e]
        OBVIOUS
      <4>3. QED
        BY <4>1, <4>2
    <3>4. L!Pair(0, NULL) = Pair(0, NULL)
      BY DEF L!Pair, Pair
    <3>5. QED
      BY <3>3, <3>4 DEF t, b, e
  <2>5. CursorShown' \in {NULL, [w EXCEPT !.shown = L!Pair(0, NULL)]}
    BY <2>2, <2>4
  <2>6. of = {m \in DOMAIN PairsBelow(qu.length) : PairsBelow(qu.length)[m].value = v}
    BY DEF PairsBelow, Pairs
  <2>7. QED
    BY <1>5, <1>8, <2>3, <2>5, <2>6
       DEF L!BeginAt, CursorShown, Shows, Shown, PairsBelow, Pairs
<1>11. QED
  BY <1>7, <1>10 DEF L!Next

-----------------------------------------------------------------------------
LEMMA StepHolds ==
  ASSUME IInv, [SafeNext]_vars
  PROVE  IInv' /\ [L!Next]_(L!vars)
<1>1. ASSUME NEW v \in Value, NEW d \in Data, PushIsSafe(v), Push(v, d)
      PROVE  IInv' /\ L!Next
  BY <1>1, StepPushInPlace, StepPushGrown, StepRefused DEF Push
<1>2. ASSUME Pop \/ Clear PROVE IInv' /\ L!Next
  BY <1>2, StepRemoveTop DEF Pop, Clear
<1>3. ASSUME Top PROVE IInv' /\ L!Next
  BY <1>3, StepTop
<1>4. ASSUME ItBegin \/ ItRBegin \/ ItNext \/ ItPrev PROVE IInv' /\ L!Next
  BY <1>4, StepItBegin, StepItNext, StepItPrev
<1>5. ASSUME NEW v \in Value, ItValueIsSafe(v), ItValue(v) PROVE IInv' /\ L!Next
  BY <1>5, StepItValue
<1>6. CASE UNCHANGED vars
  <2>1. IInv'
    BY <1>6 DEF vars, IInv, IteratorOK, OutOK
  <2>2. UNCHANGED L!vars
    BY <1>6 DEF vars, L!vars, PairsBelow, Shown
  <2>3. QED
    BY <2>1, <2>2
<1>7. QED
  BY <1>1, <1>2, <1>3, <1>4, <1>5, <1>6 DEF SafeNext

(* TypeOK and OnlySingleValuesAreMissed: for such a client the fields stay *)
(* in their ranges, and the search that ends every push finds each value   *)
(* of two pairs or more.  A single one it may miss, and then it compares   *)
(* one element behind the buffer.                                          *)
THEOREM PriorityQueueInvariants == SafeSpec => [](TypeOK /\ OnlySingleValuesAreMissed)
<1>1. IInv /\ [SafeNext]_vars => IInv'
  BY StepHolds
<1>2. QED
  BY InitHolds, <1>1, InvImpliesType, InvImpliesFound, PTL DEF SafeSpec

(* IsPriorityList: for such a client priority_queue.c implements the sorted *)
(* list and its iteration, step by step.                                   *)
THEOREM SafeQueueIsPriorityList == SafeSpec => IsPriorityList
<1>1. IInv /\ [SafeNext]_vars => IInv' /\ [L!Next]_(L!vars)
  BY StepHolds
<1>2. QED
  BY InitHolds, <1>1, PTL DEF SafeSpec, IsPriorityList, L!Spec
=============================================================================
