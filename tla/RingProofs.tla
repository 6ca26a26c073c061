----------------------------- MODULE RingProofs -----------------------------
(***************************************************************************)
(* For every capacity, heap limit, growth macro and element set: queue.c   *)
(* keeps its fields in range whatever its client does; for one that does   *)
(* not pop at a full ring its resize reads inside the buffer and it is a   *)
(* FIFO; deque.c is a double-ended queue for a client that does not pop at *)
(* a full ring and does not push at the back from position 0.  First, what *)
(* the operators of the ring do to a ring in range, and to the elements of *)
(* one whose length, head and tail agree.                                  *)
(***************************************************************************)
EXTENDS Queue, Deque, Lemmas

-----------------------------------------------------------------------------
(* The remainders the ring's positions need: the dividend is at most twice *)
(* the capacity.                                                           *)
LEMMA ModSmall ==
  ASSUME NEW x \in Nat, NEW c \in Nat \ {0}, x < c
  PROVE  x % c = x
OBVIOUS

LEMMA ModWraps ==
  ASSUME NEW x \in Nat, NEW c \in Nat \ {0}, c <= x, x < 2 * c
  PROVE  x % c = x - c
OBVIOUS

LEMMA ModRange ==
  ASSUME NEW x \in Nat, NEW c \in Nat \ {0}
  PROVE  x % c \in 0..c-1
OBVIOUS

(* A grow that is allowed yields room for at least one more element.       *)
LEMMA GrownIsLarger ==
  ASSUME NEW c \in 1..HeapLimit, NEW n, CanGrow(c, n)
  PROVE  /\ GrownCapacity(c) \in 1..HeapLimit
         /\ c < GrownCapacity(c)
BY GrowthAssumption DEF CanGrow, GrownCapacity, CCMin

-----------------------------------------------------------------------------
(* What each operator of the ring does to a ring in range.                 *)
LEMMA NewIsRing == IsRing(NewRing(DefaultCapacity))
BY GrowthAssumption DEF IsRing, NewRing, Cell

LEMMA RingTypes ==
  ASSUME NEW q, IsRing(q)
  PROVE  /\ q.capacity \in Nat \ {0} /\ q.capacity \in 1..HeapLimit
         /\ q.head \in Nat /\ q.head < q.capacity
         /\ q.tail \in Nat /\ q.tail < q.capacity
         /\ q.length \in Nat /\ q.length <= q.capacity
         /\ q.buffer \in [0..q.capacity-1 -> Cell]
<1>1. /\ q.capacity \in 1..HeapLimit /\ q.head \in 0..q.capacity-1
      /\ q.tail \in 0..q.capacity-1 /\ q.length \in 0..q.capacity
      /\ q.buffer \in [0..q.capacity-1 -> Cell]
  BY DEF IsRing
<1>2. HeapLimit \in Nat
  BY GrowthAssumption
<1>3. QED
  BY <1>1, <1>2

LEMMA StoreKeepsRing ==
  ASSUME NEW q, IsRing(q), q.length < q.capacity, NEW d \in Data
  PROVE  IsRing(StoreAtTail(q, d))
<1> DEFINE c == q.capacity
           t == (q.tail + 1) % c
           b == [q.buffer EXCEPT ![q.tail] = d]
<1>1. t \in 0..c-1
  <2>1. q.tail + 1 \in Nat /\ c \in Nat \ {0}
    BY RingTypes
  <2>2. QED
    BY <2>1, ModRange
<1>2. b \in [0..c-1 -> Cell]
  BY RingTypes DEF Cell
<1>3. StoreAtTail(q, d) = [length |-> q.length + 1, head |-> q.head,
                           tail |-> t, capacity |-> c, buffer |-> b]
  BY DEF StoreAtTail
<1> HIDE DEF t, b
<1>4. QED
  BY <1>1, <1>2, <1>3, RingTypes DEF IsRing

(* A ring that is about to be full may have tail = capacity: only the      *)
(* store that follows a resize brings the tail back into range.            *)
LEMMA ResizeKeepsRing ==
  ASSUME NEW q, IsRing(q), CanGrow(q.capacity, q.length)
  PROVE  /\ IsRing(Resized(q))
         /\ Resized(q).length < Resized(q).capacity
<1> DEFINE c == GrownCapacity(q.capacity)
           end == q.capacity - q.head
           b == [i \in 0..c-1 |-> IF i < q.length
                                  THEN CellAt(q, CopiedFrom(q, i)) ELSE Zero]
<1>1. c \in 1..HeapLimit /\ c \in Nat /\ q.capacity < c
  BY GrownIsLarger, RingTypes, GrowthAssumption
<1>2. \A i \in Nat : CellAt(q, i) \in Cell
  BY RingTypes DEF CellAt, Cell
<1>3. \A i \in Nat : CellAt(q, CopiedFrom(q, i)) \in Cell
  <2> SUFFICES ASSUME NEW i \in Nat PROVE CellAt(q, CopiedFrom(q, i)) \in Cell
    OBVIOUS
  <2>1. CopiedFrom(q, i) \in Nat
    BY RingTypes DEF CopiedFrom
  <2>2. QED
    BY <1>2, <2>1
<1>4. b \in [0..c-1 -> Cell]
  <2> HIDE DEF c
  <2> QED BY <1>1, <1>3 DEF Cell
<1>5. Resized(q) = [length |-> q.length, head |-> 0, tail |-> q.length,
                    capacity |-> c, buffer |-> b]
  BY DEF Resized
<1> HIDE DEF b, c
<1>6. QED
  BY <1>1, <1>4, <1>5, RingTypes DEF IsRing

LEMMA DropKeepsRing ==
  ASSUME NEW q, IsRing(q), NEW n \in 0..q.length
  PROVE  IsRing(DropAtHead(q, n))
<1> DEFINE new == (q.head + n) % q.capacity
           h == IF q.head <= q.tail /\ new > q.tail THEN q.tail ELSE new
<1>1. n \in Nat /\ n <= q.length
  BY RingTypes
<1>2. new \in 0..q.capacity-1
  <2>1. q.head + n \in Nat /\ q.capacity \in Nat \ {0}
    BY <1>1, RingTypes
  <2>2. QED
    BY <2>1, ModRange
<1>3. h \in 0..q.capacity-1
  <2> HIDE DEF new
  <2> QED BY <1>2, RingTypes
<1>4. DropAtHead(q, n) = [length |-> q.length - n, head |-> h, tail |-> q.tail,
                          capacity |-> q.capacity, buffer |-> q.buffer]
  BY DEF DropAtHead
<1> HIDE DEF h
<1>5. QED
  BY <1>1, <1>3, <1>4, RingTypes DEF IsRing

-----------------------------------------------------------------------------
(* Positions around a ring of c cells, k places on from h.                 *)
LEMMA Around ==
  ASSUME NEW c \in Nat \ {0}, NEW h \in Nat, h < c, NEW k \in Nat, k <= c
  PROVE  (h + k) % c = IF h + k < c THEN h + k ELSE h + k - c
OBVIOUS

LEMMA NextAround ==
  ASSUME NEW c \in Nat \ {0}, NEW h \in Nat, h < c, NEW k \in Nat, k < c
  PROVE  (((h + k) % c) + 1) % c = (h + (k + 1)) % c
OBVIOUS

LEMMA ApartAround ==
  ASSUME NEW c \in Nat \ {0}, NEW h \in Nat, h < c,
         NEW j \in Nat, NEW k \in Nat, j < k, k < c
  PROVE  (h + j) % c # (h + k) % c
<1>1. (h + j) % c = IF h + j < c THEN h + j ELSE h + j - c
  OBVIOUS
<1>2. (h + k) % c = IF h + k < c THEN h + k ELSE h + k - c
  OBVIOUS
<1>3. QED
  BY <1>1, <1>2

(* The elements of a ring form a sequence of its length.                   *)
LEMMA ElementsAreSeq ==
  ASSUME NEW q, IsRing(q)
  PROVE  /\ Elements(q) \in Seq(Cell)
         /\ Len(Elements(q)) = q.length
         /\ \A i \in 1..q.length :
              Elements(q)[i] = q.buffer[(q.head + (i - 1)) % q.capacity]
<1> DEFINE At(i) == (q.head + (i - 1)) % q.capacity
<1>1. ASSUME NEW i \in 1..q.length PROVE At(i) \in 0..q.capacity-1
  <2>1. q.head + (i - 1) \in Nat /\ q.capacity \in Nat \ {0}
    BY RingTypes
  <2>2. QED
    BY <2>1, ModRange, Zenon
<1>2. Elements(q) = [i \in 1..q.length |-> q.buffer[At(i)]]
  BY DEF Elements
<1> HIDE DEF At
<1>3. \A i \in 1..q.length : q.buffer[At(i)] \in Cell
  BY <1>1, RingTypes
<1>4. Elements(q) \in Seq(Cell) /\ Len(Elements(q)) = q.length
  BY <1>2, <1>3, RingTypes
<1>5. \A i \in 1..q.length : Elements(q)[i] = q.buffer[At(i)]
  BY <1>2
<1>6. QED
  BY <1>4, <1>5 DEF At

(* What each operator does to the elements of a ring that agrees.          *)
LEMMA StoreAppends ==
  ASSUME NEW q, IsRing(q), Agrees(q), q.length < q.capacity, NEW d \in Data
  PROVE  /\ Agrees(StoreAtTail(q, d))
         /\ Elements(StoreAtTail(q, d)) = Append(Elements(q), d)
<1> DEFINE c == q.capacity
           h == q.head
           n == q.length
           r == StoreAtTail(q, d)
           At(k) == (h + k) % c
<1>0. c \in Nat \ {0} /\ h \in Nat /\ h < c /\ n \in Nat /\ n < c
  BY RingTypes
<1>1. /\ r.length = n + 1 /\ r.head = h /\ r.capacity = c
      /\ r.tail = (q.tail + 1) % c
      /\ r.buffer = [q.buffer EXCEPT ![q.tail] = d]
  BY DEF StoreAtTail
<1>2. q.tail = At(n)
  BY DEF Agrees
<1>3. Agrees(r)
  <2>1. (At(n) + 1) % c = At(n + 1)
    BY <1>0, NextAround, Zenon
  <2>2. QED
    BY <1>1, <1>2, <2>1 DEF Agrees
<1>4. ASSUME NEW k \in 0..n-1 PROVE At(k) \in 0..c-1 /\ At(k) # q.tail
  <2>1. k \in Nat /\ k < n /\ h + k \in Nat
    BY <1>0
  <2>2. At(k) # At(n)
    BY <1>0, <2>1, ApartAround
  <2>3. At(k) \in 0..c-1
    BY <1>0, <2>1, ModRange, Zenon
  <2>4. QED
    BY <2>2, <2>3, <1>2
<1>5. Elements(r) = [i \in 1..n+1 |-> r.buffer[At(i - 1)]]
  BY <1>1 DEF Elements
<1> HIDE DEF At, r
<1>6. \A i \in 1..n : r.buffer[At(i - 1)] = Elements(q)[i]
  <2>1. \A k \in 0..n-1 : r.buffer[At(k)] = q.buffer[At(k)]
    BY <1>1, <1>4, RingTypes
  <2>2. \A i \in 1..n : i - 1 \in 0..n-1
    BY <1>0
  <2>3. \A i \in 1..n : Elements(q)[i] = q.buffer[At(i - 1)]
    BY ElementsAreSeq, Zenon DEF At
  <2>4. QED
    BY <2>1, <2>2, <2>3
<1>7. r.buffer[At((n + 1) - 1)] = d
  BY <1>0, <1>1, <1>2, RingTypes
<1>8. Append(Elements(q), d)
        = [i \in 1..n+1 |-> IF i <= n THEN Elements(q)[i] ELSE d]
  BY <1>0, ElementsAreSeq, AppendDef
<1>9. Elements(r) = Append(Elements(q), d)
  BY <1>0, <1>5, <1>6, <1>7, <1>8
<1>10. QED
  BY <1>3, <1>9 DEF r

(* In a full ring that agrees, a resize copies element i from the position *)
(* i places after the head, around the end of the buffer.                  *)
LEMMA CopiesAround ==
  ASSUME NEW q, IsRing(q), Agrees(q), q.length = q.capacity,
         NEW i \in 0..q.capacity-1
  PROVE  /\ CopiedFrom(q, i) = (q.head + i) % q.capacity
         /\ CopiedFrom(q, i) \in 0..q.capacity-1
<1> DEFINE c == q.capacity
           h == q.head
<1>0. c \in Nat \ {0} /\ h \in Nat /\ h < c /\ i \in Nat /\ i < c
  BY RingTypes
<1>1. q.tail = h
  <2>1. (h + c) % c = IF h + c < c THEN h + c ELSE h + c - c
    BY <1>0, Around
  <2>2. QED
    BY <1>0, <2>1 DEF Agrees
<1>2. CopiedFrom(q, i) = IF i < c - h THEN h + i ELSE i - (c - h)
  BY <1>0, <1>1 DEF CopiedFrom
<1>3. (h + i) % c = IF h + i < c THEN h + i ELSE h + i - c
  <2>1. i <= c
    BY <1>0
  <2>2. QED
    BY <1>0, <2>1, Around, Zenon
<1>4. QED
  BY <1>0, <1>2, <1>3

LEMMA ResizeKeepsElements ==
  ASSUME NEW q, IsRing(q), Agrees(q), q.length = q.capacity,
         CanGrow(q.capacity, q.length)
  PROVE  /\ Agrees(Resized(q))
         /\ Elements(Resized(q)) = Elements(q)
<1> DEFINE c == q.capacity
           h == q.head
           r == Resized(q)
           g == GrownCapacity(c)
           At(k) == (h + k) % c
<1>0. c \in Nat \ {0} /\ h \in Nat /\ h < c /\ g \in Nat \ {0} /\ c < g
  BY RingTypes, GrownIsLarger, GrowthAssumption
<1>1. \A k \in 0..c-1 : CopiedFrom(q, k) = At(k) /\ CopiedFrom(q, k) \in 0..c-1
  BY CopiesAround
<1>2. /\ r.length = c /\ r.head = 0 /\ r.tail = c /\ r.capacity = g
      /\ \A k \in 0..c-1 : r.buffer[k] = CellAt(q, CopiedFrom(q, k))
  <2> HIDE DEF g
  <2> QED BY <1>0 DEF Resized, g
<1>3. Agrees(r)
  <2>1. (0 + c) % g = c
    BY <1>0
  <2>2. QED
    BY <1>2, <2>1 DEF Agrees
<1> HIDE DEF r, g
<1>4. \A k \in 0..c-1 : r.buffer[k] = q.buffer[At(k)]
  <2> HIDE DEF At
  <2> QED BY <1>0, <1>1, <1>2 DEF CellAt
<1>5. \A i \in 1..c : (0 + (i - 1)) % g = i - 1
  BY <1>0
<1>6. Elements(r) = [i \in 1..c |-> r.buffer[(0 + (i - 1)) % g]]
  BY <1>2 DEF Elements
<1>7. Elements(q) = [i \in 1..c |-> q.buffer[At(i - 1)]]
  BY DEF Elements
<1> HIDE DEF At
<1>8. \A i \in 1..c : r.buffer[(0 + (i - 1)) % g] = q.buffer[At(i - 1)]
  <2>1. \A i \in 1..c : i - 1 \in 0..c-1
    BY <1>0
  <2>2. QED
    BY <1>4, <1>5, <2>1
<1>9. QED
  BY <1>3, <1>6, <1>7, <1>8 DEF r

(* One element leaves a ring that is not full, or whose head is its last   *)
(* cell.                                                                   *)
LEMMA DropTakesHead ==
  ASSUME NEW q, IsRing(q), Agrees(q), q.length >= 1,
         q.length = q.capacity => q.head + 1 = q.capacity
  PROVE  /\ Agrees(DropAtHead(q, 1))
         /\ Elements(q) # << >>
         /\ Elements(DropAtHead(q, 1)) = Tail(Elements(q))
<1> DEFINE c == q.capacity
           h == q.head
           n == q.length
           r == DropAtHead(q, 1)
           At(k) == (h + k) % c
<1>0. c \in Nat \ {0} /\ h \in Nat /\ h < c /\ n \in Nat /\ 1 <= n /\ n <= c
  BY RingTypes
<1>1. q.tail = At(n) /\ At(n) = IF h + n < c THEN h + n ELSE h + n - c
  <2>1. q.tail = At(n)
    BY DEF Agrees
  <2>2. At(n) = IF h + n < c THEN h + n ELSE h + n - c
    BY <1>0, Around, Zenon
  <2>3. QED
    BY <2>1, <2>2
<1>2. At(1) = IF h + 1 < c THEN h + 1 ELSE h + 1 - c
  BY <1>0
<1>3. /\ r.length = n - 1 /\ r.tail = At(n) /\ r.capacity = c
      /\ r.buffer = q.buffer
      /\ r.head = IF h <= At(n) /\ At(1) > At(n) THEN At(n) ELSE At(1)
  BY <1>1 DEF DropAtHead
<1>4. ASSUME NEW k \in 0..n-1 PROVE (At(1) + k) % c = At(k + 1)
  <2>1. At(k + 1) = IF h + (k + 1) < c THEN h + (k + 1) ELSE h + (k + 1) - c
    BY <1>0
  <2>2. (At(1) + k) % c = IF At(1) + k < c THEN At(1) + k ELSE At(1) + k - c
    <3>1. PICK x \in 0..c-1 : x = At(1)
      BY <1>0, <1>2
    <3> HIDE DEF At
    <3>2. x \in Nat /\ x < c /\ k \in Nat /\ k <= c
      BY <1>0
    <3>3. (x + k) % c = IF x + k < c THEN x + k ELSE x + k - c
      BY <1>0, <3>2, Around, Zenon
    <3>4. QED
      BY <3>1, <3>3
  <2> HIDE DEF At
  <2>3. QED
    BY <1>0, <1>2, <2>1, <2>2
<1> HIDE DEF At, r
<1>5. r.head = At(1)
  <2>1. CASE n < c
    BY <1>0, <1>1, <1>2, <1>3, <2>1
  <2>2. CASE n = c
    BY <1>0, <1>1, <1>2, <1>3, <2>2
  <2>3. QED
    BY <1>0, <2>1, <2>2
<1>6. Agrees(r)
  <2>1. (At(1) + (n - 1)) % c = At((n - 1) + 1)
    BY <1>0, <1>4
  <2>2. (n - 1) + 1 = n
    BY <1>0
  <2>3. QED
    BY <1>3, <1>5, <2>1, <2>2 DEF Agrees
<1>7. Elements(r) = [i \in 1..n-1 |-> q.buffer[(At(1) + (i - 1)) % c]]
  BY <1>3, <1>5 DEF Elements
<1>8. \A i \in 1..n-1 : q.buffer[(At(1) + (i - 1)) % c] = Elements(q)[i + 1]
  <2> SUFFICES ASSUME NEW i \in 1..n-1
               PROVE  q.buffer[(At(1) + (i - 1)) % c] = Elements(q)[i + 1]
    OBVIOUS
  <2>1. i - 1 \in 0..n-1 /\ (i - 1) + 1 = (i + 1) - 1 /\ i + 1 \in 1..n
    BY <1>0
  <2>2. (At(1) + (i - 1)) % c = At((i + 1) - 1)
    BY <1>4, <2>1
  <2>3. Elements(q)[i + 1] = q.buffer[At((i + 1) - 1)]
    BY <2>1, ElementsAreSeq, Zenon DEF At
  <2>4. QED
    BY <2>2, <2>3
<1>9. Elements(q) # << >> /\ Tail(Elements(q)) = [i \in 1..n-1 |-> Elements(q)[i + 1]]
  BY <1>0, ElementsAreSeq, TailDef
<1>10. QED
  BY <1>6, <1>7, <1>8, <1>9 DEF r

LEMMA DropTakesAll ==
  ASSUME NEW q, IsRing(q), Agrees(q)
  PROVE  /\ Agrees(DropAtHead(q, q.length))
         /\ Elements(DropAtHead(q, q.length)) = << >>
<1> DEFINE r == DropAtHead(q, q.length)
<1>1. r.length = 0 /\ r.head = q.tail /\ r.tail = q.tail /\ r.capacity = q.capacity
  BY RingTypes DEF DropAtHead, Agrees
<1>2. (q.tail + 0) % q.capacity = q.tail
  BY RingTypes, ModSmall
<1>3. Agrees(r)
  BY <1>1, <1>2 DEF Agrees
<1>4. Elements(r) = << >>
  BY <1>1 DEF Elements
<1>5. QED
  BY <1>3, <1>4

-----------------------------------------------------------------------------
(* TypeOK, for every client, even one that pops at a full ring: the fields *)
(* stay in range, so that a store and a read of the front are in the       *)
(* buffer.  What a resize reads is another matter: CopyStaysInside, which  *)
(* such a client breaks.                                                   *)
THEOREM TypeCorrect == Spec => []TypeOK
<1>1. Init => TypeOK
  BY NewIsRing DEF Init, TypeOK
<1>2. TypeOK /\ [Next]_vars => TypeOK'
  <2> SUFFICES ASSUME TypeOK, [Next]_vars PROVE TypeOK'
    OBVIOUS
  <2> USE DEF TypeOK
  <2>1. ASSUME NEW d \in Data, PushInPlace(d) PROVE TypeOK'
    BY <2>1, StoreKeepsRing DEF PushInPlace, Cell
  <2>2. ASSUME NEW d \in Data, PushGrown(d) PROVE TypeOK'
    BY <2>2, ResizeKeepsRing, StoreKeepsRing DEF PushGrown, Cell
  <2>3. CASE PushRefused
    BY <2>3 DEF PushRefused
  <2>4. CASE Pop
    <3>1. 1 \in 0..qu.length
      BY <2>4, RingTypes DEF Pop, Remove
    <3>2. QED
      BY <2>4, <3>1, DropKeepsRing DEF Pop, Remove
  <2>5. CASE Clear
    <3>1. qu.length \in 0..qu.length
      BY RingTypes
    <3>2. QED
      BY <2>5, <3>1, DropKeepsRing DEF Clear, Remove
  <2>6. CASE Front
    <3>1. CellAt(qu, qu.head) \in Cell
      BY RingTypes DEF CellAt
    <3>2. QED
      BY <2>6, <3>1 DEF Front
  <2>7. CASE UNCHANGED vars
    BY <2>7 DEF vars
  <2>8. QED
    BY <2>1, <2>2, <2>3, <2>4, <2>5, <2>6, <2>7 DEF Next, Push
<1>3. QED
  BY <1>1, <1>2, PTL DEF Spec

-----------------------------------------------------------------------------
(* A client that never pops at a full ring: its queue is a FIFO.  RingAgrees *)
(* together with TypeOK is inductive; the elements of the ring follow the  *)
(* abstract queue step by step.                                            *)
IInv == TypeOK /\ RingAgrees

LEMMA CarefulInit == Init => IInv /\ F!Init
<1> SUFFICES ASSUME Init PROVE IInv /\ F!Init
  OBVIOUS
<1>1. TypeOK
  BY NewIsRing DEF Init, TypeOK
<1>2. RingAgrees
  <2>1. (0 + 0) % DefaultCapacity = 0
    BY GrowthAssumption, ModSmall
  <2>2. QED
    BY <2>1 DEF Init, NewRing, RingAgrees, Agrees
<1>3. F!Init
  BY DEF Init, NewRing, Elements, F!Init
<1>4. QED
  BY <1>1, <1>2, <1>3 DEF IInv

LEMMA CarefulStep ==
  ASSUME IInv, [CarefulNext]_vars
  PROVE  IInv' /\ [F!Next]_<<Elements(qu), out>>
<1> USE DEF IInv, TypeOK, RingAgrees
<1>1. ASSUME NEW d \in Data, PushInPlace(d) PROVE IInv' /\ F!Push(d)
  BY <1>1, StoreKeepsRing, StoreAppends DEF PushInPlace, Cell, F!Push
<1>2. ASSUME NEW d \in Data, PushGrown(d) PROVE IInv' /\ F!Push(d)
  <2>1. /\ IsRing(qu) /\ Agrees(qu) /\ qu.length = qu.capacity
        /\ CanGrow(qu.capacity, qu.length)
    BY <1>2, RingTypes DEF PushGrown
  <2>2. /\ IsRing(Resized(qu)) /\ Resized(qu).length < Resized(qu).capacity
        /\ Agrees(Resized(qu)) /\ Elements(Resized(qu)) = Elements(qu)
    BY <2>1, ResizeKeepsRing, ResizeKeepsElements
  <2>3. QED
    BY <1>2, <2>2, StoreKeepsRing, StoreAppends DEF PushGrown, Cell, F!Push
<1>3. CASE PushRefused
  BY <1>3 DEF PushRefused, F!Refuse, F!Next
<1>4. CASE CarefulPop
  <2>1. /\ qu.length >= 1 /\ qu' = DropAtHead(qu, 1) /\ UNCHANGED out
        /\ qu.length = qu.capacity => qu.head + 1 = qu.capacity
    BY <1>4 DEF CarefulPop, PopIsSafe, Pop, Remove
  <2>2. 1 \in 0..qu.length
    BY <2>1, RingTypes
  <2>3. IInv'
    BY <2>1, <2>2, DropKeepsRing, DropTakesHead
  <2>4. F!Pop
    BY <2>1, DropTakesHead DEF F!Pop
  <2>5. QED
    BY <2>3, <2>4 DEF F!Next
<1>5. CASE Clear
  <2>1. qu.length \in 0..qu.length
    BY RingTypes
  <2>2. IInv'
    BY <1>5, <2>1, DropKeepsRing, DropTakesAll DEF Clear, Remove
  <2>3. F!Clear
    BY <1>5, DropTakesAll DEF Clear, Remove, F!Clear
  <2>4. QED
    BY <2>2, <2>3 DEF F!Next
<1>6. CASE Front
  <2>1. Elements(qu) \in Seq(Cell) /\ Len(Elements(qu)) = qu.length
    BY ElementsAreSeq
  <2>2. CellAt(qu, qu.head) \in Cell
    BY RingTypes DEF CellAt
  <2>3. ASSUME qu.length = 0 PROVE F!Front
    BY <1>6, <2>1, <2>3 DEF Front, F!Front
  <2>4. ASSUME qu.length > 0 PROVE F!Front
    <3>1. (qu.head + (1 - 1)) % qu.capacity = qu.head
      BY RingTypes, ModSmall
    <3>2. Head(Elements(qu)) = qu.buffer[qu.head]
      BY <2>1, <2>4, <3>1, ElementsAreSeq, RingTypes
    <3>3. QED
      BY <1>6, <2>1, <2>4, <3>2, RingTypes DEF Front, F!Front, CellAt
  <2>5. IInv'
    BY <1>6, <2>2 DEF Front
  <2>6. QED
    BY <2>3, <2>4, <2>5, RingTypes DEF F!Next
<1>7. CASE UNCHANGED vars
  BY <1>7 DEF vars
<1>8. QED
  BY <1>1, <1>2, <1>3, <1>4, <1>5, <1>6, <1>7
     DEF CarefulNext, Push, F!Next

(* TypeOK and RingAgrees, for a client that never pops at a full ring.     *)
THEOREM CarefulRingAgrees == CarefulSpec => [](TypeOK /\ RingAgrees)
<1>1. IInv /\ [CarefulNext]_vars => IInv'
  BY CarefulStep
<1>2. QED
  BY CarefulInit, <1>1, PTL DEF CarefulSpec, IInv

(* CopyStaysInside, for such a client: a resize of its queue copies from   *)
(* the buffer only.                                                        *)
LEMMA CopiesInside == IInv => CopyStaysInside
BY CopiesAround DEF IInv, TypeOK, RingAgrees, CopyStaysInside

THEOREM CarefulCopyStaysInside == CarefulSpec => []CopyStaysInside
<1>1. IInv /\ [CarefulNext]_vars => IInv'
  BY CarefulStep
<1>2. QED
  BY CarefulInit, <1>1, CopiesInside, PTL DEF CarefulSpec

(* IsFifo: for such a client queue.c implements the abstract queue.        *)
THEOREM CarefulQueueIsFifo == CarefulSpec => IsFifo
<1>1. IInv /\ [CarefulNext]_vars => IInv' /\ [F!Next]_<<Elements(qu), out>>
  BY CarefulStep
<1>2. QED
  BY CarefulInit, <1>1, PTL DEF CarefulSpec, IsFifo, F!Spec, F!vars

-----------------------------------------------------------------------------
(* The sequence without its last element.                                  *)
LEMMA FrontDef ==
  ASSUME NEW S, NEW s \in Seq(S), NEW n \in Nat, Len(s) = n, n >= 1
  PROVE  s # << >> /\ D!Front(s) = [i \in 1..n-1 |-> s[i]]
BY DEF D!Front

-----------------------------------------------------------------------------
(* The mirror images of StoreAppends and DropTakesHead.                    *)
LEMMA StorePrepends ==
  ASSUME NEW q, IsRing(q), Agrees(q), q.length < q.capacity, q.head > 0,
         NEW d \in Data
  PROVE  /\ IsRing(StoreAtHead(q, d))
         /\ Agrees(StoreAtHead(q, d))
         /\ Elements(StoreAtHead(q, d)) = <<d>> \o Elements(q)
<1> DEFINE c == q.capacity
           h == q.head
           n == q.length
           r == StoreAtHead(q, d)
           b == [i \in 0..c-1 |-> IF i = h - 1 THEN d ELSE q.buffer[i]]
           At(k) == (h + k) % c
<1>0. c \in Nat \ {0} /\ h \in Nat /\ 0 < h /\ h < c /\ n \in Nat /\ n < c
  BY RingTypes
<1>1. r = [length |-> n + 1, head |-> h - 1, tail |-> q.tail, capacity |-> c,
           buffer |-> b]
  <2> DEFINE head == IF h = 0 THEN c ELSE h - 1
  <2>1. r = [length |-> n + 1, head |-> head, tail |-> q.tail, capacity |-> c,
             buffer |-> [i \in 0..c-1 |-> IF i = head THEN d ELSE q.buffer[i]]]
    BY DEF StoreAtHead
  <2>2. head = h - 1
    BY <1>0
  <2> HIDE DEF head, r
  <2>3. QED
    BY <2>1, <2>2
<1>2. b \in [0..c-1 -> Cell]
  BY RingTypes DEF Cell
<1>3. \A i \in 0..c-1 : b[i] = IF i = h - 1 THEN d ELSE q.buffer[i]
  OBVIOUS
<1> HIDE DEF b, r
<1>4. IsRing(r)
  BY <1>0, <1>1, <1>2, RingTypes DEF IsRing
<1>5. Agrees(r)
  <2>1. (h - 1) + (n + 1) = h + n
    BY <1>0
  <2>2. QED
    BY <1>1, <2>1 DEF Agrees
<1>6. h - 1 = At(c - 1)
  <2>1. At(c - 1) = IF h + (c - 1) < c THEN h + (c - 1) ELSE h + (c - 1) - c
    BY <1>0
  <2> HIDE DEF At
  <2>2. QED
    BY <1>0, <2>1
<1>7. ASSUME NEW k \in 0..n-1 PROVE b[At(k)] = q.buffer[At(k)]
  <2>1. k \in Nat /\ k < c - 1 /\ c - 1 \in Nat /\ c - 1 < c /\ h + k \in Nat
    BY <1>0
  <2>2. At(k) # At(c - 1)
    BY <1>0, <2>1, ApartAround
  <2>3. At(k) \in 0..c-1
    BY <1>0, <2>1, ModRange, Zenon
  <2> HIDE DEF At
  <2>4. QED
    BY <1>3, <1>6, <2>2, <2>3
<1>8. Elements(r) = [i \in 1..n+1 |-> b[((h - 1) + (i - 1)) % c]]
  BY <1>1 DEF Elements
<1>9. ASSUME NEW i \in 1..n+1
      PROVE  b[((h - 1) + (i - 1)) % c]
               = IF i = 1 THEN d ELSE Elements(q)[i - 1]
  <2>1. CASE i = 1
    <3>1. (h - 1) + (i - 1) = h - 1 /\ h - 1 \in Nat /\ h - 1 < c
      BY <1>0, <2>1
    <3>2. (h - 1) % c = h - 1
      BY <1>0, <3>1, ModSmall
    <3>3. b[h - 1] = d
      BY <1>0, <1>3
    <3>4. QED
      BY <2>1, <3>1, <3>2, <3>3
  <2>2. CASE i # 1
    <3> DEFINE k == i - 2
    <3>1. k \in 0..n-1 /\ (h - 1) + (i - 1) = h + k /\ i - 1 \in 1..n
          /\ (i - 1) - 1 = k
      BY <1>0, <2>2
    <3>2. Elements(q)[i - 1] = q.buffer[At((i - 1) - 1)]
      BY <3>1, ElementsAreSeq, Zenon
    <3>3. b[At(k)] = q.buffer[At(k)]
      BY <3>1, <1>7
    <3> HIDE DEF k
    <3>4. QED
      BY <2>2, <3>1, <3>2, <3>3
  <2>3. QED
    BY <2>1, <2>2
<1>10. <<d>> \o Elements(q)
        = [i \in 1..n+1 |-> IF i = 1 THEN d ELSE Elements(q)[i - 1]]
  BY <1>0, ElementsAreSeq, PrependDef
<1>11. Elements(r) = <<d>> \o Elements(q)
  <2> HIDE DEF At
  <2> QED BY <1>8, <1>9, <1>10
<1>12. QED
  BY <1>4, <1>5, <1>11 DEF r

LEMMA DropTakesLast ==
  ASSUME NEW q, IsRing(q), Agrees(q), q.length >= 1,
         q.length = q.capacity => q.tail = 0
  PROVE  /\ IsRing(DropAtTail(q, 1))
         /\ Agrees(DropAtTail(q, 1))
         /\ Elements(q) # << >>
         /\ Elements(DropAtTail(q, 1)) = D!Front(Elements(q))
<1> DEFINE c == q.capacity
           h == q.head
           n == q.length
           r == DropAtTail(q, 1)
           new == IF q.tail < 1 THEN c - 1 + q.tail ELSE q.tail - 1
           t == IF h <= q.tail /\ new < h THEN h ELSE new
           At(k) == (h + k) % c
<1>0. /\ c \in Nat \ {0} /\ h \in Nat /\ h < c /\ n \in Nat /\ 1 <= n /\ n <= c
      /\ q.tail \in Nat /\ q.tail < c
  BY RingTypes
<1>1. q.tail = IF h + n < c THEN h + n ELSE h + n - c
  <2>1. q.tail = At(n)
    BY DEF Agrees
  <2>2. At(n) = IF h + n < c THEN h + n ELSE h + n - c
    BY <1>0, Around, Zenon
  <2>3. QED
    BY <2>1, <2>2
<1>2. At(n - 1) = IF h + (n - 1) < c THEN h + (n - 1) ELSE h + (n - 1) - c
  <2>1. n - 1 \in Nat /\ n - 1 <= c
    BY <1>0
  <2>2. QED
    BY <1>0, <2>1, Around, Zenon
<1>3. r = [length |-> n - 1, head |-> h, tail |-> t, capacity |-> c,
           buffer |-> q.buffer]
  BY DEF DropAtTail
<1> HIDE DEF At, r
<1>4. t = At(n - 1)
  <2>1. CASE n = c
    BY <1>0, <1>1, <1>2, <2>1
  <2>2. CASE n < c
    BY <1>0, <1>1, <1>2, <2>2
  <2>3. QED
    BY <1>0, <2>1, <2>2
<1>5. t \in 0..c-1
  BY <1>0, <1>2, <1>4
<1> HIDE DEF t
<1>6. IsRing(r)
  BY <1>0, <1>3, <1>5, RingTypes DEF IsRing
<1>7. Agrees(r)
  BY <1>3, <1>4 DEF Agrees, At
<1>8. Elements(r) = [i \in 1..n-1 |-> q.buffer[(h + (i - 1)) % c]]
  BY <1>3 DEF Elements
<1>9. \A i \in 1..n : Elements(q)[i] = q.buffer[(h + (i - 1)) % c]
  BY ElementsAreSeq
<1>10. Elements(q) # << >> /\ D!Front(Elements(q)) = [i \in 1..n-1 |-> Elements(q)[i]]
  BY <1>0, ElementsAreSeq, FrontDef
<1>11. \A i \in 1..n-1 : i \in 1..n
  BY <1>0
<1>12. QED
  BY <1>6, <1>7, <1>8, <1>9, <1>10, <1>11 DEF r

-----------------------------------------------------------------------------
(* The elements of the ring follow the abstract deque step by step.        *)
LEMMA DequeInit == Init => D!Init
BY DEF Init, NewRing, Elements, D!Init

(* The ring that an insertion finds room in has the elements of the old one. *)
LEMMA RoomIsTheSame ==
  ASSUME IInv, NEW q, HasRoom(q)
  PROVE  /\ IsRing(q) /\ Agrees(q) /\ q.length < q.capacity
         /\ Elements(q) = Elements(qu)
<1> USE DEF IInv, TypeOK, RingAgrees
<1>1. CASE q = qu /\ qu.length < qu.capacity
  BY <1>1
<1>2. CASE q = Resized(qu) /\ qu.length >= qu.capacity
             /\ CanGrow(qu.capacity, qu.length)
  <2>1. qu.length = qu.capacity
    BY <1>2, RingTypes
  <2>2. QED
    BY <1>2, <2>1, ResizeKeepsRing, ResizeKeepsElements
<1>3. QED
  BY <1>1, <1>2 DEF HasRoom

LEMMA DequeStep ==
  ASSUME IInv, [DequeNext]_vars
  PROVE  IInv' /\ [D!Next]_<<Elements(qu), out>>
<1> USE DEF IInv, TypeOK, RingAgrees
<1>1. ASSUME NEW d \in Data, PushFront(d) PROVE IInv' /\ D!PushFront(d)
  <2>1. PICK q : HasRoom(q) /\ qu' = StoreAtTail(q, d) /\ out' = d
    BY <1>1 DEF PushFront
  <2>2. QED
    BY <2>1, RoomIsTheSame, StoreKeepsRing, StoreAppends DEF Cell, D!PushFront
<1>2. ASSUME NEW d \in Data, PushBackIsSafe, PushBack(d)
      PROVE  IInv' /\ D!PushBack(d)
  <2>1. qu.head > 0 /\ qu.length < qu.capacity /\ qu' = StoreAtHead(qu, d) /\ out' = d
    BY <1>2, RingTypes DEF PushBackIsSafe, PushBack, HasRoom
  <2>2. QED
    BY <2>1, StorePrepends DEF Cell, D!PushBack
<1>3. CASE PushRefused
  BY <1>3 DEF PushRefused, D!Refuse, D!Next
<1>4. CASE PopFrontIsSafe /\ PopFront
  <2>1. /\ qu.length >= 1 /\ qu' = DropAtTail(qu, 1) /\ UNCHANGED out
        /\ qu.length = qu.capacity => qu.tail = 0
    BY <1>4 DEF PopFront, PopFrontIsSafe
  <2>2. IInv'
    BY <2>1, DropTakesLast
  <2>3. D!PopFront
    BY <2>1, DropTakesLast DEF D!PopFront
  <2>4. QED
    BY <2>2, <2>3 DEF D!Next
<1>5. CASE PopBackIsSafe /\ PopBack
  <2>1. /\ qu.length >= 1 /\ qu' = DropAtHead(qu, 1) /\ UNCHANGED out
        /\ qu.length = qu.capacity => qu.head + 1 = qu.capacity
    BY <1>5 DEF PopBack, PopBackIsSafe
  <2>2. 1 \in 0..qu.length
    BY <2>1, RingTypes
  <2>3. IInv'
    BY <2>1, <2>2, DropKeepsRing, DropTakesHead
  <2>4. D!PopBack
    BY <2>1, DropTakesHead DEF D!PopBack
  <2>5. QED
    BY <2>3, <2>4 DEF D!Next
<1>6. CASE GetFront
  <2>1. Elements(qu) \in Seq(Cell) /\ Len(Elements(qu)) = qu.length
    BY ElementsAreSeq
  <2>2. CellAt(qu, qu.tail) \in Cell
    BY RingTypes DEF CellAt
  <2>3. IInv'
    BY <1>6, <2>2 DEF GetFront
  <2>4. D!GetFront
    <3>1. CASE qu.length = 0
      BY <1>6, <2>1, <3>1 DEF GetFront, D!GetFront
    <3>2. CASE qu.length > 0
      BY <1>6, <2>1, <2>2, <3>2 DEF GetFront, D!GetFront
    <3>3. QED
      BY <3>1, <3>2, RingTypes
  <2>5. QED
    BY <2>3, <2>4 DEF D!Next
<1>7. CASE GetBack
  <2>1. Elements(qu) \in Seq(Cell) /\ Len(Elements(qu)) = qu.length
    BY ElementsAreSeq
  <2>2. CellAt(qu, qu.head) \in Cell
    BY RingTypes DEF CellAt
  <2>3. IInv'
    BY <1>7, <2>2 DEF GetBack
  <2>4. D!GetBack
    <3>1. CASE qu.length = 0
      BY <1>7, <2>1, <3>1 DEF GetBack, D!GetBack
    <3>2. CASE qu.length > 0
      <4>1. (qu.head + (1 - 1)) % qu.capacity = qu.head
        BY RingTypes, ModSmall
      <4>2. Head(Elements(qu)) = qu.buffer[qu.head]
        BY <2>1, <3>2, <4>1, ElementsAreSeq, RingTypes
      <4>3. QED
        BY <1>7, <2>1, <3>2, <4>2, RingTypes DEF GetBack, D!GetBack, CellAt
    <3>3. QED
      BY <3>1, <3>2, RingTypes
  <2>5. QED
    BY <2>3, <2>4 DEF D!Next
<1>8. CASE UNCHANGED vars
  BY <1>8 DEF vars
<1>9. QED
  BY <1>1, <1>2, <1>3, <1>4, <1>5, <1>6, <1>7, <1>8 DEF DequeNext, D!Next

(* TypeOK and RingAgrees, for the careful client: both positions stay in   *)
(* the buffer, length places apart, whichever way the ends move.           *)
THEOREM DequeRingAgrees == DequeSpec => [](TypeOK /\ RingAgrees)
<1>1. IInv /\ [DequeNext]_vars => IInv'
  BY DequeStep
<1>2. QED
  BY CarefulInit, DequeInit, <1>1, PTL DEF DequeSpec, IInv

(* CopyStaysInside, for the careful client of a deque.                     *)
THEOREM DequeCopyStaysInside == DequeSpec => []CopyStaysInside
<1>1. IInv /\ [DequeNext]_vars => IInv'
  BY DequeStep
<1>2. QED
  BY CarefulInit, <1>1, CopiesInside, PTL DEF DequeSpec

(* IsDeque: for such a client deque.c implements the double-ended queue.   *)
THEOREM CarefulDequeIsDeque == DequeSpec => IsDeque
<1>1. IInv /\ [DequeNext]_vars => IInv' /\ [D!Next]_<<Elements(qu), out>>
  BY DequeStep
<1>2. QED
  BY CarefulInit, DequeInit, <1>1, PTL DEF DequeSpec, IsDeque, D!Spec, D!vars
=============================================================================
