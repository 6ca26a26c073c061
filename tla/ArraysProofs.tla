---------------------------- MODULE ArraysProofs ----------------------------
(***************************************************************************)
(* For every capacity, heap limit, growth macro and element set: stack.c   *)
(* and vector.c are a LIFO and an array for a client that copies elements  *)
(* within and between them as CarefulNext says.  And of free_list.c, for   *)
(* every element size and client: its fields stay in range, insert is      *)
(* first-fit, the length never overcounts, the buffer is never replaced    *)
(* and a failing insert fails until slot 0 is freed.                       *)
(***************************************************************************)
EXTENDS Arrays, FreeList, Lemmas, FiniteSetTheorems

-----------------------------------------------------------------------------
(* What the operators of the buffer do to one in range, whose elements in  *)
(* use are the client's.                                                   *)
IsUsed(b) ==
  /\ b = [length |-> b.length, capacity |-> b.capacity, cell |-> b.cell]
  /\ IsBuffer(b)
  /\ \A i \in 0..b.length-1 : b.cell[i] \in Data

LEMMA BufferTypes ==
  ASSUME NEW b, IsBuffer(b)
  PROVE  /\ b.capacity \in Nat \ {0} /\ b.capacity \in 1..HeapLimit
         /\ b.length \in Nat /\ b.length <= b.capacity
         /\ b.cell \in [0..b.capacity-1 -> Cell]
BY GrowthAssumption DEF IsBuffer

LEMMA UsedByFields ==
  ASSUME NEW n \in Nat, NEW c \in 1..HeapLimit, n <= c,
         NEW f \in [0..c-1 -> Cell], \A i \in 0..n-1 : f[i] \in Data,
         NEW b, b = [length |-> n, capacity |-> c, cell |-> f]
  PROVE  IsUsed(b) /\ b.length = n /\ b.capacity = c /\ b.cell = f
<1>1. b.length = n /\ b.capacity = c /\ b.cell = f
  OBVIOUS
<1>2. c \in Nat /\ n \in 0..c
  BY GrowthAssumption
<1>3. IsBuffer(b)
  BY <1>1, <1>2 DEF IsBuffer
<1>4. QED
  BY <1>1, <1>3 DEF IsUsed

LEMMA NewIsUsed == IsUsed(NewBuffer(DefaultCapacity))
BY GrowthAssumption DEF IsUsed, IsBuffer, NewBuffer, Cell

LEMMA ContentIsSeq ==
  ASSUME NEW b, IsUsed(b)
  PROVE  /\ Content(b) \in Seq(Data)
         /\ Len(Content(b)) = b.length
         /\ \A i \in 1..b.length : Content(b)[i] = b.cell[i - 1]
<1>1. \A i \in 1..b.length : b.cell[i - 1] \in Data
  BY BufferTypes DEF IsUsed
<1>2. Content(b) = [i \in 1..b.length |-> b.cell[i - 1]]
  BY DEF Content
<1>3. b.length \in Nat
  BY BufferTypes DEF IsUsed
<1>4. QED
  BY <1>1, <1>2, <1>3

(* A grown buffer is the same array with more room.                        *)
LEMMA RoomIsTheSame ==
  ASSUME NEW b, IsUsed(b), NEW r, HasRoom(b, r)
  PROVE  /\ IsUsed(r) /\ r.length < r.capacity
         /\ r.length = b.length
         /\ \A i \in 0..b.length-1 : r.cell[i] = b.cell[i]
<1>1. CASE r = b /\ ~IsFull(b)
  BY <1>1, BufferTypes DEF IsUsed, IsFull
<1>2. CASE r = Resized(b) /\ IsFull(b) /\ CanGrow(b.capacity, b.length)
  <2> DEFINE c == GrownCapacity(b.capacity)
             f == [i \in 0..c-1 |-> IF i < b.length THEN b.cell[i] ELSE Zero]
  <2>1. c \in 1..HeapLimit /\ b.capacity < c /\ c \in Nat
    BY <1>2, BufferTypes, GrowthAssumption
       DEF IsUsed, CanGrow, GrownCapacity, CCMin
  <2>2. r = [length |-> b.length, capacity |-> c, cell |-> f]
    BY <1>2 DEF Resized
  <2> HIDE DEF c
  <2>3. f \in [0..c-1 -> Cell]
    BY <2>1, BufferTypes DEF IsUsed, Cell
  <2>4. \A i \in 0..b.length-1 : f[i] = b.cell[i]
    BY <2>1, BufferTypes DEF IsUsed
  <2> HIDE DEF f
  <2>5. /\ b.length \in Nat /\ b.length < c
        /\ \A i \in 0..b.length-1 : b.cell[i] \in Data
    BY <1>2, <2>1, BufferTypes DEF IsUsed, IsFull
  <2>6. IsUsed(r) /\ r.length = b.length /\ r.capacity = c /\ r.cell = f
    BY <2>1, <2>2, <2>3, <2>4, <2>5, UsedByFields
  <2>7. QED
    BY <2>4, <2>5, <2>6
<1>3. QED
  BY <1>1, <1>2 DEF HasRoom

LEMMA InsertKeepsUsed ==
  ASSUME NEW r, IsUsed(r), r.length < r.capacity, NEW index \in 0..r.length,
         NEW d \in Data
  PROVE  /\ IsUsed(Inserted(r, index, d))
         /\ Inserted(r, index, d).length = r.length + 1
         /\ \A i \in 0..r.length : Inserted(r, index, d).cell[i]
              = IF i = index THEN d
                ELSE IF index < i THEN r.cell[i - 1] ELSE r.cell[i]
<1> DEFINE n == r.length
           f == [i \in 0..r.capacity-1 |->
                   IF i = index THEN d
                   ELSE IF index < i /\ i <= n THEN r.cell[i-1]
                   ELSE r.cell[i]]
           s == Inserted(r, index, d)
<1>1. /\ n \in Nat /\ r.capacity \in Nat /\ n < r.capacity /\ index \in Nat
      /\ index <= n /\ r.cell \in [0..r.capacity-1 -> Cell]
      /\ \A i \in 0..n-1 : r.cell[i] \in Data
  BY BufferTypes DEF IsUsed
<1>2. s = [length |-> n + 1, capacity |-> r.capacity, cell |-> f]
  BY DEF Inserted
<1>3. f \in [0..r.capacity-1 -> Cell]
  BY <1>1 DEF Cell
<1>4. \A i \in 0..n : f[i] = IF i = index THEN d
                             ELSE IF index < i THEN r.cell[i - 1] ELSE r.cell[i]
  BY <1>1
<1>5. \A i \in 0..n : f[i] \in Data
  BY <1>1, <1>4
<1> HIDE DEF f, s
<1>6. IsBuffer(s)
  BY <1>1, <1>2, <1>3, BufferTypes DEF IsUsed, IsBuffer
<1>7. QED
  BY <1>1, <1>2, <1>4, <1>5, <1>6 DEF IsUsed, s

(* An insertion at the end appends, one at the start prepends.             *)
LEMMA InsertAppends ==
  ASSUME NEW b, IsUsed(b), NEW r, HasRoom(b, r), NEW d \in Data
  PROVE  /\ IsUsed(Inserted(r, r.length, d))
         /\ Content(Inserted(r, r.length, d)) = Append(Content(b), d)
<1> DEFINE n == b.length
           s == Inserted(r, r.length, d)
<1>1. /\ IsUsed(r) /\ r.length < r.capacity /\ r.length = n /\ n \in Nat
      /\ \A i \in 0..n-1 : r.cell[i] = b.cell[i]
  BY RoomIsTheSame, BufferTypes DEF IsUsed
<1>2. /\ IsUsed(s) /\ s.length = n + 1
      /\ \A i \in 0..n : s.cell[i] = IF i = n THEN d
                                     ELSE IF n < i THEN r.cell[i - 1]
                                     ELSE r.cell[i]
  BY <1>1, InsertKeepsUsed
<1> HIDE DEF s
<1>3. Content(s) = [i \in 1..n+1 |-> s.cell[i - 1]]
  BY <1>2 DEF Content
<1>4. Append(Content(b), d)
        = [i \in 1..n+1 |-> IF i <= n THEN Content(b)[i] ELSE d]
  BY <1>1, ContentIsSeq, AppendDef
<1>5. \A i \in 1..n+1 : s.cell[i - 1] = IF i <= n THEN Content(b)[i] ELSE d
  <2> SUFFICES ASSUME NEW i \in 1..n+1
               PROVE  s.cell[i - 1] = IF i <= n THEN Content(b)[i] ELSE d
    OBVIOUS
  <2>1. CASE i <= n
    <3>1. i \in 1..n /\ i - 1 \in 0..n-1 /\ i - 1 \in 0..n /\ i - 1 < n
      BY <1>1, <2>1
    <3>2. s.cell[i - 1] = r.cell[i - 1]
      BY <1>1, <1>2, <3>1
    <3>3. Content(b)[i] = b.cell[i - 1]
      BY <3>1, ContentIsSeq
    <3>4. QED
      BY <1>1, <2>1, <3>1, <3>2, <3>3
  <2>2. CASE i = n + 1
    BY <1>1, <1>2, <2>2
  <2>3. QED
    BY <1>1, <2>1, <2>2
<1>6. QED
  BY <1>2, <1>3, <1>4, <1>5 DEF s

LEMMA InsertPrepends ==
  ASSUME NEW b, IsUsed(b), NEW r, HasRoom(b, r), NEW d \in Data
  PROVE  /\ IsUsed(Inserted(r, 0, d))
         /\ Content(Inserted(r, 0, d)) = <<d>> \o Content(b)
<1> DEFINE n == b.length
           s == Inserted(r, 0, d)
<1>1. /\ IsUsed(r) /\ r.length < r.capacity /\ r.length = n /\ n \in Nat
      /\ \A i \in 0..n-1 : r.cell[i] = b.cell[i]
  BY RoomIsTheSame, BufferTypes DEF IsUsed
<1>2. /\ IsUsed(s) /\ s.length = n + 1
      /\ \A i \in 0..n : s.cell[i] = IF i = 0 THEN d
                                     ELSE IF 0 < i THEN r.cell[i - 1]
                                     ELSE r.cell[i]
  BY <1>1, InsertKeepsUsed
<1> HIDE DEF s
<1>3. Content(s) = [i \in 1..n+1 |-> s.cell[i - 1]]
  BY <1>2 DEF Content
<1>4. <<d>> \o Content(b)
        = [i \in 1..n+1 |-> IF i = 1 THEN d ELSE Content(b)[i - 1]]
  BY <1>1, ContentIsSeq, PrependDef
<1>5. \A i \in 1..n+1 : s.cell[i - 1] = IF i = 1 THEN d ELSE Content(b)[i - 1]
  <2> SUFFICES ASSUME NEW i \in 1..n+1
               PROVE  s.cell[i - 1] = IF i = 1 THEN d ELSE Content(b)[i - 1]
    OBVIOUS
  <2>1. CASE i = 1
    BY <1>1, <1>2, <2>1
  <2>2. CASE i # 1
    <3>1. i - 1 \in 1..n /\ (i - 1) - 1 \in 0..n-1 /\ i - 1 \in 0..n /\ 0 < i - 1
      BY <1>1, <2>2
    <3>2. s.cell[i - 1] = r.cell[(i - 1) - 1]
      BY <1>2, <3>1
    <3>3. Content(b)[i - 1] = b.cell[(i - 1) - 1]
      BY <3>1, ContentIsSeq
    <3>4. QED
      BY <1>1, <2>2, <3>1, <3>2, <3>3
  <2>3. QED
    BY <2>1, <2>2
<1>6. QED
  BY <1>2, <1>3, <1>4, <1>5 DEF s

-----------------------------------------------------------------------------
(* The elements in use are the client's: nothing that is read through a    *)
(* data pointer is memory that nobody wrote or that was freed.             *)
IInv ==
  /\ IsUsed(stk)
  /\ IsUsed(vec)
  /\ out \in [at : SUBSET Nat, given : Cell \cup {NULL}, got : Cell \cup {NULL}]

LEMMA InvImpliesType == IInv => TypeOK
BY DEF IInv, TypeOK, IsUsed

LEMMA InitHolds == Init => IInv /\ L!Init
<1> SUFFICES ASSUME Init PROVE IInv /\ L!Init
  OBVIOUS
<1>1. IInv
  BY NewIsUsed DEF Init, StackInit, VectorInit, Call, IInv
<1>2. L!Init
  BY DEF Init, StackInit, VectorInit, NewBuffer, Content, Call, L!Init, L!Call
<1>3. QED
  BY <1>1, <1>2

LEMMA SourceElement ==
  ASSUME IInv, NEW src \in Source
  PROVE  /\ Element(src) \in Data
         /\ src.of \in {"client", "stack", "vector"}
         /\ src.of = "vector" => src.at \in Indices /\ Element(src) = vec.cell[src.at]
<1>1. CASE src \in [of : {"client"}, at : Data]
  BY <1>1 DEF Element
<1>2. CASE src \in [of : {"stack"}, at : {i \in {stk.length - 1} : stk.length > 0}]
  <2>1. src.of = "stack" /\ src.at \in 0..stk.length-1
    BY <1>2, BufferTypes DEF IInv, IsUsed
  <2>2. QED
    BY <2>1 DEF Element, IInv, IsUsed
<1>3. CASE src \in [of : {"vector"}, at : Indices]
  <2>1. src.of = "vector" /\ src.at \in Indices
    BY <1>3
  <2>2. QED
    BY <2>1 DEF Element, Indices, IInv, IsUsed
<1>4. QED
  BY <1>1, <1>2, <1>3 DEF Source

(* Under the client's precautions the insertions read what it passed.      *)
LEMMA StackReads ==
  ASSUME IInv, NEW src \in Source, SafeForStack(src)
  PROVE  ReadByStack(src) = {Element(src)}
BY DEF ReadByStack, SafeForStack

LEMMA VectorReads ==
  ASSUME IInv, NEW src \in Source, NEW index \in Nat, SafeForVector(index, src)
  PROVE  ReadByVector(index, src) = {Element(src)}
<1>1. CASE src.of # "vector"
  BY <1>1 DEF ReadByVector
<1>2. CASE src.of = "vector"
  <2>1. ~IsFull(vec) /\ src.at <= index /\ src.at \in Nat
        /\ Element(src) = vec.cell[src.at]
    BY <1>2, SourceElement, BufferTypes DEF SafeForVector, Indices, IInv, IsUsed
  <2>2. ReadByVector(index, src)
          = {vec.cell[IF index < src.at THEN src.at - 1 ELSE src.at]}
    BY <1>2, <2>1 DEF ReadByVector
  <2>3. QED
    BY <2>1, <2>2
<1>3. QED
  BY <1>1, <1>2

-----------------------------------------------------------------------------
(* The calls with a data pointer.                                          *)
LEMMA StepPushStack ==
  ASSUME IInv, NEW src \in Source, SafeForStack(src), PushStack(src)
  PROVE  IInv' /\ L!Next
<1> DEFINE e == Element(src)
<1>1. e \in Data
  BY SourceElement
<1> HIDE DEF e
<1>2. CASE \E d \in ReadByStack(src) :
             StackInsert(d) /\ out' = Call({}, Element(src), d) /\ UNCHANGED vec
  <2>1. StackInsert(e) /\ out' = Call({}, e, e) /\ UNCHANGED vec
    BY <1>2, StackReads DEF e
  <2>2. PICK s : HasRoom(stk, s) /\ stk' = Inserted(s, s.length, e)
    BY <2>1 DEF StackInsert
  <2>3. IsUsed(stk') /\ Content(stk') = Append(Content(stk), e)
    BY <1>1, <2>2, InsertAppends DEF IInv
  <2>4. IInv'
    BY <1>1, <2>1, <2>3 DEF IInv, Call, Cell
  <2>5. L!Push(e)
    BY <2>1, <2>3 DEF L!Push, L!Call, Call
  <2>6. QED
    BY <1>1, <2>4, <2>5 DEF L!Next
<1>3. CASE StackRefuses /\ out' = Call({}, Element(src), NULL) /\ UNCHANGED vec
  <2>1. out' = Call({}, e, NULL) /\ UNCHANGED <<stk, vec>>
    BY <1>3 DEF StackRefuses, e
  <2>2. IInv'
    BY <1>1, <2>1 DEF IInv, Call, Cell
  <2>3. L!Refuse({}, e)
    BY <2>1 DEF L!Refuse, L!Call, Call
  <2>4. QED
    BY <1>1, <2>2, <2>3 DEF L!Next
<1>4. QED
  BY <1>2, <1>3 DEF PushStack

LEMMA StepPushVector ==
  ASSUME IInv, NEW src \in Source, NEW index \in {0, vec.length},
         SafeForVector(index, src), PushVector(index, src)
  PROVE  IInv' /\ L!Next
<1> DEFINE e == Element(src)
<1>0. /\ index \in Nat /\ Content(vec) \in Seq(Data)
      /\ Len(Content(vec)) = vec.length
  BY ContentIsSeq, BufferTypes DEF IInv, IsUsed
<1>1. e \in Data
  BY SourceElement
<1> HIDE DEF e
<1>2. CASE \E d \in ReadByVector(index, src) :
             VectorInsert(index, d) /\ UNCHANGED stk
               /\ out' = Call({index}, Element(src), d)
  <2>1. VectorInsert(index, e) /\ UNCHANGED stk /\ out' = Call({index}, e, e)
    BY <1>0, <1>2, VectorReads DEF e
  <2>2. PICK v : HasRoom(vec, v) /\ vec' = Inserted(v, index, e)
    BY <2>1 DEF VectorInsert
  <2>3. v.length = vec.length
    BY <2>2, RoomIsTheSame DEF IInv
  <2>4. CASE index = 0
    <3>1. IsUsed(vec') /\ Content(vec') = <<e>> \o Content(vec)
      BY <1>1, <2>2, <2>4, InsertPrepends DEF IInv
    <3>2. IInv'
      BY <1>0, <1>1, <2>1, <3>1 DEF IInv, Call, Cell
    <3>3. L!PushFront(e)
      BY <2>1, <2>4, <3>1 DEF L!PushFront, L!Call, Call
    <3>4. QED
      BY <1>1, <3>2, <3>3 DEF L!Next
  <2>5. CASE index = vec.length
    <3>1. IsUsed(vec') /\ Content(vec') = Append(Content(vec), e)
      BY <1>1, <2>2, <2>3, <2>5, InsertAppends DEF IInv
    <3>2. IInv'
      BY <1>0, <1>1, <2>1, <3>1 DEF IInv, Call, Cell
    <3>3. L!PushBack(e)
      BY <1>0, <2>1, <2>5, <3>1 DEF L!PushBack, L!Call, Call
    <3>4. QED
      BY <1>1, <3>2, <3>3 DEF L!Next
  <2>6. QED
    BY <2>4, <2>5
<1>3. CASE VectorRefuses /\ UNCHANGED stk /\ out' = Call({index}, Element(src), NULL)
  <2>1. out' = Call({index}, e, NULL) /\ UNCHANGED <<stk, vec>>
    BY <1>3 DEF VectorRefuses, e
  <2>2. IInv'
    BY <1>0, <1>1, <2>1 DEF IInv, Call, Cell
  <2>3. L!Refuse({index}, e) /\ {index} \in {{}, {0}, {Len(Content(vec))}}
    BY <1>0, <2>1 DEF L!Refuse, L!Call, Call
  <2>4. QED
    BY <1>1, <2>2, <2>3 DEF L!Next
<1>4. QED
  BY <1>2, <1>3 DEF PushVector

-----------------------------------------------------------------------------
(* The calls without one.                                                  *)
LEMMA UsedFacts ==
  ASSUME IInv
  PROVE  /\ stk.length \in Nat /\ Content(stk) \in Seq(Data)
         /\ Len(Content(stk)) = stk.length
         /\ vec.length \in Nat /\ Content(vec) \in Seq(Data)
         /\ Len(Content(vec)) = vec.length
         /\ Indices \subseteq Nat /\ Indices = L!Indices
         /\ \A i \in Indices : /\ i + 1 \in 1..vec.length /\ i < vec.length
                               /\ vec.cell[i] \in Data
                               /\ Content(vec)[i + 1] = vec.cell[i]
<1>1. IsUsed(stk) /\ IsUsed(vec)
  BY DEF IInv
<1>2. stk.length \in Nat /\ vec.length \in Nat
  BY <1>1, BufferTypes DEF IsUsed
<1>3. /\ Content(stk) \in Seq(Data) /\ Len(Content(stk)) = stk.length
      /\ Content(vec) \in Seq(Data) /\ Len(Content(vec)) = vec.length
      /\ \A i \in 1..vec.length : Content(vec)[i] = vec.cell[i - 1]
  BY <1>1, ContentIsSeq
<1>4. Indices \subseteq Nat /\ Indices = L!Indices
  BY <1>2, <1>3 DEF Indices, L!Indices
<1>5. ASSUME NEW i \in Indices
      PROVE  /\ i + 1 \in 1..vec.length /\ i < vec.length
             /\ vec.cell[i] \in Data
             /\ Content(vec)[i + 1] = vec.cell[i]
  <2>1. i + 1 \in 1..vec.length /\ (i + 1) - 1 = i /\ i < vec.length
    BY <1>2 DEF Indices
  <2>2. QED
    BY <1>1, <1>3, <2>1 DEF IsUsed, Indices
<1>6. QED
  BY <1>2, <1>3, <1>4, <1>5

(* Taking elements from the top keeps the others.                          *)
LEMMA Shortened ==
  ASSUME NEW b, IsUsed(b), NEW n \in 0..b.length,
         NEW r, r = [length |-> n, capacity |-> b.capacity, cell |-> b.cell]
  PROVE  IsUsed(r) /\ Content(r) = [i \in 1..n |-> b.cell[i - 1]]
<1> DEFINE c == b.capacity
           f == b.cell
<1>1. /\ c \in 1..HeapLimit /\ n \in Nat /\ n <= c /\ f \in [0..c-1 -> Cell]
      /\ \A i \in 0..n-1 : f[i] \in Data
  BY BufferTypes DEF IsUsed
<1>2. r = [length |-> n, capacity |-> c, cell |-> f]
  OBVIOUS
<1> HIDE DEF c, f
<1>3. IsUsed(r) /\ r.length = n /\ r.cell = f
  BY <1>1, <1>2, UsedByFields
<1>4. QED
  BY <1>3 DEF f, Content

LEMMA StepStack ==
  ASSUME IInv, StackPop \/ StackClear \/ StackTop
  PROVE  IInv' /\ L!Next
<1> DEFINE n == stk.length
           s == Content(stk)
<1>1. /\ IsUsed(stk) /\ n \in Nat /\ s \in Seq(Data) /\ Len(s) = n
      /\ \A i \in 1..n : s[i] = stk.cell[i - 1]
  BY UsedFacts, ContentIsSeq DEF IInv
<1>2. CASE StackPop
  <2> DEFINE m == n - 1
  <2>1. n >= 1 /\ UNCHANGED <<vec, out>>
        /\ stk' = [length |-> m, capacity |-> stk.capacity, cell |-> stk.cell]
    BY <1>1, <1>2 DEF StackPop, StackRemove, IsUsed
  <2>2. IsUsed(stk') /\ Content(stk') = [i \in 1..n-1 |-> stk.cell[i - 1]]
    <3>1. m \in 0..n
      BY <1>1, <2>1
    <3> HIDE DEF m
    <3>2. IsUsed(stk') /\ Content(stk') = [i \in 1..m |-> stk.cell[i - 1]]
      BY <1>1, <2>1, <3>1, Shortened
    <3>3. QED
      BY <3>2 DEF m
  <2>3. IInv'
    BY <2>1, <2>2 DEF IInv
  <2>4. Content(stk') = [i \in 1..n-1 |-> s[i]]
    BY <1>1, <2>2
  <2>5. s # << >> /\ L!Front(s) = [i \in 1..n-1 |-> s[i]]
    BY <1>1, <2>1, SubSeqDef DEF L!Front
  <2>6. L!Pop
    BY <2>1, <2>4, <2>5 DEF L!Pop
  <2>7. QED
    BY <2>3, <2>6 DEF L!Next
<1>3. CASE StackClear
  <2> DEFINE m == n - n
  <2>1. /\ UNCHANGED <<vec, out>>
        /\ stk' = [length |-> m, capacity |-> stk.capacity, cell |-> stk.cell]
    BY <1>1, <1>3 DEF StackClear, StackRemove, IsUsed
  <2>2. IsUsed(stk') /\ Content(stk') = [i \in 1..n-n |-> stk.cell[i - 1]]
    <3>1. m \in 0..n
      BY <1>1
    <3> HIDE DEF m
    <3>2. IsUsed(stk') /\ Content(stk') = [i \in 1..m |-> stk.cell[i - 1]]
      BY <1>1, <2>1, <3>1, Shortened
    <3>3. QED
      BY <3>2 DEF m
  <2>3. IInv'
    BY <2>1, <2>2 DEF IInv
  <2>4. Content(stk') = << >>
    BY <1>1, <2>2
  <2>5. L!ClearStack
    BY <2>1, <2>4 DEF L!ClearStack
  <2>6. QED
    BY <2>3, <2>5 DEF L!Next
<1>4. CASE StackTop
  <2> DEFINE t == StackHead
  <2>1. out' = Call({}, NULL, t) /\ UNCHANGED <<stk, vec>>
    BY <1>4 DEF StackTop
  <2>2. t = IF s = << >> THEN NULL ELSE L!Last(s)
    <3>1. CASE n = 0
      BY <1>1, <3>1 DEF StackHead
    <3>2. CASE n > 0
      BY <1>1, <3>2 DEF StackHead, L!Last
    <3>3. QED
      BY <1>1, <3>1, <3>2
  <2>3. t \in Cell \cup {NULL}
    <3>1. CASE n = 0
      BY <3>1 DEF StackHead
    <3>2. CASE n > 0
      <4>1. n - 1 \in 0..n-1
        BY <1>1, <3>2
      <4>2. QED
        BY <1>1, <3>2, <4>1 DEF StackHead, IsUsed, Cell
    <3>3. QED
      BY <1>1, <3>1, <3>2
  <2> HIDE DEF t
  <2>4. IInv'
    BY <2>1, <2>3 DEF IInv, Call
  <2>5. L!Top
    BY <2>1, <2>2 DEF L!Top, L!Call, Call
  <2>6. QED
    BY <2>4, <2>5 DEF L!Next
<1>5. QED
  BY <1>2, <1>3, <1>4

(* A removal closes the gap.                                               *)
LEMMA StepRemove ==
  ASSUME IInv, NEW i \in Indices, Remove(i)
  PROVE  IInv' /\ L!Next
<1> DEFINE n == vec.length
           v == Content(vec)
           f == [k \in 0..vec.capacity-1 |->
                   IF i <= k /\ k < n - 1 THEN vec.cell[k+1] ELSE vec.cell[k]]
<1>1. /\ IsUsed(vec) /\ n \in Nat /\ v \in Seq(Data) /\ Len(v) = n
      /\ \A k \in 1..n : v[k] = vec.cell[k - 1]
      /\ i \in Nat /\ i + 1 \in 1..n /\ i \in L!Indices
  BY UsedFacts, ContentIsSeq DEF IInv
<1>2. /\ i + 1 < n /\ UNCHANGED stk /\ out' = Call({i}, NULL, NULL)
      /\ vec' = [length |-> n - 1, capacity |-> vec.capacity, cell |-> f]
  BY DEF Remove, VectorRemove
<1>4. /\ vec.capacity \in Nat /\ n <= vec.capacity
      /\ vec.cell \in [0..vec.capacity-1 -> Cell]
      /\ \A k \in 0..n-1 : vec.cell[k] \in Data
  BY <1>1, BufferTypes DEF IsUsed
<1>5. f \in [0..vec.capacity-1 -> Cell]
  <2>1. \A k \in 0..vec.capacity-1 : i <= k /\ k < n - 1 => k + 1 \in 0..vec.capacity-1
    BY <1>1, <1>4
  <2>2. \A k \in 0..vec.capacity-1 :
          (IF i <= k /\ k < n - 1 THEN vec.cell[k+1] ELSE vec.cell[k]) \in Cell
    BY <1>4, <2>1
  <2>3. QED
    BY <2>2
<1>6. \A k \in 0..n-2 : f[k] = IF i <= k THEN vec.cell[k + 1] ELSE vec.cell[k]
  BY <1>1, <1>4
<1> HIDE DEF f
<1>7. \A k \in 0..n-2 : f[k] \in Data
  <2>1. \A k \in 0..n-2 : k \in 0..n-1 /\ k + 1 \in 0..n-1
    BY <1>1
  <2>2. QED
    BY <1>4, <1>6, <2>1
<1>8. vec.capacity \in 1..HeapLimit
  BY <1>1, BufferTypes DEF IsUsed
<1>9. n - 1 \in Nat /\ n - 1 <= vec.capacity /\ n - 2 = (n - 1) - 1
  BY <1>1, <1>4
<1>10. IsUsed(vec') /\ Content(vec') = [k \in 1..n-1 |-> f[k - 1]]
  <2> DEFINE m == n - 1
             c == vec.capacity
  <2>1. /\ m \in Nat /\ c \in 1..HeapLimit /\ m <= c /\ f \in [0..c-1 -> Cell]
        /\ \A k \in 0..m-1 : f[k] \in Data
        /\ vec' = [length |-> m, capacity |-> c, cell |-> f]
    BY <1>2, <1>5, <1>7, <1>8, <1>9
  <2> HIDE DEF m, c
  <2>2. IsUsed(vec') /\ vec'.length = m /\ vec'.cell = f
    BY <2>1, UsedByFields
  <2>3. QED
    BY <2>2 DEF m, Content
<1>11. IInv'
  BY <1>1, <1>2, <1>10 DEF IInv, Call
<1>12. L!RemoveAt(v, i + 1)
         = [k \in 1..n-1 |-> IF k < i + 1 THEN v[k] ELSE v[k + 1]]
  <2>1. SubSeq(v, 1, (i + 1) - 1) \o SubSeq(v, (i + 1) + 1, n)
          = [k \in 1..n-1 |-> IF k < i + 1 THEN v[k] ELSE v[k + 1]]
    BY <1>1, CutDef
  <2>2. QED
    BY <1>1, <2>1 DEF L!RemoveAt
<1>13. \A k \in 1..n-1 : f[k - 1] = IF k < i + 1 THEN v[k] ELSE v[k + 1]
  <2> SUFFICES ASSUME NEW k \in 1..n-1
               PROVE  f[k - 1] = IF k < i + 1 THEN v[k] ELSE v[k + 1]
    OBVIOUS
  <2>1. /\ k \in 1..n /\ k + 1 \in 1..n /\ k - 1 \in 0..n-2
        /\ (k - 1) + 1 = k /\ (k + 1) - 1 = k
    BY <1>1
  <2>2. v[k] = vec.cell[k - 1] /\ v[k + 1] = vec.cell[k]
    BY <1>1, <2>1
  <2>3. f[k - 1] = IF i <= k - 1 THEN vec.cell[k] ELSE vec.cell[k - 1]
    BY <1>6, <2>1
  <2>4. QED
    BY <1>1, <2>2, <2>3
<1>14. L!RemoveFrom(i)
  <2>1. i + 1 # Len(v)
    BY <1>1, <1>2
  <2>2. QED
    BY <1>2, <1>10, <1>12, <1>13, <2>1 DEF L!RemoveFrom, L!Call, Call
<1>15. QED
  BY <1>1, <1>11, <1>14 DEF L!Next

LEMMA StepIgnored ==
  ASSUME IInv, NEW i, NEW count, RemoveIgnored(i, count),
         i = 0 \/ (i \in Indices /\ count = 1)
  PROVE  IInv' /\ L!Next
<1>1. /\ i + count >= vec.length /\ UNCHANGED <<stk, vec>>
      /\ out' = Call({i}, NULL, NULL)
  BY DEF RemoveIgnored, VectorIgnores
<1>2. i = 0 \/ i = Len(Content(vec)) - 1
  BY <1>1, UsedFacts
<1>3. i \in Nat
  BY UsedFacts
<1>4. IInv'
  BY <1>1, <1>3 DEF IInv, Call
<1>5. L!Ignore(i)
  BY <1>1 DEF L!Ignore, L!Call, Call
<1>6. QED
  BY <1>2, <1>4, <1>5 DEF L!Next

(* Writing an element in use writes the same one of the list.              *)
LEMMA Written ==
  ASSUME NEW b, IsUsed(b), NEW i \in 0..b.length-1, NEW d \in Data,
         NEW r, r = [length |-> b.length, capacity |-> b.capacity,
                     cell |-> [b.cell EXCEPT ![i] = d]]
  PROVE  /\ IsUsed(r) /\ r.length = b.length
         /\ Content(r) = [Content(b) EXCEPT ![i + 1] = d]
<1>1. /\ b.length \in Nat /\ b.capacity \in Nat /\ b.length <= b.capacity
      /\ b.cell \in [0..b.capacity-1 -> Cell] /\ i \in Nat
      /\ \A k \in 0..b.length-1 : b.cell[k] \in Data
  BY BufferTypes DEF IsUsed
<1> DEFINE f == [b.cell EXCEPT ![i] = d]
<1>2. r = [length |-> b.length, capacity |-> b.capacity, cell |-> f]
  OBVIOUS
<1>3. f \in [0..b.capacity-1 -> Cell]
  BY <1>1 DEF Cell
<1>4. \A k \in 0..b.length-1 : f[k] = IF k = i THEN d ELSE b.cell[k]
  BY <1>1
<1> HIDE DEF f
<1>5. b.capacity \in 1..HeapLimit /\ \A k \in 0..b.length-1 : f[k] \in Data
  BY <1>1, <1>4, BufferTypes DEF IsUsed
<1>6. /\ IsUsed(r) /\ r.length = b.length
      /\ Content(r) = [k \in 1..b.length |-> f[k - 1]]
  <2>1. IsUsed(r) /\ r.length = b.length /\ r.cell = f
    <3> DEFINE n == b.length
               c == b.capacity
    <3>1. /\ n \in Nat /\ c \in 1..HeapLimit /\ n <= c /\ f \in [0..c-1 -> Cell]
          /\ \A k \in 0..n-1 : f[k] \in Data
      BY <1>1, <1>3, <1>5
    <3>2. r = [length |-> n, capacity |-> c, cell |-> f]
      BY <1>2
    <3> HIDE DEF n, c
    <3> DEFINE e == [length |-> n, capacity |-> c, cell |-> f]
    <3>3. e = [length |-> n, capacity |-> c, cell |-> f]
      OBVIOUS
    <3> HIDE DEF e
    <3>4. IsUsed(e) /\ e.length = n /\ e.cell = f
      BY <3>1, <3>3, UsedByFields
    <3>5. r = e
      BY <3>2, <3>3
    <3>6. QED
      BY <3>4, <3>5 DEF n
  <2>2. Content(r) = [k \in 1..r.length |-> r.cell[k - 1]]
    BY DEF Content
  <2>3. QED
    BY <2>1, <2>2
<1>7. [Content(b) EXCEPT ![i + 1] = d]
        = [k \in 1..b.length |-> IF k = i + 1 THEN d ELSE b.cell[k - 1]]
  BY <1>1 DEF Content
<1>8. \A k \in 1..b.length : f[k - 1] = IF k = i + 1 THEN d ELSE b.cell[k - 1]
  <2>1. \A k \in 1..b.length : k - 1 \in 0..b.length-1 /\ (k - 1 = i <=> k = i + 1)
    BY <1>1
  <2>2. QED
    BY <1>4, <2>1
<1>9. QED
  <2>1. [k \in 1..b.length |-> f[k - 1]]
          = [k \in 1..b.length |-> IF k = i + 1 THEN d ELSE b.cell[k - 1]]
    BY <1>8
  <2>2. QED
    BY <1>6, <1>7, <2>1

LEMMA StepSet ==
  ASSUME IInv, NEW i \in Indices, NEW src \in Source, Set(i, src)
  PROVE  IInv' /\ L!Next
<1> DEFINE e == Element(src)
<1>1. e \in Data /\ i \in Nat /\ i \in L!Indices
  BY SourceElement, UsedFacts
<1>2. /\ vec' = [length |-> vec.length, capacity |-> vec.capacity,
                  cell |-> [vec.cell EXCEPT ![i] = e]]
      /\ out' = Call({i}, e, e) /\ UNCHANGED stk
  BY DEF Set, VectorSet, IInv, IsUsed
<1> HIDE DEF e
<1>3. IsUsed(vec') /\ Content(vec') = [Content(vec) EXCEPT ![i + 1] = e]
  BY <1>1, <1>2, Written DEF IInv, Indices
<1>4. IInv'
  BY <1>1, <1>2, <1>3 DEF IInv, Call, Cell
<1>5. L!Set(i, e)
  BY <1>2, <1>3 DEF L!Set, L!Call, Call
<1>6. QED
  BY <1>1, <1>4, <1>5 DEF L!Next

LEMMA StepSwap ==
  ASSUME IInv, NEW i \in Indices, NEW j \in Indices, Swap(i, j)
  PROVE  IInv' /\ L!Next
<1> DEFINE a == vec.cell[i]
           b == vec.cell[j]
           w == [length |-> vec.length, capacity |-> vec.capacity,
                 cell |-> [vec.cell EXCEPT ![i] = b]]
<1>0. IsUsed(vec)
  BY DEF IInv
<1>1. /\ a \in Data /\ b \in Data /\ i \in Nat /\ j \in Nat
      /\ i \in L!Indices /\ j \in L!Indices
      /\ Content(vec)[i + 1] = a /\ Content(vec)[j + 1] = b
  BY UsedFacts
<1>2. out' = Call({i, j}, NULL, NULL) /\ UNCHANGED stk
  BY DEF Swap
<1>3. \/ vec' = [vec EXCEPT !.cell[i] = b, !.cell[j] = a]
      \/ UNCHANGED vec
  BY DEF Swap, VectorSwap
<1> HIDE DEF a, b
<1>4. CASE vec' = [vec EXCEPT !.cell[i] = b, !.cell[j] = a]
  <2>1. /\ IsUsed(w) /\ w.length = vec.length
        /\ Content(w) = [Content(vec) EXCEPT ![i + 1] = b]
    BY <1>0, <1>1, Written DEF Indices
  <2>2. vec' = [length |-> w.length, capacity |-> w.capacity,
                cell |-> [w.cell EXCEPT ![j] = a]]
    BY <1>0, <1>4 DEF IsUsed
  <2> HIDE DEF w
  <2>3. j \in 0..w.length-1
    BY <2>1 DEF Indices
  <2>4. IsUsed(vec') /\ Content(vec') = [Content(w) EXCEPT ![j + 1] = a]
    <3>1. PICK x : x = w
      OBVIOUS
    <3>2. PICK d : d = a
      OBVIOUS
    <3>3. /\ vec' = [length |-> x.length, capacity |-> x.capacity,
                   cell |-> [x.cell EXCEPT ![j] = d]]
          /\ IsUsed(x) /\ d \in Data
      BY <1>1, <2>1, <2>2, <3>1, <3>2
    <3>4. j \in 0..x.length-1
      BY <2>3, <3>1
    <3>5. IsUsed(vec') /\ Content(vec') = [Content(x) EXCEPT ![j + 1] = d]
      BY <3>3, <3>4, Written
    <3>6. QED
      BY <3>1, <3>2, <3>5
  <2>5. Content(vec') = [Content(vec) EXCEPT ![i + 1] = b, ![j + 1] = a]
    BY <2>1, <2>4
  <2>6. IInv'
    BY <1>1, <1>2, <2>4 DEF IInv, Call
  <2>7. L!Swap(i, j)
    BY <1>1, <1>2, <2>5 DEF L!Swap, L!Call, Call
  <2>8. QED
    BY <1>1, <2>6, <2>7 DEF L!Next
<1>5. CASE UNCHANGED vec
  <2>1. IInv'
    BY <1>1, <1>2, <1>5 DEF IInv, Call
  <2>2. L!Swap(i, j)
    BY <1>2, <1>5 DEF L!Swap, L!Call, Call
  <2>3. QED
    BY <1>1, <2>1, <2>2 DEF L!Next
<1>6. QED
  BY <1>3, <1>4, <1>5

LEMMA StepGet ==
  ASSUME IInv, NEW i \in 0..vec.length, Get(i)
  PROVE  IInv' /\ L!Next
<1> DEFINE t == VectorGet(i)
<1>1. out' = Call({i}, NULL, t) /\ UNCHANGED <<stk, vec>>
  BY DEF Get
<1>2. vec.length \in Nat /\ Len(Content(vec)) = vec.length /\ i \in Nat
  BY UsedFacts
<1>3. /\ t = IF i < Len(Content(vec)) THEN Content(vec)[i + 1] ELSE NULL
      /\ t \in Cell \cup {NULL}
  <2>1. CASE i < vec.length
    <3>1. i \in Indices
      BY <1>2, <2>1 DEF Indices
    <3>2. QED
      BY <1>2, <2>1, <3>1, UsedFacts DEF VectorGet, Cell
  <2>2. CASE ~(i < vec.length)
    BY <1>2, <2>2 DEF VectorGet
  <2>3. QED
    BY <2>1, <2>2
<1> HIDE DEF t
<1>4. IInv'
  BY <1>1, <1>2, <1>3 DEF IInv, Call
<1>5. L!Get(i)
  BY <1>1, <1>3 DEF L!Get, L!Call, Call
<1>6. i \in 0..Len(Content(vec))
  BY <1>2
<1>7. QED
  BY <1>4, <1>5, <1>6 DEF L!Next

LEMMA StepHolds ==
  ASSUME IInv, [CarefulNext]_vars
  PROVE  IInv' /\ [L!Next]_<<Content(stk), Content(vec), out>>
<1>0. vec.length \in {0, vec.length} /\ 0 \in {0, vec.length}
  OBVIOUS
<1>1. ASSUME NEW src \in Source,
             \/ SafeForStack(src) /\ PushStack(src)
             \/ SafeForVector(vec.length, src) /\ PushBack(src)
             \/ SafeForVector(0, src) /\ PushFront(src)
      PROVE  IInv' /\ L!Next
  BY <1>0, <1>1, StepPushStack, StepPushVector DEF PushBack, PushFront
<1>2. ASSUME Rest PROVE IInv' /\ L!Next
  <2>1. CASE StackPop \/ StackClear \/ StackTop
    BY <2>1, StepStack
  <2>2. ASSUME NEW i \in Indices,
               \/ Remove(i) \/ RemoveIgnored(i, 1)
               \/ \E j \in Indices : Swap(i, j)
               \/ \E src \in Source : Set(i, src)
        PROVE  IInv' /\ L!Next
    BY <2>2, StepRemove, StepIgnored, StepSwap, StepSet
  <2>3. CASE ClearVector
    BY <2>3, StepIgnored DEF ClearVector
  <2>4. CASE \E i \in 0..vec.length : Get(i)
    BY <2>4, StepGet
  <2>5. QED
    BY <1>2, <2>1, <2>2, <2>3, <2>4 DEF Rest
<1>3. CASE UNCHANGED vars
  <2>1. IInv'
    BY <1>3 DEF vars, IInv
  <2>2. QED
    BY <1>3, <2>1 DEF vars, Content
<1>4. QED
  BY <1>1, <1>2, <1>3 DEF CarefulNext

-----------------------------------------------------------------------------
(* TypeOK, for the careful client.                                         *)
THEOREM ArraysTypeOK == CarefulSpec => []TypeOK
<1>1. IInv /\ [CarefulNext]_vars => IInv'
  BY StepHolds
<1>2. QED
  BY InitHolds, <1>1, InvImpliesType, PTL DEF CarefulSpec

(* AreLists: for such a client stack.c and vector.c implement the lists.   *)
THEOREM CarefulArraysAreLists == CarefulSpec => AreLists
<1>1. IInv /\ [CarefulNext]_vars
        => IInv' /\ [L!Next]_<<Content(stk), Content(vec), out>>
  BY StepHolds
<1>2. QED
  BY InitHolds, <1>1, PTL DEF CarefulSpec, AreLists, L!Spec, L!vars

-----------------------------------------------------------------------------
(* The free list.                                                          *)
(* The list never leaves its first capacity: at that capacity the length   *)
(* can only reach it with all bits set, and then insert fails before it    *)
(* looks at the length.                                                    *)
ListInv ==
  /\ ListTypeOK
  /\ list.capacity = DefaultCapacity
  /\ FirstFit
  /\ LengthWithinUsed

LEMMA CapacityIsNat == DefaultCapacity \in Nat \ {0} /\ DefaultCapacity \in 1..HeapLimit
BY GrowthAssumption

(* The first-fit search stays in the list and skips only slots in use.     *)
LEMMA NextFreeIsFirst ==
  ASSUME NEW c \in Nat, NEW i \in 0..c-1, NEW used \in SUBSET (0..c-1),
         0..i-1 \subseteq used
  PROVE  LET j == NextFreeFrom(i, used, c)
         IN  j \in 0..c-1 /\ 0..j-1 \subseteq used
<1> DEFINE free == (i..c-1) \ used
<1>1. CASE free = {}
  BY <1>1 DEF NextFreeFrom
<1>2. CASE free # {}
  <2>1. free \subseteq Nat
    OBVIOUS
  <2>2. Min(free) \in free /\ \A k \in free : Min(free) <= k
    <3> HIDE DEF free
    <3> QED BY <1>2, <2>1, LeastElement DEF Min
  <2>3. NextFreeFrom(i, used, c) = Min(free)
    BY <1>2 DEF NextFreeFrom
  <2> DEFINE n == Min(free)
  <2>4. n \in i..c-1 /\ i..n-1 \subseteq used
    <3> HIDE DEF n
    <3> QED BY <2>2 DEF n
  <2> HIDE DEF n
  <2>5. n \in 0..c-1 /\ 0..n-1 \subseteq used
    BY <2>4
  <2>6. QED
    BY <2>3, <2>5 DEF n
<1>3. QED
  BY <1>1, <1>2

LEMMA ListFacts ==
  ASSUME ListInv
  PROVE  /\ list.capacity \in Nat \ {0} /\ Slots = 0..list.capacity-1
         /\ list.length \in Nat /\ list.next_free \in Nat
         /\ IsFiniteSet(list.used) /\ Cardinality(list.used) \in Nat
         /\ IsFiniteSet(Slots) /\ Cardinality(Slots) = list.capacity
<1>1. list.capacity \in Nat \ {0} /\ Slots = 0..list.capacity-1
  BY CapacityIsNat DEF ListInv, Slots
<1>2. IsFiniteSet(Slots) /\ Cardinality(Slots) = list.capacity
  <2>1. /\ IsFiniteSet(0..list.capacity-1)
        /\ Cardinality(0..list.capacity-1) =
             IF 0 > list.capacity-1 THEN 0 ELSE list.capacity-1 - 0 + 1
    <3>1. 0 \in Int /\ list.capacity - 1 \in Int
      BY <1>1
    <3>2. QED
      BY <3>1, FS_Interval, Zenon
  <2>2. QED
    BY <1>1, <2>1
<1>3. IsFiniteSet(list.used)
  BY <1>2, FS_Subset DEF ListInv, ListTypeOK
<1>4. QED
  BY <1>1, <1>2, <1>3, FS_CardinalityType DEF ListInv, ListTypeOK

(* An insert that passes its first test finds room in the list as it is.   *)
LEMMA RoomForInsert ==
  ASSUME ListInv, list.next_free \notin list.used
  PROVE  list.length < list.capacity
<1>1. list.used \subseteq Slots /\ list.used # Slots
  BY DEF ListInv, ListTypeOK
<1>2. Cardinality(list.used) <= list.capacity /\ Cardinality(list.used) # list.capacity
  BY <1>1, ListFacts, FS_Subset
<1>3. QED
  BY <1>2, ListFacts DEF ListInv, LengthWithinUsed

-----------------------------------------------------------------------------
LEMMA ListInsertKeepsInv ==
  ASSUME ListInv, NEW d \in Data, ListInsert(d)
  PROVE  ListInv' /\ list'.capacity = list.capacity
<1> DEFINE used == list.used \cup {list.next_free}
           nf == NextFreeFrom(list.next_free, used, list.capacity)
           cell == [list.cell EXCEPT ![list.next_free] = d]
<1>1. list.length < list.capacity
  BY RoomForInsert DEF ListInsert
<1>2. list' = [length |-> list.length + 1, capacity |-> list.capacity,
               next_free |-> nf, used |-> used, cell |-> cell]
  <2>1. ~(list.length >= list.capacity)
    BY <1>1, ListFacts
  <2>2. list' = Stored(list, d)
    BY <2>1 DEF ListInsert
  <2>3. QED
    BY <2>2 DEF Stored
<1>3. used \subseteq Slots /\ 0..list.next_free-1 \subseteq used
  BY DEF ListInv, ListTypeOK, FirstFit
<1>4. nf \in Slots /\ 0..nf-1 \subseteq used
  <2>1. list.next_free \in 0..list.capacity-1
    BY DEF ListInv, ListTypeOK, Slots
  <2> HIDE DEF used
  <2>2. QED
    BY <1>3, <2>1, ListFacts, NextFreeIsFirst
<1>5. Cardinality(used) = Cardinality(list.used) + 1
  BY ListFacts, FS_AddElement DEF ListInsert
<1>6. cell \in [Slots -> Cell]
  BY DEF ListInv, ListTypeOK, Cell
<1>7. held' \subseteq Slots /\ slot' \in Nat \cup {NULL}
  BY ListFacts DEF ListInsert, ListInv, ListTypeOK
<1> HIDE DEF nf, cell, used
<1>8. Slots' = Slots
  BY <1>2 DEF Slots
<1>9. ListTypeOK'
  BY <1>1, <1>2, <1>3, <1>4, <1>6, <1>7, <1>8, ListFacts DEF ListInv, ListTypeOK
<1>10. FirstFit' /\ LengthWithinUsed'
  BY <1>2, <1>4, <1>5, ListFacts DEF ListInv, FirstFit, LengthWithinUsed
<1>11. QED
  BY <1>2, <1>9, <1>10 DEF ListInv

(* The only bit of the bitmap that remove(index) can clear lies at index   *)
(* or beyond.                                                              *)
LEMMA ClearedIsBeyond ==
  ASSUME NEW index \in Nat, NEW i \in ClearedSlots(list, index)
  PROVE  i = 9 * index /\ index <= i
BY DEF ClearedSlots

LEMMA ListRemoveKeepsInv ==
  ASSUME ListInv, NEW index \in Slots, ListRemove(index)
  PROVE  ListInv' /\ list'.capacity = list.capacity
<1> DEFINE used == list.used \ ClearedSlots(list, index)
           nf == CCMin(list.next_free, index)
<1>0. index \in Nat
  BY ListFacts
<1>1. PICK broken \in SUBSET ClobberedCells(list, index) :
        list' = [length |-> list.length - 1, capacity |-> list.capacity,
                 next_free |-> nf, used |-> used,
                 cell |-> [i \in Slots |-> IF i \in broken THEN Junk
                                                           ELSE list.cell[i]]]
  BY DEF ListRemove
<1> DEFINE cell == [i \in Slots |-> IF i \in broken THEN Junk ELSE list.cell[i]]
<1>2. cell \in [Slots -> Cell]
  BY DEF ListInv, ListTypeOK, Cell
<1>3. nf \in Slots /\ nf <= list.next_free /\ nf <= index
  BY <1>0, ListFacts DEF CCMin, ListInv, ListTypeOK
<1>4. 0..nf-1 \subseteq used
  BY <1>0, <1>3, ListFacts, ClearedIsBeyond DEF ListInv, FirstFit
<1>5. PICK x : ClearedSlots(list, index) \in {{}, {x}}
  BY DEF ClearedSlots
<1>6. Cardinality(used) \in Nat /\ Cardinality(list.used) - 1 <= Cardinality(used)
  <2>1. used = list.used \/ used = list.used \ {x}
    BY <1>5
  <2>2. /\ IsFiniteSet(list.used \ {x})
        /\ Cardinality(list.used \ {x}) =
             IF x \in list.used THEN Cardinality(list.used) - 1
                                ELSE Cardinality(list.used)
    BY ListFacts, FS_RemoveElement
  <2> HIDE DEF used
  <2>3. Cardinality(list.used \ {x}) \in Nat
    BY <2>2, FS_CardinalityType
  <2>4. /\ Cardinality(list.used) \in Nat
        /\ Cardinality(list.used) - 1 <= Cardinality(list.used \ {x})
    BY <2>2, <2>3, ListFacts
  <2>5. QED
    BY <2>1, <2>3, <2>4
<1>7. list.length - 1 \in 0..list.capacity
  BY <1>0, ListFacts DEF ListRemove, ListInv, ListTypeOK
<1> HIDE DEF nf, used, cell
<1>8. list' = [length |-> list.length - 1, capacity |-> list.capacity,
               next_free |-> nf, used |-> used, cell |-> cell]
  BY <1>1 DEF cell
<1>9. Slots' = Slots
  BY <1>8 DEF Slots
<1>10. used \subseteq Slots /\ held' \subseteq Slots /\ slot' \in Nat \cup {NULL}
  BY DEF ListRemove, ListInv, ListTypeOK, used
<1>11. ListTypeOK'
  BY <1>2, <1>3, <1>7, <1>8, <1>9, <1>10 DEF ListInv, ListTypeOK
<1>12. FirstFit' /\ LengthWithinUsed'
  BY <1>4, <1>6, <1>8, ListFacts DEF ListInv, FirstFit, LengthWithinUsed
<1>13. QED
  BY <1>8, <1>11, <1>12 DEF ListInv

LEMMA ListClearKeepsInv ==
  ASSUME ListInv, ListClear
  PROVE  ListInv' /\ list'.capacity = list.capacity
<1> DEFINE used == list.used \ (0..list.length-1)
<1>1. list' = [length |-> 0, capacity |-> list.capacity, next_free |-> 0,
               used |-> used, cell |-> list.cell]
  BY DEF ListClear
<1>2. Slots' = Slots
  BY <1>1 DEF Slots
<1>3. Cardinality(used) \in Nat
  BY ListFacts, FS_Difference, FS_CardinalityType
<1>4. ListTypeOK'
  BY <1>1, <1>2, ListFacts DEF ListClear, ListInv, ListTypeOK
<1>5. FirstFit' /\ LengthWithinUsed'
  BY <1>1, <1>3 DEF FirstFit, LengthWithinUsed
<1>6. QED
  BY <1>1, <1>4, <1>5 DEF ListInv

-----------------------------------------------------------------------------
LEMMA ListInitInv == ListInit => ListInv
<1> SUFFICES ASSUME ListInit PROVE ListInv
  OBVIOUS
<1>1. /\ list.capacity = DefaultCapacity /\ list.length = 0
      /\ list.next_free = 0 /\ list.used = {}
      /\ list.cell = [i \in 0..DefaultCapacity-1 |-> Zero]
  BY DEF ListInit, NewList
<1>2. ListTypeOK
  BY <1>1, CapacityIsNat DEF ListInit, ListTypeOK, Slots, Cell
<1>3. FirstFit /\ LengthWithinUsed
  BY <1>1, FS_EmptySet DEF FirstFit, LengthWithinUsed
<1>4. QED
  BY <1>1, <1>2, <1>3 DEF ListInv

LEMMA ListStepKeepsInv ==
  ASSUME ListInv, [ListNext]_listVars
  PROVE  ListInv' /\ list'.capacity = list.capacity
<1>1. ASSUME NEW d \in Data, ListInsert(d) PROVE ListInv' /\ list'.capacity = list.capacity
  BY <1>1, ListInsertKeepsInv
<1>2. ASSUME list' = list, held' = held, slot' \in Nat \cup {NULL}
      PROVE  ListInv' /\ list'.capacity = list.capacity
  BY <1>2 DEF ListInv, ListTypeOK, FirstFit, LengthWithinUsed, Slots
<1>3. CASE ListRefuses
  BY <1>2, <1>3 DEF ListRefuses
<1>4. ASSUME NEW i \in Slots, ListRemove(i)
      PROVE  ListInv' /\ list'.capacity = list.capacity
  BY <1>4, ListRemoveKeepsInv
<1>5. ASSUME NEW i \in Slots, ListGet(i)
      PROVE  ListInv' /\ list'.capacity = list.capacity
  <2>1. i \in Nat
    BY ListFacts
  <2>2. QED
    BY <1>2, <1>5, <2>1 DEF ListGet
<1>6. CASE ListClear
  BY <1>6, ListClearKeepsInv
<1>7. CASE UNCHANGED listVars
  BY <1>2, <1>7 DEF listVars, ListInv, ListTypeOK
<1>8. QED
  BY <1>1, <1>3, <1>4, <1>5, <1>6, <1>7 DEF ListNext

(* TypeOK, FirstFit and LengthWithinUsed, for every client.                *)
THEOREM FreeListCorrect == ListSpec => [](ListTypeOK /\ FirstFit /\ LengthWithinUsed)
<1>1. ListInv /\ [ListNext]_listVars => ListInv'
  BY ListStepKeepsInv
<1>2. ListInv => ListTypeOK /\ FirstFit /\ LengthWithinUsed
  BY DEF ListInv
<1>3. QED
  BY ListInitInv, <1>1, <1>2, PTL DEF ListSpec

(* NeverGrows: _free_list_resize is never reached.                         *)
THEOREM BufferIsNeverReplaced == ListSpec => NeverGrows
<1>1. ListInv /\ [ListNext]_listVars => ListInv' /\ [list'.capacity = list.capacity]_listVars
  BY ListStepKeepsInv
<1>2. QED
  BY ListInitInv, <1>1, PTL DEF ListSpec, NeverGrows

(* JamEndsAtSlotZero: a failing insert fails until slot 0 is freed.        *)
LEMMA JamStep ==
  ASSUME ListInv, [ListNext]_listVars, Jammed, ~Jammed'
  PROVE  0 \in list.used /\ 0 \notin list'.used
<1>1. \A i \in 0..list.next_free : i \in list.used
  BY ListFacts DEF Jammed, ListInv, FirstFit
<1>2. 0 \in list.used
  BY <1>1, ListFacts
<1>3. ASSUME NEW index \in Slots, ListRemove(index) PROVE 0 \notin list'.used
  <2> DEFINE nf == CCMin(list.next_free, index)
  <2>1. /\ list'.next_free = nf
        /\ list'.used = list.used \ ClearedSlots(list, index)
    BY <1>3 DEF ListRemove
  <2>2. index \in Nat /\ nf \in 0..list.next_free /\ nf <= index
    BY ListFacts DEF CCMin
  <2>3. nf \in ClearedSlots(list, index)
    BY <1>1, <2>1, <2>2 DEF Jammed
  <2>4. nf = 9 * index /\ nf = 0
    BY <2>2, <2>3, ClearedIsBeyond
  <2>5. QED
    BY <2>1, <2>3, <2>4
<1>4. ASSUME ListClear PROVE 0 \notin list'.used
  BY <1>4 DEF ListClear, Jammed
<1>5. \/ \E index \in Slots : ListRemove(index)
      \/ ListClear
  BY DEF ListNext, ListInsert, ListRefuses, ListGet, listVars, Jammed
<1>6. QED
  BY <1>2, <1>3, <1>4, <1>5

THEOREM OnlySlotZeroUnjams == ListSpec => JamEndsAtSlotZero
<1> DEFINE A == Jammed /\ ~Jammed' => 0 \in list.used /\ 0 \notin list'.used
<1>1. ListInv /\ [ListNext]_listVars => ListInv' /\ [A]_listVars
  BY ListStepKeepsInv, JamStep
<1>2. QED
  BY ListInitInv, <1>1, PTL DEF ListSpec, JamEndsAtSlotZero

-----------------------------------------------------------------------------
(* HeldIsUsed, for a bitmap that has no slot 9: no slot has two owners.    *)
LEMMA HeldStep ==
  ASSUME DefaultCapacity <= 9, ListInv, HeldIsUsed, [ListNext]_listVars
  PROVE  HeldIsUsed'
<1>1. ASSUME NEW d \in Data, ListInsert(d) PROVE HeldIsUsed'
  <2>1. ~(list.length >= list.capacity)
    BY <1>1, RoomForInsert, ListFacts DEF ListInsert
  <2>2. list' = Stored(list, d)
    BY <1>1, <2>1 DEF ListInsert
  <2>3. list'.used = list.used \cup {list.next_free}
    BY <2>2 DEF Stored
  <2>4. QED
    BY <1>1, <2>3 DEF ListInsert, HeldIsUsed
<1>2. ASSUME NEW index \in Slots, ListRemove(index) PROVE HeldIsUsed'
  <2>1. list'.used = list.used \ ClearedSlots(list, index)
    BY <1>2 DEF ListRemove
  <2>2. index \in Nat /\ list.used \subseteq 0..8
    <3>1. list.used \subseteq 0..list.capacity-1 /\ list.capacity <= 9
      BY ListFacts DEF ListInv, ListTypeOK
    <3>2. list.capacity \in Nat /\ index \in 0..list.capacity-1
      BY ListFacts
    <3>3. \A x \in 0..list.capacity-1 : x \in 0..8
      BY <3>1, <3>2
    <3>4. QED
      BY <3>1, <3>2, <3>3
  <2>3. ASSUME NEW i \in list.used, i \in ClearedSlots(list, index) PROVE i = index
    BY <2>2, <2>3, ClearedIsBeyond
  <2>4. QED
    BY <1>2, <2>1, <2>3 DEF ListRemove, HeldIsUsed
<1>3. CASE ListClear
  BY <1>3 DEF ListClear, HeldIsUsed
<1>4. CASE ListRefuses \/ (\E i \in Slots : ListGet(i)) \/ UNCHANGED listVars
  BY <1>4 DEF ListRefuses, ListGet, listVars, HeldIsUsed
<1>5. QED
  BY <1>1, <1>2, <1>3, <1>4 DEF ListNext

THEOREM NoSlotHasTwoOwners ==
  ASSUME DefaultCapacity <= 9
  PROVE  ListSpec => []HeldIsUsed
<1>1. ListInit => HeldIsUsed
  BY DEF ListInit, HeldIsUsed
<1>2. ListInv /\ HeldIsUsed /\ [ListNext]_listVars => ListInv' /\ HeldIsUsed'
  BY HeldStep, ListStepKeepsInv
<1>3. QED
  BY ListInitInv, <1>1, <1>2, PTL DEF ListSpec
=============================================================================
