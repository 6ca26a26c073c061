------------------------------- MODULE Lemmas -------------------------------
(***************************************************************************)
(* Induction on the natural numbers, with sets for the predicates, and what *)
(* it says of a recursive function; and the operations on sequences that   *)
(* the containers implement, written as functions on their indices.        *)
(***************************************************************************)
EXTENDS Integers, Sequences, SequenceTheorems, WellFoundedInduction, TLAPS

LEMMA LeastElement ==
  ASSUME NEW S \in SUBSET Nat, S # {}
  PROVE  \E n \in S : \A m \in S : n <= m
<1>1. PICK n \in S : \A m \in S : ~(<<m, n>> \in OpToRel(<, Nat))
  BY NatLessThanWellFounded, WFMin
<1>2. \A m \in S : ~(m < n)
  BY <1>1 DEF OpToRel
<1>3. QED
  BY <1>2

(* A set that has 0, and i whenever it has i - 1, has all of 0..n.         *)
LEMMA InductionUpTo ==
  ASSUME NEW n \in Nat, NEW P, 0 \in P,
         \A i \in 1..n : i - 1 \in P => i \in P
  PROVE  \A i \in 0..n : i \in P
<1> DEFINE S == {i \in 0..n : i \notin P}
<1> SUFFICES ASSUME S # {} PROVE FALSE
  OBVIOUS
<1>1. PICK m \in S : \A i \in S : m <= i
  <2>1. S \in SUBSET Nat
    OBVIOUS
  <2> HIDE DEF S
  <2>2. QED
    BY <2>1, LeastElement
<1>2. m \in 1..n
  BY <1>1
<1>3. m - 1 \in 0..n /\ ~(m <= m - 1)
  BY <1>2
<1>4. m - 1 \in P
  BY <1>1, <1>3
<1>5. QED
  BY <1>1, <1>2, <1>4

(* A function that is defined at i by what it is at i - 1 exists, and has  *)
(* its values in every set that its first value is in and its steps stay   *)
(* in.  The provers see f[i \in 0..n] == ... as a choice of such a function. *)
UnfoldsTo(f, n, S, a, g) ==
  /\ f \in [0..n -> S]
  /\ f[0] = a
  /\ \A i \in 1..n : f[i] = g[i][f[i-1]]

LEMMA Recursion ==
  ASSUME NEW n \in Nat, NEW S, NEW a \in S, NEW g \in [1..n -> [S -> S]]
  PROVE  \E f : UnfoldsTo(f, n, S, a, g)
<1> DEFINE Solves(m, f) == /\ f \in [0..m -> S]
                           /\ f[0] = a
                           /\ \A i \in 1..m : f[i] = g[i][f[i-1]]
           P == {m \in 0..n : \E f : Solves(m, f)}
<1>1. 0 \in P
  <2>1. Solves(0, [i \in 0..0 |-> a])
    OBVIOUS
  <2>2. \E f : Solves(0, f)
    BY <2>1
  <2> HIDE DEF Solves
  <2>3. QED
    BY <2>2
<1>2. ASSUME NEW m \in 1..n, m - 1 \in P PROVE m \in P
  <2>1. PICK f : Solves(m - 1, f)
    BY <1>2
  <2> DEFINE e == [i \in 0..m |-> IF i = m THEN g[m][f[m-1]] ELSE f[i]]
  <2>2. f[m-1] \in S /\ g[m] \in [S -> S] /\ m \in Nat
    BY <2>1
  <2>3. \A i \in 0..m : i # m => i \in 0..m-1
    OBVIOUS
  <2>4. e \in [0..m -> S]
    BY <2>1, <2>2, <2>3
  <2>5. e[0] = a
    BY <2>1
  <2>6. ASSUME NEW i \in 1..m PROVE e[i] = g[i][e[i-1]]
    <3>1. i - 1 \in 0..m /\ i - 1 # m /\ i \in 0..m
      OBVIOUS
    <3>2. e[i-1] = f[i-1]
      BY <3>1
    <3>3. CASE i = m
      BY <3>1, <3>2, <3>3
    <3>4. CASE i # m
      <4>1. i \in 1..m-1
        BY <3>4
      <4>2. QED
        BY <2>1, <3>1, <3>2, <3>4, <4>1
    <3>5. QED
      BY <3>3, <3>4
  <2> HIDE DEF e
  <2>7. Solves(m, e)
    BY <2>4, <2>5, <2>6
  <2>8. \E h : Solves(m, h)
    BY <2>7
  <2> HIDE DEF Solves
  <2>9. QED
    BY <2>8
<1>3. n \in P
  <2> HIDE DEF P
  <2>1. \A m \in 0..n : m \in P
    BY <1>1, <1>2, InductionUpTo
  <2>2. QED
    BY <2>1
<1>4. PICK f : Solves(n, f)
  BY <1>3
<1>5. UnfoldsTo(f, n, S, a, g)
  BY <1>4 DEF UnfoldsTo
<1>6. QED
  BY <1>5

-----------------------------------------------------------------------------

LEMMA AppendDef ==
  ASSUME NEW S, NEW s \in Seq(S), NEW n \in Nat, Len(s) = n, NEW d
  PROVE  Append(s, d) = [i \in 1..n+1 |-> IF i <= n THEN s[i] ELSE d]
<1> DEFINE a == Append(s, d)
<1>1. s \in Seq(S \cup {d})
  OBVIOUS
<1>2. /\ a \in Seq(S \cup {d}) /\ Len(a) = n + 1
      /\ \A i \in 1..n : a[i] = s[i]
      /\ a[n + 1] = d
  BY <1>1, AppendProperties
<1> HIDE DEF a
<1>3. a = [i \in 1..n+1 |-> a[i]]
  BY <1>2
<1>4. \A i \in 1..n+1 : a[i] = IF i <= n THEN s[i] ELSE d
  BY <1>2
<1>5. QED
  BY <1>3, <1>4 DEF a

LEMMA TailDef ==
  ASSUME NEW S, NEW s \in Seq(S), NEW n \in Nat, Len(s) = n, n >= 1
  PROVE  s # << >> /\ Tail(s) = [i \in 1..n-1 |-> s[i + 1]]
<1>1. s # << >>
  OBVIOUS
<1> DEFINE t == Tail(s)
<1>2. /\ t \in Seq(S) /\ Len(t) = n - 1
      /\ \A i \in 1..n-1 : t[i] = s[i + 1]
  BY <1>1, HeadTailProperties
<1> HIDE DEF t
<1>3. t = [i \in 1..n-1 |-> t[i]]
  BY <1>2
<1>4. QED
  BY <1>1, <1>2, <1>3 DEF t

LEMMA PrependDef ==
  ASSUME NEW S, NEW s \in Seq(S), NEW n \in Nat, Len(s) = n, NEW d
  PROVE  <<d>> \o s = [i \in 1..n+1 |-> IF i = 1 THEN d ELSE s[i - 1]]
<1> DEFINE T == S \cup {d}
           p == <<d>> \o s
<1>1. s \in Seq(T) /\ <<d>> \in Seq(T) /\ Len(<<d>>) = 1
  OBVIOUS
<1>2. /\ p \in Seq(T) /\ Len(p) = n + 1
      /\ \A i \in 1..n+1 : p[i] = IF i = 1 THEN d ELSE s[i - 1]
  <2>1. p \in Seq(T) /\ Len(p) = 1 + n
    BY <1>1, ConcatProperties
  <2>2. \A i \in 1..1+n : p[i] = IF i <= 1 THEN <<d>>[i] ELSE s[i - 1]
    BY <1>1, ConcatProperties
  <2>3. QED
    BY <2>1, <2>2
<1> HIDE DEF p
<1>3. p = [i \in 1..n+1 |-> p[i]]
  BY <1>2
<1>4. QED
  BY <1>2, <1>3 DEF p

(* SequencesExt's Front and RemoveAt, by their definitions.                *)
LEMMA SubSeqDef ==
  ASSUME NEW S, NEW s \in Seq(S), NEW n \in Nat, Len(s) = n, n >= 1
  PROVE  SubSeq(s, 1, n - 1) = [i \in 1..n-1 |-> s[i]]
OBVIOUS

LEMMA CutDef ==
  ASSUME NEW S, NEW s \in Seq(S), NEW n \in Nat, Len(s) = n, NEW k \in 1..n
  PROVE  SubSeq(s, 1, k - 1) \o SubSeq(s, k + 1, n)
           = [i \in 1..n-1 |-> IF i < k THEN s[i] ELSE s[i + 1]]
<1> DEFINE a == SubSeq(s, 1, k - 1)
           b == SubSeq(s, k + 1, n)
           r == a \o b
<1>1. /\ a \in Seq(S) /\ Len(a) = k - 1
      /\ \A i \in 1..k-1 : a[i] = s[i]
  OBVIOUS
<1>2. /\ b \in Seq(S) /\ Len(b) = n - k
      /\ \A i \in 1..n-k : b[i] = s[k + i]
  OBVIOUS
<1> HIDE DEF a, b
<1>3. /\ r \in Seq(S) /\ Len(r) = n - 1
      /\ \A i \in 1..n-1 : r[i] = IF i <= k - 1 THEN a[i] ELSE b[i - (k - 1)]
  <2>1. (k - 1) + (n - k) = n - 1 /\ n - k \in Nat /\ k - 1 \in Nat
    OBVIOUS
  <2>2. /\ r \in Seq(S) /\ Len(r) = Len(a) + Len(b)
        /\ \A i \in 1..Len(a)+Len(b) : r[i] = IF i <= Len(a) THEN a[i] ELSE b[i - Len(a)]
    BY <1>1, <1>2, ConcatProperties
  <2>3. Len(a) + Len(b) = n - 1
    BY <1>1, <1>2, <2>1
  <2>4. QED
    BY <1>1, <2>2, <2>3
<1> HIDE DEF r
<1>4. \A i \in 1..n-1 : r[i] = IF i < k THEN s[i] ELSE s[i + 1]
  <2> SUFFICES ASSUME NEW i \in 1..n-1
               PROVE  r[i] = IF i < k THEN s[i] ELSE s[i + 1]
    OBVIOUS
  <2>1. CASE i < k
    <3>1. i \in 1..k-1 /\ i <= k - 1
      BY <2>1
    <3>2. r[i] = a[i]
      BY <1>3, <3>1
    <3>3. QED
      BY <1>1, <2>1, <3>1, <3>2
  <2>2. CASE i >= k
    <3>1. i - (k - 1) \in 1..n-k /\ k + (i - (k - 1)) = i + 1
      BY <2>2
    <3>2. r[i] = b[i - (k - 1)]
      BY <1>3, <2>2
    <3>3. QED
      BY <1>2, <2>2, <3>1, <3>2
  <2>3. QED
    BY <2>1, <2>2
<1>5. r = [i \in 1..n-1 |-> r[i]]
  BY <1>3
<1>6. QED
  BY <1>4, <1>5 DEF a, b, r

(* SequencesExt's InsertAt.                                                *)
LEMMA InsertDef ==
  ASSUME NEW S, NEW s \in Seq(S), NEW n \in Nat, Len(s) = n, NEW k \in 1..n+1, NEW d
  PROVE  SubSeq(s, 1, k - 1) \o <<d>> \o SubSeq(s, k, n)
           = [i \in 1..n+1 |-> IF i < k THEN s[i] ELSE IF i = k THEN d ELSE s[i - 1]]
<1> DEFINE T == S \cup {d}
           a == SubSeq(s, 1, k - 1)
           b == SubSeq(s, k, n)
           c == a \o <<d>>
           r == c \o b
<1>0. s \in Seq(T) /\ <<d>> \in Seq(T) /\ Len(<<d>>) = 1 /\ <<d>>[1] = d
  OBVIOUS
<1>1. /\ a \in Seq(T) /\ Len(a) = k - 1
      /\ \A i \in 1..k-1 : a[i] = s[i]
  BY <1>0
<1>2. /\ b \in Seq(T) /\ Len(b) = n - k + 1
      /\ \A i \in 1..n-k+1 : b[i] = s[k + i - 1]
  BY <1>0
<1> HIDE DEF a, b, T
<1>3. /\ c \in Seq(T) /\ Len(c) = k
      /\ \A i \in 1..k : c[i] = IF i < k THEN s[i] ELSE d
  <2> DEFINE e == <<d>>
  <2>1. e \in Seq(T) /\ Len(e) = 1 /\ e[1] = d
    BY <1>0
  <2> HIDE DEF e
  <2>2. /\ a \o e \in Seq(T) /\ Len(a \o e) = Len(a) + Len(e)
        /\ \A i \in 1..Len(a)+Len(e) :
             (a \o e)[i] = IF i <= Len(a) THEN a[i] ELSE e[i - Len(a)]
    BY <1>1, <2>1, ConcatProperties
  <2>3. Len(a) + Len(e) = k
    BY <1>1, <2>1
  <2>4. \A i \in 1..k : (a \o e)[i] = IF i < k THEN s[i] ELSE d
    <3> TAKE i \in 1..k
    <3>1. CASE i < k
      BY <1>1, <2>2, <2>3, <3>1
    <3>2. CASE i = k
      <4>1. ~(i <= Len(a)) /\ i - Len(a) = 1
        BY <1>1, <3>2
      <4>2. QED
        BY <2>1, <2>2, <2>3, <3>2, <4>1
    <3>3. i < k \/ i = k
      OBVIOUS
    <3>4. QED
      BY <3>1, <3>2, <3>3
  <2>5. QED
    BY <2>2, <2>3, <2>4 DEF e
<1> HIDE DEF c
<1>4. /\ r \in Seq(T) /\ Len(r) = Len(c) + Len(b)
      /\ \A i \in 1..Len(c)+Len(b) : r[i] = IF i <= Len(c) THEN c[i] ELSE b[i - Len(c)]
  BY <1>2, <1>3, ConcatProperties
<1>5. Len(c) + Len(b) = n + 1
  BY <1>2, <1>3
<1> HIDE DEF r
<1>6. ASSUME NEW i \in 1..n+1
      PROVE  r[i] = IF i < k THEN s[i] ELSE IF i = k THEN d ELSE s[i - 1]
  <2>1. CASE i <= k
    BY <1>3, <1>4, <1>5, <2>1
  <2>2. CASE i > k
    <3>1. i - k \in 1..n-k+1 /\ k + (i - k) - 1 = i - 1
      BY <2>2
    <3>2. r[i] = b[i - k]
      BY <1>3, <1>4, <1>5, <2>2
    <3>3. QED
      BY <1>2, <2>2, <3>1, <3>2
  <2>3. QED
    BY <2>1, <2>2
<1>7. r = [i \in 1..n+1 |-> r[i]]
  BY <1>4, <1>5
<1>8. QED
  BY <1>6, <1>7 DEF a, b, c, r
=============================================================================
