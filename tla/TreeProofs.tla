----------------------------- MODULE TreeProofs -----------------------------
(***************************************************************************)
(* For every heap, set of keys and elements and client of tree.c, and      *)
(* wherever an allocation fails: the nodes it reaches are a tree of as     *)
(* many nodes as its length says, no call but clear and destroy loses one, *)
(* the tree is the map of PathMap, and its print shows its paths.          *)
(***************************************************************************)
EXTENDS Tree, Lemmas, FiniteSetTheorems

Kids(nodes, m) == ToSet(nodes[m].children)

-----------------------------------------------------------------------------
(* The nodes a search reaches.                                             *)
LEMMA ReachedSelf ==
  ASSUME NEW nodes, NEW n \in DOMAIN nodes
  PROVE  n \in Reached(nodes, n) /\ Reached(nodes, n) \subseteq DOMAIN nodes
BY DEF Reached

LEMMA ReachedLeast ==
  ASSUME NEW nodes, NEW n, NEW S, S \subseteq DOMAIN nodes, n \in S, Closed(nodes, S)
  PROVE  Reached(nodes, n) \subseteq S
BY DEF Reached

LEMMA ReachedKids ==
  ASSUME NEW nodes, NEW n, NEW m \in Reached(nodes, n),
         NEW c \in Kids(nodes, m), c \in DOMAIN nodes
  PROVE  c \in Reached(nodes, n)
<1> SUFFICES ASSUME NEW S \in SUBSET DOMAIN nodes, n \in S, Closed(nodes, S)
             PROVE  c \in S
  BY DEF Reached
<1>1. m \in S
  BY DEF Reached
<1>2. QED
  BY <1>1 DEF Closed, Kids

LEMMA ReachedClosed ==
  ASSUME NEW nodes, NEW n
  PROVE  Closed(nodes, Reached(nodes, n))
<1>1. ASSUME NEW m \in Reached(nodes, n), NEW c \in Kids(nodes, m) \cap DOMAIN nodes
      PROVE  c \in Reached(nodes, n)
  BY ReachedKids
<1>2. QED
  BY <1>1 DEF Closed, Kids

(* Every node it reaches but the first is a child of one it reaches.       *)
LEMMA ReachedParent ==
  ASSUME NEW nodes, NEW n \in DOMAIN nodes, NEW m \in Reached(nodes, n), m # n
  PROVE  \E p \in Reached(nodes, n) : m \in Kids(nodes, p)
<1> SUFFICES ASSUME \A p \in Reached(nodes, n) : m \notin Kids(nodes, p)
             PROVE  FALSE
  OBVIOUS
<1> DEFINE S == Reached(nodes, n) \ {m}
<1>1. n \in S /\ S \subseteq DOMAIN nodes
  BY ReachedSelf
<1>2. Closed(nodes, S)
  BY ReachedClosed DEF Closed, Kids
<1>3. QED
  BY <1>1, <1>2, ReachedLeast

LEMMA ReachedInside ==
  ASSUME NEW nodes, NEW r, NEW n \in Reached(nodes, r)
  PROVE  Reached(nodes, n) \subseteq Reached(nodes, r)
BY ReachedClosed, ReachedLeast DEF Reached

(* What is no node's child is reached from nowhere else.                   *)
LEMMA ReachedNotRoot ==
  ASSUME NEW nodes, NEW r, \A m \in DOMAIN nodes : r \notin Kids(nodes, m),
         NEW n \in DOMAIN nodes, r \in Reached(nodes, n)
  PROVE  n = r
<1> SUFFICES ASSUME n # r PROVE FALSE
  OBVIOUS
<1>1. PICK p \in Reached(nodes, n) : r \in Kids(nodes, p)
  BY ReachedParent
<1>2. QED
  BY <1>1, ReachedSelf

(* Heaps with the same children.                                           *)
LEMMA SameReached ==
  ASSUME NEW nodes, NEW other, DOMAIN other = DOMAIN nodes,
         \A m \in DOMAIN nodes : Kids(other, m) = Kids(nodes, m), NEW n
  PROVE  Reached(other, n) = Reached(nodes, n)
<1>1. \A S \in SUBSET DOMAIN nodes : Closed(other, S) <=> Closed(nodes, S)
  BY DEF Closed, Kids
<1>2. QED
  BY <1>1 DEF Reached

(* A heap with a new leaf under one of the nodes that n reaches.           *)
HasLeaf(other, nodes, leaf, at) ==
  /\ leaf \notin DOMAIN nodes
  /\ DOMAIN other = DOMAIN nodes \cup {leaf}
  /\ Kids(other, leaf) = {}
  /\ \A m \in DOMAIN nodes :
        Kids(other, m) = Kids(nodes, m) \cup IF m = at THEN {leaf} ELSE {}

LEMMA ReachedWithLeaf ==
  ASSUME NEW nodes, NEW other, NEW leaf, NEW at, HasLeaf(other, nodes, leaf, at),
         NEW n \in DOMAIN nodes, at \in Reached(nodes, n)
  PROVE  Reached(other, n) = Reached(nodes, n) \cup {leaf}
<1> DEFINE old == Reached(nodes, n)
           new == Reached(other, n)
<1>0. /\ leaf \notin DOMAIN nodes
      /\ DOMAIN other = DOMAIN nodes \cup {leaf}
      /\ Kids(other, leaf) = {}
      /\ \A m \in DOMAIN nodes :
            Kids(other, m) = Kids(nodes, m) \cup IF m = at THEN {leaf} ELSE {}
  BY DEF HasLeaf
<1>1. new \subseteq old \cup {leaf}
  <2>1. Closed(other, old \cup {leaf})
    <3>1. ASSUME NEW m \in old, NEW c \in Kids(other, m) \cap DOMAIN other
          PROVE  c \in old \cup {leaf}
      <4>1. m \in DOMAIN nodes /\ (c \in Kids(nodes, m) \/ c = leaf)
        BY <1>0, <3>1, ReachedSelf
      <4>2. QED
        BY <1>0, <4>1, <3>1, ReachedKids
    <3>2. QED
      BY <1>0, <3>1 DEF Closed, Kids
  <2>2. QED
    BY <1>0, <2>1, ReachedSelf, ReachedLeast
<1>2. old \subseteq new
  <2>1. new \subseteq DOMAIN other /\ n \in new
    BY <1>0, ReachedSelf
  <2>2. Closed(nodes, new \ {leaf})
    <3>1. ASSUME NEW m \in new \ {leaf}, NEW c \in Kids(nodes, m) \cap DOMAIN nodes
          PROVE  c \in new \ {leaf}
      BY <1>0, <2>1, ReachedKids
    <3>2. QED
      BY <3>1 DEF Closed, Kids
  <2>3. QED
    BY <1>0, <2>1, <2>2, ReachedLeast
<1>3. leaf \in new
  <2>1. at \in new /\ at \in DOMAIN nodes /\ leaf \in Kids(other, at)
    BY <1>0, <1>2, ReachedSelf
  <2>2. QED
    BY <1>0, <2>1, ReachedKids
<1>4. QED
  BY <1>1, <1>2, <1>3

(* A node without children reaches itself.                                 *)
LEMMA ReachedLeaf ==
  ASSUME NEW nodes, NEW n \in DOMAIN nodes, Kids(nodes, n) = {}
  PROVE  Reached(nodes, n) = {n}
<1>1. Closed(nodes, {n})
  BY DEF Closed, Kids
<1>2. QED
  BY <1>1, ReachedSelf, ReachedLeast

(* No node has two parents.                                                *)
OneParent(nodes) ==
  \A m1, m2 \in DOMAIN nodes : Kids(nodes, m1) \cap Kids(nodes, m2) # {} => m1 = m2

(* No node outside of what n reaches has a child in there, but n.          *)
LEMMA ReachedFromInside ==
  ASSUME NEW nodes, OneParent(nodes), NEW n \in DOMAIN nodes,
         NEW m \in DOMAIN nodes, NEW c \in Kids(nodes, m),
         c \in Reached(nodes, n), c # n
  PROVE  m \in Reached(nodes, n)
<1>1. PICK p \in Reached(nodes, n) : c \in Kids(nodes, p)
  BY ReachedParent
<1>2. m = p
  BY <1>1, ReachedSelf DEF OneParent
<1>3. QED
  BY <1>1, <1>2

(* A heap from which n and what it reaches are cut off.                    *)
LEMMA ReachedPruned ==
  ASSUME NEW nodes, OneParent(nodes), NEW r \in DOMAIN nodes,
         \A m \in DOMAIN nodes : r \notin Kids(nodes, m),
         NEW n \in Reached(nodes, r), n # r,
         NEW other, DOMAIN other = DOMAIN nodes \ Reached(nodes, n),
         \A m \in DOMAIN other : Kids(other, m) = Kids(nodes, m) \ {n}
  PROVE  Reached(other, r) = Reached(nodes, r) \ Reached(nodes, n)
<1> DEFINE old == Reached(nodes, r)
           cut == Reached(nodes, n)
           new == Reached(other, r)
<1>0. n \in DOMAIN nodes /\ n \in cut /\ cut \subseteq old
  BY ReachedSelf, ReachedInside
<1>1. r \notin cut
  BY <1>0, ReachedNotRoot
<1>2. new \subseteq old \ cut
  <2>1. Closed(other, old \ cut)
    <3>1. ASSUME NEW m \in old \ cut, NEW c \in Kids(other, m) \cap DOMAIN other
          PROVE  c \in old \ cut
      <4>1. m \in DOMAIN nodes /\ m \in DOMAIN other /\ c \in DOMAIN nodes \ cut
        BY <3>1, ReachedSelf
      <4>2. c \in Kids(nodes, m)
        BY <3>1, <4>1
      <4>3. QED
        BY <3>1, <4>1, <4>2, ReachedKids
    <3>2. QED
      BY <3>1 DEF Closed, Kids
  <2>2. r \in old \ cut /\ old \ cut \subseteq DOMAIN other
    BY <1>1, ReachedSelf
  <2>3. QED
    BY <2>1, <2>2, ReachedLeast
<1>3. old \subseteq new \cup cut
  <2>1. r \in DOMAIN other
    BY <1>1
  <2>2. r \in new /\ new \subseteq DOMAIN other
    BY <2>1, ReachedSelf
  <2>3. Closed(nodes, new \cup cut)
    <3>1. ASSUME NEW m \in new \cup cut, NEW c \in Kids(nodes, m) \cap DOMAIN nodes
          PROVE  c \in new \cup cut
      <4>1. CASE m \in cut
        BY <3>1, <4>1, ReachedKids
      <4>2. CASE m \in new /\ c \notin cut
        <5>1. c \in DOMAIN other /\ c \in Kids(other, m)
          BY <1>0, <2>2, <3>1, <4>2
        <5>2. QED
          BY <4>2, <5>1, ReachedKids
      <4>3. QED
        BY <3>1, <4>1, <4>2
    <3>2. QED
      BY <3>1 DEF Closed, Kids
  <2>4. new \cup cut \subseteq DOMAIN nodes
    BY <1>0, <2>2, ReachedSelf
  <2>5. QED
    BY <2>2, <2>3, <2>4, ReachedLeast
<1>4. new \cap cut = {}
  <2>1. new \subseteq DOMAIN other
    BY <1>1, ReachedSelf
  <2>2. QED
    BY <2>1
<1>5. QED
  BY <1>2, <1>3, <1>4

-----------------------------------------------------------------------------
(* A heap of trees: its nodes have fields in range and children that are   *)
(* allocated, have a buffer and differ in their keys; none has two parents. *)
NodeRecord ==
  [key : Token \cup {RootKey, NULL}, buffer : Data \cup {Zero, NULL}, children : Seq(Address)]

IsNode(m) ==
  /\ m \in NodeRecord
  /\ \/ m.key \in Token /\ m.buffer \in Data \cup {Zero}
     \/ m.key \in {RootKey, NULL} /\ m.buffer = NULL

HasKids(nodes, m) ==
  /\ Kids(nodes, m) \subseteq DOMAIN nodes
  /\ IsInjective(nodes[m].children)
  /\ \A c \in Kids(nodes, m) : nodes[c].buffer # NULL
  /\ \A c, d \in Kids(nodes, m) : nodes[c].key = nodes[d].key => c = d

IsHeap(nodes) ==
  /\ DOMAIN nodes \subseteq Address
  /\ \A m \in DOMAIN nodes : IsNode(nodes[m]) /\ HasKids(nodes, m)
  /\ OneParent(nodes)

LEMMA NodeFields ==
  ASSUME NEW m, IsNode(m)
  PROVE  /\ m = [key |-> m.key, buffer |-> m.buffer, children |-> m.children]
         /\ m.children \in Seq(Address)
         /\ m.key \in Token \cup {RootKey, NULL}
         /\ m.buffer \in Data \cup {Zero, NULL}
         /\ m.buffer # NULL => m.key \in Token /\ m.buffer \in Data \cup {Zero}
BY DEF IsNode, NodeRecord

LEMMA NodeByFields ==
  ASSUME NEW k, NEW d, NEW s \in Seq(Address),
         \/ k \in Token /\ d \in Data \cup {Zero}
         \/ k \in {RootKey, NULL} /\ d = NULL,
         NEW m, m = [key |-> k, buffer |-> d, children |-> s]
  PROVE  IsNode(m) /\ m.key = k /\ m.buffer = d /\ m.children = s
BY DEF IsNode, NodeRecord

LEMMA NewNodeIsNode ==
  ASSUME NEW k, NEW d,
         \/ k \in Token /\ d \in Data \cup {Zero}
         \/ k \in {RootKey, NULL} /\ d = NULL,
         NEW m, m = NewNode(k, d)
  PROVE  /\ IsNode(m) /\ m.key = k /\ m.buffer = d
         /\ DOMAIN m.children = {} /\ ToSet(m.children) = {}
<1> DEFINE e == << >>
<1>1. m = [key |-> k, buffer |-> d, children |-> e]
  BY DEF NewNode
<1>2. e \in Seq(Address)
  OBVIOUS
<1>3. IsNode(m) /\ m.key = k /\ m.buffer = d /\ m.children = e
  <2> HIDE DEF e
  <2>1. QED
    BY <1>1, <1>2, NodeByFields
<1>4. DOMAIN e = {} /\ ToSet(e) = {}
  BY DEF ToSet
<1>5. QED
  BY <1>3, <1>4

(* A heap with a new node under n.                                         *)
LEMMA AppendedKids ==
  ASSUME NEW S, NEW s \in Seq(S), NEW c \in S
  PROVE  /\ Append(s, c) \in Seq(S)
         /\ ToSet(Append(s, c)) = ToSet(s) \cup {c}
         /\ c \notin ToSet(s) /\ IsInjective(s) => IsInjective(Append(s, c))
<1> DEFINE n == Len(s)
           a == Append(s, c)
<1>1. /\ a \in Seq(S) /\ Len(a) = n + 1 /\ n \in Nat
      /\ \A i \in 1..n : a[i] = s[i]
      /\ a[n + 1] = c
  BY AppendProperties
<1>2. DOMAIN a = 1..n+1 /\ DOMAIN s = 1..n
  BY <1>1
<1> HIDE DEF a, n
<1>3. \A i \in 1..n+1 : i \in 1..n \/ i = n + 1
  BY <1>1
<1>4. \A i \in 1..n : i \in 1..n+1
  BY <1>1
<1>5. n + 1 \in 1..n+1 /\ n + 1 \notin 1..n
  BY <1>1
<1>6. ToSet(a) = ToSet(s) \cup {c}
  BY <1>1, <1>2, <1>3, <1>4, <1>5 DEF ToSet
<1>7. ASSUME c \notin ToSet(s), IsInjective(s),
             NEW i \in DOMAIN a, NEW j \in DOMAIN a, a[i] = a[j]
      PROVE  i = j
  <2>1. \A k \in 1..n : s[k] # c
    BY <1>2, <1>7 DEF ToSet
  <2>2. QED
    BY <1>1, <1>2, <1>3, <1>7, <2>1 DEF IsInjective
<1>8. c \notin ToSet(s) /\ IsInjective(s) => IsInjective(a)
  BY <1>7 DEF IsInjective
<1>9. QED
  BY <1>1, <1>6, <1>8 DEF a

HasNew(other, nodes, n, new, t) ==
  /\ DOMAIN other = DOMAIN nodes \cup {new}
  /\ IsNode(other[new]) /\ other[new].key = t /\ other[new].buffer = Zero
  /\ DOMAIN other[new].children = {} /\ Kids(other, new) = {}
  /\ \A m \in DOMAIN nodes :
       /\ IsNode(other[m])
       /\ other[m].key = nodes[m].key /\ other[m].buffer = nodes[m].buffer
       /\ Kids(other, m) = Kids(nodes, m) \cup IF m = n THEN {new} ELSE {}
       /\ m # n => other[m] = nodes[m]
  /\ other[n].children = Append(nodes[n].children, new)

LEMMA LinkedFacts ==
  ASSUME NEW nodes, IsHeap(nodes), NEW n \in DOMAIN nodes,
         NEW new \in Address \ DOMAIN nodes, NEW t \in Token,
         NEW other, other = Linked(nodes, n, new, t)
  PROVE  HasNew(other, nodes, n, new, t)
<1> DEFINE a == Append(nodes[n].children, new)
<1>1. other = [m \in DOMAIN nodes \cup {new} |->
                 IF m = new THEN NewNode(t, Zero)
                 ELSE IF m = n THEN [nodes[n] EXCEPT !.children = a] ELSE nodes[m]]
  BY DEF Linked, With
<1>2. IsNode(nodes[n]) /\ nodes[n].children \in Seq(Address)
  BY NodeFields DEF IsHeap
<1>3. a \in Seq(Address) /\ ToSet(a) = ToSet(nodes[n].children) \cup {new}
  BY <1>2, AppendedKids
<1>4. [nodes[n] EXCEPT !.children = a]
        = [key |-> nodes[n].key, buffer |-> nodes[n].buffer, children |-> a]
  <2> HIDE DEF a
  <2>1. QED
    BY <1>2, NodeFields
<1>5. n # new
  OBVIOUS
<1> HIDE DEF a
<1>6. other[n] = [key |-> nodes[n].key, buffer |-> nodes[n].buffer, children |-> a]
  BY <1>1, <1>4, <1>5
<1>7. /\ IsNode(other[n]) /\ other[n].children = a
      /\ other[n].key = nodes[n].key /\ other[n].buffer = nodes[n].buffer
  BY <1>2, <1>3, <1>6, NodeByFields DEF IsNode
<1>8. other[new] = NewNode(t, Zero)
  BY <1>1
<1>9. /\ IsNode(other[new]) /\ other[new].key = t /\ other[new].buffer = Zero
      /\ DOMAIN other[new].children = {} /\ Kids(other, new) = {}
  <2>1. Zero \in Data \cup {Zero}
    OBVIOUS
  <2>2. /\ IsNode(other[new]) /\ other[new].key = t /\ other[new].buffer = Zero
        /\ DOMAIN other[new].children = {} /\ ToSet(other[new].children) = {}
    BY <1>8, <2>1, NewNodeIsNode
  <2>3. QED
    BY <2>2 DEF Kids
<1>10. \A m \in DOMAIN nodes : m # n => other[m] = nodes[m]
  BY <1>1
<1>11. Kids(other, n) = Kids(nodes, n) \cup {new}
  BY <1>3, <1>7 DEF Kids
<1>12. ASSUME NEW m \in DOMAIN nodes
       PROVE  /\ IsNode(other[m])
              /\ other[m].key = nodes[m].key /\ other[m].buffer = nodes[m].buffer
              /\ Kids(other, m) = Kids(nodes, m) \cup IF m = n THEN {new} ELSE {}
  <2>1. CASE m = n
    BY <1>7, <1>11, <2>1
  <2>2. CASE m # n
    BY <1>10, <2>2 DEF Kids, IsHeap
  <2>3. QED
    BY <2>1, <2>2
<1>13. DOMAIN other = DOMAIN nodes \cup {new}
  BY <1>1
<1>14. QED
  BY <1>7, <1>9, <1>10, <1>12, <1>13 DEF HasNew, a

LEMMA LinkedIsHeap ==
  ASSUME NEW nodes, IsHeap(nodes), NEW n \in DOMAIN nodes,
         NEW new \in Address \ DOMAIN nodes, NEW t \in Token,
         \A c \in Kids(nodes, n) : nodes[c].key # t
  PROVE  IsHeap(Linked(nodes, n, new, t))
<1> DEFINE other == Linked(nodes, n, new, t)
<1>0. other = Linked(nodes, n, new, t)
  OBVIOUS
<1> HIDE DEF other
<1>9. HasNew(other, nodes, n, new, t)
  BY <1>0, LinkedFacts
<1>1. /\ DOMAIN other = DOMAIN nodes \cup {new}
      /\ IsNode(other[new]) /\ other[new].key = t /\ other[new].buffer = Zero
      /\ DOMAIN other[new].children = {} /\ Kids(other, new) = {}
      /\ \A m \in DOMAIN nodes :
           /\ IsNode(other[m])
           /\ other[m].key = nodes[m].key /\ other[m].buffer = nodes[m].buffer
           /\ Kids(other, m) = Kids(nodes, m) \cup IF m = n THEN {new} ELSE {}
           /\ m # n => other[m] = nodes[m]
      /\ other[n].children = Append(nodes[n].children, new)
  BY <1>9 DEF HasNew
<1>2. \A m \in DOMAIN nodes : HasKids(nodes, m)
  BY DEF IsHeap
<1>3. HasKids(other, new)
  BY <1>1 DEF HasKids, Kids, IsInjective
<1>4. ASSUME NEW m \in DOMAIN nodes, m # n PROVE HasKids(other, m)
  <2>1. other[m] = nodes[m] /\ Kids(other, m) = Kids(nodes, m)
    BY <1>1, <1>4
  <2>2. \A c \in Kids(nodes, m) : /\ c \in DOMAIN nodes /\ other[c].key = nodes[c].key
                                  /\ other[c].buffer = nodes[c].buffer
    BY <1>1, <1>2 DEF HasKids
  <2>3. HasKids(nodes, m)
    BY <1>2
  <2>4. QED
    BY <1>1, <2>1, <2>2, <2>3 DEF HasKids
<1>5. HasKids(other, n)
  <2>1. HasKids(nodes, n) /\ nodes[n].children \in Seq(Address)
    BY <1>2, NodeFields DEF IsHeap
  <2>2. Kids(other, n) = Kids(nodes, n) \cup {new} /\ new \notin Kids(nodes, n)
    BY <1>1, <2>1 DEF HasKids
  <2>3. \A c \in Kids(nodes, n) : /\ c \in DOMAIN nodes /\ other[c].key = nodes[c].key
                                  /\ other[c].buffer = nodes[c].buffer
    BY <1>1, <2>1 DEF HasKids
  <2>4. IsInjective(other[n].children)
    <3>1. IsInjective(nodes[n].children)
      BY <2>1 DEF HasKids
    <3>2. new \notin ToSet(nodes[n].children)
      BY <2>2 DEF Kids
    <3>3. QED
      BY <1>1, <2>1, <3>1, <3>2, AppendedKids
  <2>5. \A c \in Kids(other, n) : other[c].buffer # NULL
    BY <1>1, <2>1, <2>2, <2>3, NullAssumption DEF HasKids
  <2>6. \A c, d \in Kids(other, n) : other[c].key = other[d].key => c = d
    BY <1>1, <2>1, <2>2, <2>3 DEF HasKids
  <2>7. Kids(other, n) \subseteq DOMAIN other
    BY <1>1, <2>2, <2>3
  <2>8. QED
    BY <2>4, <2>5, <2>6, <2>7 DEF HasKids
<1>6. OneParent(other)
  <2>1. ASSUME NEW m1 \in DOMAIN other, NEW m2 \in DOMAIN other,
               NEW c \in Kids(other, m1) \cap Kids(other, m2)
        PROVE  m1 = m2
    <3>1. m1 \in DOMAIN nodes /\ m2 \in DOMAIN nodes
      BY <1>1, <2>1
    <3>2. CASE c = new
      <4>1. new \notin Kids(nodes, m1) /\ new \notin Kids(nodes, m2)
        BY <1>2, <3>1 DEF HasKids
      <4>2. QED
        BY <1>1, <2>1, <3>1, <3>2, <4>1
    <3>3. CASE c # new
      <4>1. c \in Kids(nodes, m1) \cap Kids(nodes, m2)
        BY <1>1, <2>1, <3>1, <3>3
      <4>2. QED
        BY <3>1, <4>1 DEF IsHeap, OneParent
    <3>4. QED
      BY <3>2, <3>3
  <2>2. QED
    BY <2>1 DEF OneParent
<1>7. \A m \in DOMAIN other : IsNode(other[m]) /\ HasKids(other, m)
  BY <1>1, <1>3, <1>4, <1>5
<1>8. QED
  BY <1>0, <1>1, <1>6, <1>7 DEF IsHeap

LEMMA LinkedReached ==
  ASSUME NEW nodes, IsHeap(nodes), NEW r \in DOMAIN nodes, NEW n \in Reached(nodes, r),
         NEW new \in Address \ DOMAIN nodes, NEW t \in Token,
         NEW other, other = Linked(nodes, n, new, t)
  PROVE  Reached(other, r) = Reached(nodes, r) \cup {new}
<1>1. n \in DOMAIN nodes
  BY ReachedSelf
<1>2. HasNew(other, nodes, n, new, t)
  BY <1>1, LinkedFacts
<1>3. HasLeaf(other, nodes, new, n)
  BY <1>2 DEF HasNew, HasLeaf
<1>4. QED
  BY <1>3, ReachedWithLeaf

(* A heap with one more tree, of one node.                                 *)
LEMMA WithRoot ==
  ASSUME NEW nodes, IsHeap(nodes), NEW new \in Address \ DOMAIN nodes,
         NEW k \in {RootKey, NULL},
         NEW other, other = With(nodes, new, NewNode(k, NULL))
  PROVE  /\ IsHeap(other)
         /\ DOMAIN other = DOMAIN nodes \cup {new}
         /\ other[new].buffer = NULL /\ Kids(other, new) = {}
         /\ Reached(other, new) = {new}
<1>1. DOMAIN other = DOMAIN nodes \cup {new} /\ other[new] = NewNode(k, NULL)
  BY DEF With
<1>2. \A m \in DOMAIN nodes : other[m] = nodes[m]
  BY DEF With
<1>3. /\ IsNode(other[new]) /\ other[new].buffer = NULL
      /\ DOMAIN other[new].children = {} /\ Kids(other, new) = {}
  BY <1>1, NewNodeIsNode DEF Kids
<1>4. HasKids(other, new)
  BY <1>3 DEF HasKids, Kids, IsInjective
<1>5. ASSUME NEW m \in DOMAIN nodes PROVE IsNode(other[m]) /\ HasKids(other, m)
  <2>1. IsNode(nodes[m]) /\ HasKids(nodes, m)
    BY DEF IsHeap
  <2>2. other[m] = nodes[m] /\ Kids(other, m) = Kids(nodes, m)
    BY <1>2 DEF Kids
  <2>3. \A c \in Kids(nodes, m) : c \in DOMAIN nodes /\ other[c] = nodes[c]
    BY <1>2, <2>1 DEF HasKids
  <2>4. QED
    BY <1>1, <2>1, <2>2, <2>3 DEF HasKids
<1>6. OneParent(other)
  <2>1. \A m \in DOMAIN nodes : Kids(other, m) = Kids(nodes, m)
    BY <1>2 DEF Kids
  <2>2. QED
    BY <1>1, <1>3, <2>1 DEF IsHeap, OneParent
<1>7. IsHeap(other)
  BY <1>1, <1>3, <1>4, <1>5, <1>6 DEF IsHeap
<1>8. Reached(other, new) = {new}
  BY <1>1, <1>3, ReachedLeaf
<1>9. QED
  BY <1>1, <1>3, <1>7, <1>8

(* A heap with the element d in a node that is a child.                    *)
HasElement(other, nodes, n, d) ==
  /\ IsHeap(other) /\ DOMAIN other = DOMAIN nodes
  /\ \A m \in DOMAIN nodes :
       /\ Kids(other, m) = Kids(nodes, m)
       /\ other[m].key = nodes[m].key
       /\ other[m].buffer = IF m = n THEN d ELSE nodes[m].buffer
  /\ \A m : Reached(other, m) = Reached(nodes, m)

LEMMA WithElement ==
  ASSUME NEW nodes, IsHeap(nodes), NEW n \in DOMAIN nodes, nodes[n].buffer # NULL,
         NEW d \in Data, NEW other, other = [nodes EXCEPT ![n].buffer = d]
  PROVE  HasElement(other, nodes, n, d)
<1>1. IsNode(nodes[n]) /\ nodes[n].key \in Token /\ nodes[n].children \in Seq(Address)
  BY NodeFields DEF IsHeap
<1>2. other[n] = [key |-> nodes[n].key, buffer |-> d, children |-> nodes[n].children]
  BY <1>1, NodeFields
<1>3. /\ IsNode(other[n]) /\ other[n].key = nodes[n].key /\ other[n].buffer = d
      /\ other[n].children = nodes[n].children
  BY <1>1, <1>2, NodeByFields
<1>4. DOMAIN other = DOMAIN nodes /\ \A m \in DOMAIN nodes : m # n => other[m] = nodes[m]
  OBVIOUS
<1>5. ASSUME NEW m \in DOMAIN nodes
      PROVE  /\ IsNode(other[m])
             /\ other[m].key = nodes[m].key /\ other[m].children = nodes[m].children
             /\ other[m].buffer = IF m = n THEN d ELSE nodes[m].buffer
  BY <1>3, <1>4 DEF IsHeap
<1>6. \A m \in DOMAIN nodes : Kids(other, m) = Kids(nodes, m)
  BY <1>5 DEF Kids
<1>7. d # NULL
  BY NullAssumption
<1>8. ASSUME NEW m \in DOMAIN nodes PROVE HasKids(other, m)
  <2>1. HasKids(nodes, m) /\ other[m].children = nodes[m].children
    BY <1>5 DEF IsHeap
  <2>2. \A c \in Kids(nodes, m) :
          /\ c \in DOMAIN nodes /\ other[c].key = nodes[c].key
          /\ nodes[c].buffer # NULL => other[c].buffer # NULL
    BY <1>5, <1>7, <2>1 DEF HasKids
  <2>3. Kids(other, m) = Kids(nodes, m) /\ DOMAIN other = DOMAIN nodes
    BY <1>4, <1>6
  <2>4. IsInjective(other[m].children)
    BY <2>1 DEF HasKids
  <2>5. \A c \in Kids(nodes, m) : c \in DOMAIN nodes /\ nodes[c].buffer # NULL
    BY <2>1 DEF HasKids
  <2>6. \A c, e \in Kids(nodes, m) : nodes[c].key = nodes[e].key => c = e
    BY <2>1 DEF HasKids
  <2>7. \A c \in Kids(other, m) : other[c].buffer # NULL
    BY <2>2, <2>3, <2>5
  <2>8. \A c, e \in Kids(other, m) : other[c].key = other[e].key => c = e
    BY <2>2, <2>3, <2>6
  <2>9. Kids(other, m) \subseteq DOMAIN other
    BY <2>3, <2>5
  <2>10. QED
    BY <2>4, <2>7, <2>8, <2>9 DEF HasKids
<1>9. OneParent(other)
  BY <1>4, <1>6 DEF IsHeap, OneParent
<1>10. IsHeap(other)
  BY <1>4, <1>5, <1>8, <1>9 DEF IsHeap
<1>11. \A m : Reached(other, m) = Reached(nodes, m)
  BY <1>4, <1>6, SameReached
<1>12. QED
  BY <1>4, <1>5, <1>6, <1>10, <1>11 DEF HasElement

(* The children of a node without n.                                       *)
LEMMA UnlinkedKids ==
  ASSUME NEW S, NEW s \in Seq(S), IsInjective(s), NEW n
  PROVE  /\ Unlinked(s, n) \in Seq(S)
         /\ ToSet(Unlinked(s, n)) = ToSet(s) \ {n}
         /\ IsInjective(Unlinked(s, n))
<1> DEFINE at == {i \in DOMAIN s : s[i] = n}
           u == Unlinked(s, n)
           l == Len(s)
<1>1. CASE at = {}
  <2>1. u = s
    BY <1>1 DEF Unlinked
  <2>2. n \notin ToSet(s)
    BY <1>1 DEF ToSet
  <2>3. QED
    BY <2>1, <2>2
<1>2. CASE at # {}
  <2>1. l \in Nat /\ DOMAIN s = 1..l /\ at \in SUBSET Nat
    OBVIOUS
  <2>2. Min(at) \in at
    <3> HIDE DEF at
    <3>1. QED
      BY <1>2, <2>1, LeastElement DEF Min
  <2> DEFINE k == Min(at)
  <2>3. k \in 1..l /\ s[k] = n
    BY <2>1, <2>2
  <2>4. u = SubSeq(s, 1, k - 1) \o SubSeq(s, k + 1, l)
    BY <1>2 DEF Unlinked, RemoveAt
  <2> HIDE DEF k, u
  <2>5. u = [i \in 1..l-1 |-> IF i < k THEN s[i] ELSE s[i + 1]]
    BY <2>1, <2>3, <2>4, CutDef
  <2>6. \A i \in 1..l : i # k => s[i] # n
    BY <2>1, <2>3 DEF IsInjective
  <2>7. DOMAIN u = 1..l-1 /\ \A i \in 1..l-1 : u[i] = IF i < k THEN s[i] ELSE s[i + 1]
    BY <2>5
  <2>8. \A i \in 1..l-1 : i \in 1..l /\ i + 1 \in 1..l
    BY <2>1
  <2>9. \A i \in 1..l : s[i] \in S
    BY <2>1
  <2>10. u \in Seq(S)
    <3>1. u \in [1..l-1 -> S] /\ l - 1 \in Nat
      BY <2>1, <2>3, <2>5, <2>8, <2>9
    <3>2. QED
      BY <3>1, SeqDef
  <2>11. \A i \in 1..l-1 : u[i] # n /\ u[i] \in ToSet(s)
    <3>1. ASSUME NEW i \in 1..l-1 PROVE u[i] # n /\ u[i] \in ToSet(s)
      <4>1. CASE i < k
        <5>1. u[i] = s[i] /\ i # k /\ i \in 1..l
          BY <2>1, <2>3, <2>7, <2>8, <4>1
        <5>2. QED
          BY <2>1, <2>6, <5>1 DEF ToSet
      <4>2. CASE ~(i < k)
        <5>1. u[i] = s[i + 1] /\ i + 1 # k /\ i + 1 \in 1..l
          BY <2>1, <2>3, <2>7, <2>8, <4>2
        <5>2. QED
          BY <2>1, <2>6, <5>1 DEF ToSet
      <4>3. QED
        BY <4>1, <4>2
    <3>2. QED
      BY <3>1
  <2>12. ASSUME NEW c \in ToSet(s), c # n PROVE c \in ToSet(u)
    <3>1. PICK j \in 1..l : s[j] = c
      BY <2>1 DEF ToSet
    <3>2. CASE j < k
      <4>1. j \in 1..l-1 /\ u[j] = c
        BY <2>1, <2>3, <2>7, <3>1, <3>2
      <4>2. QED
        BY <2>7, <4>1 DEF ToSet
    <3>3. CASE j > k
      <4>1. j - 1 \in 1..l-1 /\ ~(j - 1 < k) /\ (j - 1) + 1 = j
        BY <2>1, <2>3, <3>3
      <4>2. u[j - 1] = c
        BY <2>7, <3>1, <4>1
      <4>3. QED
        BY <2>7, <4>1, <4>2 DEF ToSet
    <3>4. j # k
      BY <2>3, <2>12, <3>1
    <3>5. QED
      BY <2>1, <2>3, <3>2, <3>3, <3>4
  <2>13. ToSet(u) = ToSet(s) \ {n}
    <3>1. ToSet(u) \subseteq ToSet(s) \ {n}
      BY <2>7, <2>11 DEF ToSet
    <3>2. QED
      BY <2>12, <3>1
  <2>14. ASSUME NEW i \in 1..l-1, NEW j \in 1..l-1, u[i] = u[j] PROVE i = j
    <3> DEFINE old(x) == IF x < k THEN x ELSE x + 1
    <3>1. old(i) \in 1..l /\ old(j) \in 1..l
      BY <2>8
    <3>2. u[i] = s[old(i)] /\ u[j] = s[old(j)]
      BY <2>7
    <3>3. old(i) = old(j)
      BY <2>1, <2>14, <3>1, <3>2 DEF IsInjective
    <3>4. QED
      BY <2>1, <2>3, <3>3
  <2>15. IsInjective(u)
    BY <2>7, <2>14 DEF IsInjective
  <2>16. QED
    BY <2>10, <2>13, <2>15 DEF u
<1>3. QED
  BY <1>1, <1>2

(* A heap from which nodes have gone, and all pointers to them.            *)
IsPartOf(other, nodes) ==
  /\ DOMAIN other \subseteq DOMAIN nodes
  /\ \A m \in DOMAIN other :
       /\ IsNode(other[m])
       /\ other[m].key = nodes[m].key /\ other[m].buffer = nodes[m].buffer
       /\ IsInjective(other[m].children)
       /\ Kids(other, m) \subseteq Kids(nodes, m) \cap DOMAIN other

LEMMA PartIsHeap ==
  ASSUME NEW nodes, IsHeap(nodes), NEW other, IsPartOf(other, nodes)
  PROVE  IsHeap(other)
<1>1. \A m \in DOMAIN other :
        /\ m \in DOMAIN nodes /\ IsNode(other[m])
        /\ other[m].key = nodes[m].key /\ other[m].buffer = nodes[m].buffer
        /\ IsInjective(other[m].children)
        /\ Kids(other, m) \subseteq Kids(nodes, m)
        /\ Kids(other, m) \subseteq DOMAIN other
  BY DEF IsPartOf
<1>2. ASSUME NEW m \in DOMAIN other PROVE HasKids(other, m)
  <2>1. /\ \A c \in Kids(nodes, m) : nodes[c].buffer # NULL
        /\ \A c, d \in Kids(nodes, m) : nodes[c].key = nodes[d].key => c = d
    BY <1>1 DEF IsHeap, HasKids
  <2>2. \A c \in Kids(other, m) : /\ c \in Kids(nodes, m) /\ c \in DOMAIN other
                                  /\ other[c].key = nodes[c].key
                                  /\ other[c].buffer = nodes[c].buffer
    BY <1>1
  <2>3. \A c \in Kids(other, m) : other[c].buffer # NULL
    BY <2>1, <2>2
  <2>4. \A c, d \in Kids(other, m) : other[c].key = other[d].key => c = d
    BY <2>1, <2>2
  <2>5. QED
    BY <1>1, <2>3, <2>4 DEF HasKids
<1>3. OneParent(other)
  BY <1>1 DEF IsHeap, OneParent
<1>4. DOMAIN other \subseteq Address
  BY <1>1 DEF IsHeap
<1>5. QED
  BY <1>1, <1>2, <1>3, <1>4 DEF IsHeap

LEMMA WithoutTree ==
  ASSUME NEW nodes, IsHeap(nodes), NEW r \in DOMAIN nodes, nodes[r].buffer = NULL,
         NEW other, other = Without(nodes, Reached(nodes, r))
  PROVE  /\ IsHeap(other)
         /\ DOMAIN other = DOMAIN nodes \ Reached(nodes, r)
<1>1. DOMAIN other = DOMAIN nodes \ Reached(nodes, r)
  BY DEF Without
<1>2. \A m \in DOMAIN other : other[m] = nodes[m]
  BY DEF Without
<1>3. ASSUME NEW m \in DOMAIN other, NEW c \in Kids(nodes, m) PROVE c \in DOMAIN other
  <2>1. m \in DOMAIN nodes /\ c \in DOMAIN nodes /\ c # r
    BY <1>1 DEF IsHeap, HasKids
  <2>2. c \in Reached(nodes, r) => m \in Reached(nodes, r)
    BY <2>1, ReachedFromInside DEF IsHeap
  <2>3. QED
    BY <1>1, <2>1, <2>2
<1>4. ASSUME NEW m \in DOMAIN other
      PROVE  /\ IsNode(other[m]) /\ IsInjective(other[m].children)
             /\ Kids(other, m) = Kids(nodes, m)
  BY <1>1, <1>2 DEF IsHeap, HasKids, Kids
<1>5. IsPartOf(other, nodes)
  BY <1>1, <1>2, <1>3, <1>4 DEF IsPartOf
<1>6. QED
  BY <1>1, <1>5, PartIsHeap

(* What Prune leaves.                                                      *)
Pruned(nodes, n) ==
  [m \in DOMAIN nodes \ Reached(nodes, n) |->
     [nodes[m] EXCEPT !.children = Unlinked(@, n)]]

HasLost(other, nodes, n) ==
  /\ IsHeap(other)
  /\ DOMAIN other = DOMAIN nodes \ Reached(nodes, n)
  /\ \A m \in DOMAIN other :
       /\ other[m].key = nodes[m].key /\ other[m].buffer = nodes[m].buffer
       /\ Kids(other, m) = Kids(nodes, m) \ {n}

LEMMA PrunedFacts ==
  ASSUME NEW nodes, IsHeap(nodes), NEW n \in DOMAIN nodes,
         NEW other, other = Pruned(nodes, n)
  PROVE  HasLost(other, nodes, n)
<1>1. DOMAIN other = DOMAIN nodes \ Reached(nodes, n)
  BY DEF Pruned
<1>2. ASSUME NEW m \in DOMAIN other
      PROVE  /\ IsNode(other[m])
             /\ other[m].key = nodes[m].key /\ other[m].buffer = nodes[m].buffer
             /\ IsInjective(other[m].children)
             /\ Kids(other, m) = Kids(nodes, m) \ {n}
  <2>1. m \in DOMAIN nodes /\ IsNode(nodes[m]) /\ IsInjective(nodes[m].children)
    BY <1>1 DEF IsHeap, HasKids
  <2> DEFINE u == Unlinked(nodes[m].children, n)
  <2>2. /\ u \in Seq(Address) /\ IsInjective(u)
        /\ ToSet(u) = ToSet(nodes[m].children) \ {n}
    BY <2>1, NodeFields, UnlinkedKids
  <2>3. other[m] = [nodes[m] EXCEPT !.children = u]
    BY <1>1 DEF Pruned
  <2> HIDE DEF u
  <2>4. other[m] = [key |-> nodes[m].key, buffer |-> nodes[m].buffer, children |-> u]
    BY <2>1, <2>3, NodeFields
  <2>5. /\ IsNode(other[m]) /\ other[m].children = u
        /\ other[m].key = nodes[m].key /\ other[m].buffer = nodes[m].buffer
    BY <2>1, <2>2, <2>4, NodeByFields DEF IsNode
  <2>6. QED
    BY <2>2, <2>5 DEF Kids
<1>3. ASSUME NEW m \in DOMAIN other, NEW c \in Kids(nodes, m), c # n PROVE c \in DOMAIN other
  <2>1. m \in DOMAIN nodes /\ c \in DOMAIN nodes
    BY <1>1 DEF IsHeap, HasKids
  <2>2. c \in Reached(nodes, n) => m \in Reached(nodes, n)
    BY <1>3, <2>1, ReachedFromInside DEF IsHeap
  <2>3. QED
    BY <1>1, <2>1, <2>2
<1>4. IsPartOf(other, nodes)
  BY <1>1, <1>2, <1>3 DEF IsPartOf
<1>5. QED
  BY <1>1, <1>2, <1>4, PartIsHeap DEF HasLost

-----------------------------------------------------------------------------
(* Heaps are finite.                                                       *)
LEMMA HeapIsFinite ==
  ASSUME NEW S, S \subseteq Address
  PROVE  /\ IsFiniteSet(S) /\ Cardinality(S) \in Nat
         /\ Cardinality(S) <= Cardinality(Address)
         /\ Cardinality(Address) \in Nat
BY HeapAssumption, FS_Subset, FS_CardinalityType

LEMMA OneMore ==
  ASSUME NEW S, S \subseteq Address, NEW a \in Address \ S
  PROVE  Cardinality(S \cup {a}) = Cardinality(S) + 1
BY HeapIsFinite, FS_AddElement

LEMMA SomeLess ==
  ASSUME NEW S, S \subseteq Address, NEW T, T \subseteq S
  PROVE  Cardinality(S \ T) = Cardinality(S) - Cardinality(T)
<1>1. IsFiniteSet(S) /\ IsFiniteSet(T) /\ Cardinality(S) \in Nat /\ Cardinality(T) \in Nat
  BY HeapIsFinite
<1>2. /\ IsFiniteSet(S \ T)
      /\ Cardinality(S \ T) = Cardinality(S) - Cardinality(S \cap T)
  BY <1>1, FS_Difference
<1>3. S \cap T = T
  OBVIOUS
<1>4. QED
  BY <1>2, <1>3

(* The address of a new node.                                              *)
LEMMA MinIsIn ==
  ASSUME NEW S \in SUBSET Address, S # {}
  PROVE  Min(S) \in S
<1>1. S \in SUBSET Nat
  BY HeapAssumption
<1>2. QED
  BY <1>1, LeastElement DEF Min

-----------------------------------------------------------------------------
(* Paths, one token at a time.                                             *)
Root == << >>

LEMMA PathFacts ==
  /\ Root \in Seq(Token) /\ Len(Root) = 0
  /\ \A q \in Seq(Token) : Len(q) = 0 => q = Root
BY DEF Root

Longer(r, t) == Append(r, t)

LEMMA LongerPath ==
  ASSUME NEW r \in Seq(Token), NEW t \in Token, NEW q, q = Longer(r, t)
  PROVE  /\ q \in Seq(Token) /\ Len(q) = Len(r) + 1 /\ q # Root
         /\ Len(r) \in Nat
         /\ \A i \in 1..Len(r) : q[i] = r[i]
         /\ q[Len(r) + 1] = t
<1>1. /\ q \in Seq(Token) /\ Len(q) = Len(r) + 1
      /\ \A i \in 1..Len(r) : q[i] = r[i]
      /\ q[Len(r) + 1] = t
  BY AppendProperties DEF Longer
<1>2. Len(r) \in Nat /\ Len(q) # 0
  BY <1>1
<1>3. QED
  BY <1>1, <1>2, PathFacts

LEMMA SamePath ==
  ASSUME NEW p \in Seq(Token), NEW q \in Seq(Token), Len(p) = Len(q),
         \A i \in 1..Len(p) : p[i] = q[i]
  PROVE  p = q
OBVIOUS

LEMMA ShorterPath ==
  ASSUME NEW q \in Seq(Token), NEW n \in Nat, Len(q) = n + 1
  PROVE  \E r \in Seq(Token) : \E t \in Token : q = Longer(r, t) /\ Len(r) = n
<1> DEFINE r == SubSeq(q, 1, n)
           a == Longer(r, q[n+1])
<1>1. /\ r \in Seq(Token) /\ Len(r) = n
      /\ \A i \in 1..n : r[i] = q[i]
      /\ q[n + 1] \in Token
  OBVIOUS
<1> HIDE DEF r
<1>2. /\ a \in Seq(Token) /\ Len(a) = n + 1
      /\ \A i \in 1..n : a[i] = r[i]
      /\ a[n + 1] = q[n + 1]
  BY <1>1, LongerPath DEF Longer
<1> HIDE DEF a
<1>3. \A i \in 1..Len(a) : a[i] = q[i]
  BY <1>1, <1>2
<1>4. a = q
  BY <1>2, <1>3, SamePath
<1>5. QED
  BY <1>1, <1>4 DEF a

LEMMA SameLonger ==
  ASSUME NEW p \in Seq(Token), NEW q \in Seq(Token), NEW s \in Token, NEW t \in Token,
         Longer(p, s) = Longer(q, t)
  PROVE  p = q /\ s = t
<1> DEFINE a == Longer(p, s)
<1>1. /\ a = Longer(p, s) /\ a = Longer(q, t)
  OBVIOUS
<1> HIDE DEF a
<1>2. /\ Len(a) = Len(p) + 1 /\ Len(p) \in Nat
      /\ \A i \in 1..Len(p) : a[i] = p[i]
      /\ a[Len(p) + 1] = s
  BY <1>1, LongerPath DEF Longer
<1>3. /\ Len(a) = Len(q) + 1 /\ Len(q) \in Nat
      /\ \A i \in 1..Len(q) : a[i] = q[i]
      /\ a[Len(q) + 1] = t
  BY <1>1, LongerPath DEF Longer
<1>4. Len(p) = Len(q)
  BY <1>2, <1>3
<1>5. p = q
  BY <1>2, <1>3, <1>4, SamePath
<1>6. QED
  BY <1>2, <1>3, <1>4, <1>5

(* Induction on paths, with a set for the predicate.                       *)
LEMMA PathInduction ==
  ASSUME NEW A, Root \in A,
         \A r \in Seq(Token) : r \in A => \A t \in Token : Longer(r, t) \in A
  PROVE  \A q \in Seq(Token) : q \in A
<1> SUFFICES ASSUME NEW q \in Seq(Token) PROVE q \in A
  OBVIOUS
<1> DEFINE n == Len(q)
           N == {i \in 0..n : \A s \in Seq(Token) : Len(s) = i => s \in A}
<1>0. n \in Nat
  OBVIOUS
<1>1. 0 \in N
  BY <1>0, PathFacts
<1>2. ASSUME NEW i \in 1..n, i - 1 \in N PROVE i \in N
  <2>1. ASSUME NEW s \in Seq(Token), Len(s) = i PROVE s \in A
    <3>1. i - 1 \in Nat /\ Len(s) = (i - 1) + 1
      BY <2>1
    <3>2. PICK r \in Seq(Token) : \E t \in Token : s = Longer(r, t) /\ Len(r) = i - 1
      BY <3>1, ShorterPath
    <3>3. r \in A
      BY <1>2, <3>2
    <3>4. QED
      BY <3>2, <3>3
  <2>2. QED
    BY <2>1
<1> HIDE DEF N
<1>3. \A i \in 0..n : i \in N
  BY <1>0, <1>1, <1>2, InductionUpTo
<1>4. n \in N
  BY <1>0, <1>3
<1>5. QED
  BY <1>4 DEF N

LEMMA PrefixOfRoot ==
  ASSUME NEW p \in Seq(Token), p # Root
  PROVE  ~IsPrefix(p, Root)
<1>1. Len(p) \in Nat /\ Len(p) # 0
  BY PathFacts
<1>2. QED
  BY <1>1, PathFacts DEF IsPrefix

LEMMA PrefixFacts ==
  ASSUME NEW p \in Seq(Token), NEW q \in Seq(Token)
  PROVE  IsPrefix(p, q) <=> Len(p) <= Len(q) /\ \A i \in 1..Len(p) : p[i] = q[i]
<1>1. Len(p) \in Nat /\ Len(q) \in Nat
  OBVIOUS
<1> DEFINE a == SubSeq(p, 1, Len(p))
           b == SubSeq(q, 1, Len(p))
<1>2. CASE Len(p) <= Len(q)
  <2>1. /\ a \in Seq(Token) /\ Len(a) = Len(p)
        /\ \A i \in 1..Len(p) : a[i] = p[i]
    OBVIOUS
  <2>2. /\ b \in Seq(Token) /\ Len(b) = Len(p)
        /\ \A i \in 1..Len(p) : b[i] = q[i]
    BY <1>2
  <2> HIDE DEF a, b
  <2>3. a = b <=> \A i \in 1..Len(p) : p[i] = q[i]
    <3>1. ASSUME \A i \in 1..Len(p) : p[i] = q[i] PROVE a = b
      <4>1. \A i \in 1..Len(a) : a[i] = b[i]
        BY <2>1, <2>2, <3>1
      <4>2. QED
        BY <2>1, <2>2, <4>1, SamePath
    <3>2. ASSUME a = b PROVE \A i \in 1..Len(p) : p[i] = q[i]
      BY <2>1, <2>2, <3>2
    <3>3. QED
      BY <3>1, <3>2
  <2>4. QED
    BY <1>2, <2>3 DEF IsPrefix, a, b
<1>3. QED
  BY <1>2 DEF IsPrefix

LEMMA PrefixOfSelf ==
  ASSUME NEW p \in Seq(Token)
  PROVE  IsPrefix(p, p)
<1>1. Len(p) \in Nat
  OBVIOUS
<1>2. Len(p) <= Len(p) /\ \A i \in 1..Len(p) : p[i] = p[i]
  BY <1>1
<1>3. QED
  BY <1>2, PrefixFacts

LEMMA PrefixStep ==
  ASSUME NEW p \in Seq(Token), NEW r \in Seq(Token), NEW t \in Token,
         NEW q, q = Longer(r, t)
  PROVE  IsPrefix(p, q) <=> p = q \/ IsPrefix(p, r)
<1>1. /\ q \in Seq(Token) /\ Len(q) = Len(r) + 1 /\ Len(r) \in Nat
      /\ \A i \in 1..Len(r) : q[i] = r[i]
  BY LongerPath DEF Longer
<1>2. Len(p) \in Nat
  OBVIOUS
<1>3. IsPrefix(p, q) <=> Len(p) <= Len(q) /\ \A i \in 1..Len(p) : p[i] = q[i]
  BY <1>1, PrefixFacts
<1>4. IsPrefix(p, r) <=> Len(p) <= Len(r) /\ \A i \in 1..Len(p) : p[i] = r[i]
  BY PrefixFacts
<1>5. CASE Len(p) <= Len(r)
  <2>1. \A i \in 1..Len(p) : q[i] = r[i]
    BY <1>1, <1>2, <1>5
  <2>2. p # q /\ Len(p) <= Len(q)
    BY <1>1, <1>2, <1>5
  <2>3. QED
    BY <1>3, <1>4, <1>5, <2>1, <2>2
<1>6. CASE Len(p) = Len(q)
  <2>1. ~IsPrefix(p, r)
    BY <1>1, <1>2, <1>4, <1>6
  <2>2. (\A i \in 1..Len(p) : p[i] = q[i]) <=> p = q
    BY <1>1, <1>6, SamePath
  <2>3. QED
    BY <1>1, <1>2, <1>3, <1>6, <2>1, <2>2
<1>7. CASE Len(p) > Len(q)
  <2>1. p # q /\ ~(Len(p) <= Len(q)) /\ ~(Len(p) <= Len(r))
    BY <1>1, <1>2, <1>7
  <2>2. QED
    BY <1>3, <1>4, <2>1
<1>8. QED
  BY <1>1, <1>2, <1>5, <1>6, <1>7

(* Prefixes are the paths on the way.                                      *)
LEMMA PrefixOfPrefix ==
  ASSUME NEW p \in Seq(Token), NEW q \in Seq(Token), NEW r \in Seq(Token),
         IsPrefix(p, q), IsPrefix(q, r)
  PROVE  IsPrefix(p, r)
<1>1. Len(p) <= Len(q) /\ \A i \in 1..Len(p) : p[i] = q[i]
  BY PrefixFacts
<1>2. Len(q) <= Len(r) /\ \A i \in 1..Len(q) : q[i] = r[i]
  BY PrefixFacts
<1>3. Len(p) \in Nat /\ Len(q) \in Nat /\ Len(r) \in Nat
  OBVIOUS
<1>4. Len(p) <= Len(r) /\ \A i \in 1..Len(p) : p[i] = r[i]
  BY <1>1, <1>2, <1>3
<1>5. QED
  BY <1>4, PrefixFacts

-----------------------------------------------------------------------------
(* Where a path leads, one token at a time.                                *)
IsWalk(f, nodes, root, path) ==
  f = [i \in 0..Len(path) |->
         IF i = 0 THEN root
         ELSE IF f[i-1] = NULL THEN NULL ELSE Child(nodes, f[i-1], path[i])]

LEMMA ChildType ==
  ASSUME NEW nodes, NEW n, NEW t
  PROVE  /\ Child(nodes, n, t) \in DOMAIN nodes \cup {NULL}
         /\ Child(nodes, n, t) # NULL =>
              /\ Child(nodes, n, t) \in DOMAIN nodes
              /\ Child(nodes, n, t) \in Kids(nodes, n)
              /\ nodes[Child(nodes, n, t)].key = t
BY DEF Child, Kids

LEMMA WalkExists ==
  ASSUME NEW nodes, NEW root, NEW path \in Seq(Token)
  PROVE  \E f : IsWalk(f, nodes, root, path)
<1> DEFINE n == Len(path)
           S == DOMAIN nodes \cup {NULL, root}
           g == [i \in 1..n |->
                   [s \in S |-> IF s = NULL THEN NULL ELSE Child(nodes, s, path[i])]]
<1>1. n \in Nat /\ root \in S
  OBVIOUS
<1>2. g \in [1..n -> [S -> S]]
  <2>1. \A s \in S : \A i \in 1..n :
          (IF s = NULL THEN NULL ELSE Child(nodes, s, path[i])) \in S
    BY ChildType
  <2>2. QED
    BY <2>1
<1>3. PICK f : UnfoldsTo(f, n, S, root, g)
  <2> HIDE DEF n, S, g
  <2>1. QED
    BY <1>1, <1>2, Recursion
<1>4. f \in [0..n -> S] /\ f[0] = root /\ \A i \in 1..n : f[i] = g[i][f[i-1]]
  <2> HIDE DEF n, S, g
  <2>1. QED
    BY <1>3 DEF UnfoldsTo
<1>5. \A i \in 0..n : i = 0 \/ (i \in 1..n /\ i - 1 \in 0..n)
  <2> HIDE DEF n
  <2>1. QED
    BY <1>1
<1>6. ASSUME NEW i \in 1..n
      PROVE  f[i] = IF f[i-1] = NULL THEN NULL ELSE Child(nodes, f[i-1], path[i])
  <2>1. f[i-1] \in S
    BY <1>1, <1>4
  <2>2. QED
    BY <1>4, <2>1
<1>7. f = [i \in 0..n |->
             IF i = 0 THEN root
             ELSE IF f[i-1] = NULL THEN NULL ELSE Child(nodes, f[i-1], path[i])]
  <2> HIDE DEF n, S, g
  <2>1. QED
    BY <1>4, <1>5, <1>6
<1>8. IsWalk(f, nodes, root, path)
  BY <1>7 DEF IsWalk
<1>9. QED
  BY <1>8

LEMMA NodeAtWalk ==
  ASSUME NEW nodes, NEW root, NEW path \in Seq(Token)
  PROVE  \E f : IsWalk(f, nodes, root, path) /\ NodeAt(nodes, root, path) = f[Len(path)]
<1> DEFINE f == CHOOSE f : IsWalk(f, nodes, root, path)
<1>1. IsWalk(f, nodes, root, path)
  BY WalkExists
<1>2. NodeAt(nodes, root, path) = f[Len(path)]
  BY DEF NodeAt, IsWalk
<1>3. QED
  BY <1>1, <1>2

LEMMA WalkSteps ==
  ASSUME NEW nodes, NEW root, NEW path \in Seq(Token), NEW f, IsWalk(f, nodes, root, path)
  PROVE  /\ f[0] = root
         /\ \A i \in 1..Len(path) :
               f[i] = IF f[i-1] = NULL THEN NULL ELSE Child(nodes, f[i-1], path[i])
<1>1. Len(path) \in Nat
  OBVIOUS
<1>2. 0 \in 0..Len(path) /\ \A i \in 1..Len(path) : i \in 0..Len(path) /\ i # 0
  BY <1>1
<1>3. QED
  BY <1>2 DEF IsWalk

LEMMA NodeAtRoot ==
  ASSUME NEW nodes, NEW root
  PROVE  NodeAt(nodes, root, Root) = root
<1>1. PICK f : IsWalk(f, nodes, root, Root) /\ NodeAt(nodes, root, Root) = f[Len(Root)]
  BY PathFacts, NodeAtWalk
<1>2. 0 \in 0..Len(Root)
  BY PathFacts
<1>3. f[0] = root
  BY <1>1, <1>2 DEF IsWalk
<1>4. QED
  BY <1>1, <1>3, PathFacts

LEMMA NodeAtLonger ==
  ASSUME NEW nodes, NEW root, NEW r \in Seq(Token), NEW t \in Token
  PROVE  NodeAt(nodes, root, Longer(r, t)) =
           IF NodeAt(nodes, root, r) = NULL THEN NULL
           ELSE Child(nodes, NodeAt(nodes, root, r), t)
<1> DEFINE q == Longer(r, t)
           n == Len(r)
<1>1. /\ q \in Seq(Token) /\ Len(q) = n + 1 /\ n \in Nat
      /\ \A i \in 1..n : q[i] = r[i]
      /\ q[n + 1] = t
  BY LongerPath
<1> HIDE DEF q
<1>2. PICK f : IsWalk(f, nodes, root, q) /\ NodeAt(nodes, root, q) = f[Len(q)]
  BY <1>1, NodeAtWalk
<1>3. PICK h : IsWalk(h, nodes, root, r) /\ NodeAt(nodes, root, r) = h[n]
  BY NodeAtWalk
<1>4. f[0] = root /\ \A i \in 1..n+1 :
        f[i] = IF f[i-1] = NULL THEN NULL ELSE Child(nodes, f[i-1], q[i])
  BY <1>1, <1>2, WalkSteps
<1>5. h[0] = root /\ \A i \in 1..n :
        h[i] = IF h[i-1] = NULL THEN NULL ELSE Child(nodes, h[i-1], r[i])
  BY <1>3, WalkSteps
<1> HIDE DEF n
<1>6. \A i \in 0..n : f[i] = h[i]
  <2> DEFINE N == {i \in 0..n : f[i] = h[i]}
  <2>1. 0 \in N
    BY <1>1, <1>4, <1>5
  <2>2. ASSUME NEW i \in 1..n, i - 1 \in N PROVE i \in N
    <3>1. i \in 1..n+1 /\ f[i-1] = h[i-1] /\ q[i] = r[i]
      BY <1>1, <2>2
    <3>2. f[i] = h[i]
      BY <1>4, <1>5, <3>1
    <3>3. QED
      BY <1>1, <3>2
  <2> HIDE DEF N
  <2>3. \A i \in 0..n : i \in N
    BY <1>1, <2>1, <2>2, InductionUpTo
  <2>4. QED
    BY <2>3 DEF N
<1>7. f[n + 1] = IF f[n] = NULL THEN NULL ELSE Child(nodes, f[n], t)
  <2>1. n + 1 \in 1..n+1 /\ (n + 1) - 1 = n
    BY <1>1
  <2>2. QED
    BY <1>1, <1>4, <2>1
<1>8. f[n] = h[n]
  BY <1>1, <1>6
<1>9. QED
  BY <1>1, <1>2, <1>3, <1>7, <1>8 DEF q

-----------------------------------------------------------------------------
(* A heap with a tree.                                                     *)
IsRooted(nodes, root) ==
  IsHeap(nodes) /\ root \in DOMAIN nodes /\ nodes[root].buffer = NULL

LEMMA RootIsNoKid ==
  ASSUME NEW nodes, NEW root, IsRooted(nodes, root)
  PROVE  \A m \in DOMAIN nodes : root \notin Kids(nodes, m)
BY DEF IsRooted, IsHeap, HasKids

LEMMA ChildFacts ==
  ASSUME NEW nodes, IsHeap(nodes), NEW n \in DOMAIN nodes, NEW t
  PROVE  /\ \A c \in Kids(nodes, n) : nodes[c].key = t => Child(nodes, n, t) = c
         /\ Child(nodes, n, t) = NULL \/
              /\ Child(nodes, n, t) \in DOMAIN nodes
              /\ Child(nodes, n, t) \in Kids(nodes, n)
              /\ nodes[Child(nodes, n, t)].key = t
              /\ nodes[Child(nodes, n, t)].buffer # NULL
         /\ NULL \notin DOMAIN nodes
<1> DEFINE named == {c \in ToSet(nodes[n].children) \cap DOMAIN nodes : nodes[c].key = t}
<1>0. HasKids(nodes, n) /\ NULL \notin DOMAIN nodes
  BY NullAssumption DEF IsHeap
<1>1. ASSUME NEW c \in Kids(nodes, n), nodes[c].key = t PROVE Child(nodes, n, t) = c
  <2>1. named = {c}
    BY <1>0, <1>1 DEF HasKids, Kids
  <2>2. QED
    BY <2>1 DEF Child
<1>2. QED
  BY <1>0, <1>1, ChildType DEF HasKids

(* A path leads to a node of the tree, another than the root if there is a *)
(* token in it.                                                            *)
LEMMA NodeAtRange ==
  ASSUME NEW nodes, NEW root, IsRooted(nodes, root), NEW q \in Seq(Token),
         NodeAt(nodes, root, q) # NULL
  PROVE  /\ NodeAt(nodes, root, q) \in Reached(nodes, root)
         /\ NodeAt(nodes, root, q) \in DOMAIN nodes
         /\ q # Root => nodes[NodeAt(nodes, root, q)].buffer # NULL
<1> DEFINE At2(r) == NodeAt(nodes, root, r)
           Holds(r) == At2(r) # NULL => /\ At2(r) \in Reached(nodes, root)
                                        /\ r # Root => nodes[At2(r)].buffer # NULL
           A == {r \in Seq(Token) : Holds(r)}
<1>0. IsHeap(nodes) /\ root \in DOMAIN nodes
  BY DEF IsRooted
<1>1. Root \in A
  BY <1>0, NodeAtRoot, ReachedSelf, PathFacts
<1>2. ASSUME NEW r \in Seq(Token), r \in A, NEW t \in Token PROVE Longer(r, t) \in A
  <2> DEFINE a == Longer(r, t)
  <2>1. a \in Seq(Token)
    BY LongerPath DEF Longer
  <2>2. At2(a) = IF At2(r) = NULL THEN NULL ELSE Child(nodes, At2(r), t)
    BY NodeAtLonger
  <2> HIDE DEF a, At2
  <2>3. ASSUME At2(a) # NULL
        PROVE  At2(a) \in Reached(nodes, root) /\ nodes[At2(a)].buffer # NULL
    <3>1. At2(r) # NULL /\ At2(a) = Child(nodes, At2(r), t)
      BY <2>2, <2>3
    <3>2. At2(r) \in Reached(nodes, root) /\ At2(r) \in DOMAIN nodes
      BY <1>0, <1>2, <3>1, ReachedSelf
    <3>3. /\ At2(a) \in DOMAIN nodes /\ At2(a) \in Kids(nodes, At2(r))
          /\ nodes[At2(a)].buffer # NULL
      BY <1>0, <2>3, <3>1, <3>2, ChildFacts
    <3>4. QED
      BY <3>2, <3>3, ReachedKids
  <2>4. a \in A
    BY <2>1, <2>3
  <2>5. QED
    BY <2>4 DEF a
<1> HIDE DEF A
<1>3. \A r \in Seq(Token) : r \in A
  BY <1>1, <1>2, PathInduction
<1>4. q \in A
  BY <1>3
<1>5. Reached(nodes, root) \subseteq DOMAIN nodes
  BY <1>0, ReachedSelf
<1>6. QED
  BY <1>4, <1>5 DEF A

(* One token further.                                                      *)
LEMMA NodeAtKid ==
  ASSUME NEW nodes, NEW root, IsRooted(nodes, root), NEW r \in Seq(Token),
         NEW t \in Token, NEW a, a = Longer(r, t), NodeAt(nodes, root, a) # NULL
  PROVE  /\ NodeAt(nodes, root, r) # NULL /\ NodeAt(nodes, root, r) \in DOMAIN nodes
         /\ NodeAt(nodes, root, a) \in DOMAIN nodes
         /\ NodeAt(nodes, root, a) \in Kids(nodes, NodeAt(nodes, root, r))
         /\ nodes[NodeAt(nodes, root, a)].key = t
<1>1. NodeAt(nodes, root, r) # NULL
  BY NodeAtLonger
<1>2. NodeAt(nodes, root, r) \in DOMAIN nodes
  BY <1>1, NodeAtRange
<1>3. NodeAt(nodes, root, a) = Child(nodes, NodeAt(nodes, root, r), t)
  BY <1>1, NodeAtLonger
<1>4. QED
  BY <1>1, <1>2, <1>3, ChildType

(* Two paths never lead to the same node.                                  *)
LEMMA NodeAtInjective ==
  ASSUME NEW nodes, NEW root, IsRooted(nodes, root),
         NEW p \in Seq(Token), NEW q \in Seq(Token),
         NodeAt(nodes, root, p) = NodeAt(nodes, root, q), NodeAt(nodes, root, q) # NULL
  PROVE  p = q
<1> DEFINE At2(r) == NodeAt(nodes, root, r)
           A == {r \in Seq(Token) :
                   \A s \in Seq(Token) : At2(r) = At2(s) /\ At2(s) # NULL => r = s}
<1>0. nodes[root].buffer = NULL /\ OneParent(nodes) /\ At2(Root) = root
  BY NodeAtRoot DEF IsRooted, IsHeap
<1>1. Root \in A
  <2>1. ASSUME NEW s \in Seq(Token), At2(Root) = At2(s), At2(s) # NULL PROVE s = Root
    BY <1>0, <2>1, NodeAtRange
  <2>2. QED
    BY <2>1, PathFacts
<1>2. ASSUME NEW r \in Seq(Token), r \in A, NEW t \in Token PROVE Longer(r, t) \in A
  <2> DEFINE a == Longer(r, t)
  <2>0. a \in Seq(Token) /\ a = Longer(r, t) /\ a # Root
    BY LongerPath
  <2> HIDE DEF a
  <2>1. ASSUME NEW s \in Seq(Token), At2(a) = At2(s), At2(s) # NULL PROVE a = s
    <3>1. At2(a) # NULL
      BY <2>1
    <3>2. /\ At2(r) # NULL /\ At2(r) \in DOMAIN nodes
          /\ At2(a) \in Kids(nodes, At2(r)) /\ nodes[At2(a)].key = t
      BY <2>0, <3>1, NodeAtKid
    <3>3. s # Root
      <4>1. nodes[At2(a)].buffer # NULL
        BY <2>0, <3>1, NodeAtRange
      <4>2. QED
        BY <1>0, <2>1, <4>1
    <3>4. PICK n \in Nat : Len(s) = n + 1
      <4>1. Len(s) \in Nat /\ Len(s) # 0
        BY <3>3, PathFacts
      <4>2. Len(s) - 1 \in Nat /\ Len(s) = (Len(s) - 1) + 1
        BY <4>1
      <4>3. QED
        BY <4>2
    <3>5. PICK r2 \in Seq(Token), u \in Token : s = Longer(r2, u)
      <4>1. \E x \in Seq(Token) : \E y \in Token : s = Longer(x, y) /\ Len(x) = n
        BY <3>4, ShorterPath, Zenon
      <4>2. QED
        BY <4>1, Zenon
    <3>6. /\ At2(r2) # NULL /\ At2(r2) \in DOMAIN nodes
          /\ At2(s) \in Kids(nodes, At2(r2)) /\ nodes[At2(s)].key = u
      BY <2>1, <3>5, NodeAtKid
    <3>7. At2(r) = At2(r2) /\ t = u
      BY <1>0, <2>1, <3>2, <3>6 DEF OneParent
    <3>8. r = r2
      BY <1>2, <3>6, <3>7
    <3>9. QED
      BY <2>0, <3>5, <3>7, <3>8
  <2>2. a \in A
    BY <2>0, <2>1
  <2>3. QED
    BY <2>0, <2>2
<1> HIDE DEF A
<1>3. \A r \in Seq(Token) : r \in A
  BY <1>1, <1>2, PathInduction
<1>4. p \in A
  BY <1>3
<1>5. QED
  BY <1>4 DEF A

(* The paths that go on from p lead to the nodes that p's node reaches.    *)
LEMMA BelowIsPrefix ==
  ASSUME NEW nodes, NEW root, IsRooted(nodes, root),
         NEW p \in Seq(Token), NEW n, n = NodeAt(nodes, root, p), n # NULL,
         NEW q \in Seq(Token), NodeAt(nodes, root, q) # NULL
  PROVE  NodeAt(nodes, root, q) \in Reached(nodes, n) <=> IsPrefix(p, q)
<1> DEFINE At2(r) == NodeAt(nodes, root, r)
           A == {r \in Seq(Token) :
                   At2(r) # NULL => (At2(r) \in Reached(nodes, n) <=> IsPrefix(p, r))}
<1>0. /\ n \in DOMAIN nodes /\ root \in DOMAIN nodes /\ OneParent(nodes)
      /\ At2(Root) = root /\ n \in Reached(nodes, n)
  BY NodeAtRange, NodeAtRoot, ReachedSelf DEF IsRooted, IsHeap
<1>1. Root \in A
  <2>1. root \in Reached(nodes, n) => n = root
    BY <1>0, RootIsNoKid, ReachedNotRoot
  <2>2. n = root => p = Root
    BY <1>0, NodeAtInjective, PathFacts
  <2>3. IsPrefix(Root, Root)
    BY PathFacts, PrefixOfSelf
  <2>4. IsPrefix(p, Root) => p = Root
    BY PrefixOfRoot
  <2>5. root \in Reached(nodes, n) <=> IsPrefix(p, Root)
    BY <1>0, <2>1, <2>2, <2>3, <2>4
  <2>6. QED
    BY <1>0, <2>5, PathFacts
<1>2. ASSUME NEW r \in Seq(Token), r \in A, NEW t \in Token PROVE Longer(r, t) \in A
  <2> DEFINE a == Longer(r, t)
  <2>0. a \in Seq(Token) /\ a = Longer(r, t)
    BY LongerPath DEF Longer
  <2> HIDE DEF a
  <2>1. ASSUME At2(a) # NULL PROVE At2(a) \in Reached(nodes, n) <=> IsPrefix(p, a)
    <3>1. /\ At2(r) # NULL /\ At2(r) \in DOMAIN nodes
          /\ At2(a) \in DOMAIN nodes /\ At2(a) \in Kids(nodes, At2(r))
      BY <2>0, <2>1, NodeAtKid
    <3>2. IsPrefix(p, a) <=> p = a \/ IsPrefix(p, r)
      BY <2>0, PrefixStep DEF Longer
    <3>3. At2(r) \in Reached(nodes, n) <=> IsPrefix(p, r)
      BY <1>2, <3>1
    <3>4. At2(a) = n <=> p = a
      BY <2>0, <2>1, NodeAtInjective
    <3>5. At2(r) \in Reached(nodes, n) => At2(a) \in Reached(nodes, n)
      BY <3>1, ReachedKids
    <3>6. At2(a) \in Reached(nodes, n) /\ At2(a) # n => At2(r) \in Reached(nodes, n)
      BY <1>0, <3>1, ReachedFromInside
    <3> HIDE DEF At2
    <3>7. QED
      BY <1>0, <3>2, <3>3, <3>4, <3>5, <3>6
  <2>2. a \in A
    BY <2>0, <2>1
  <2>3. QED
    BY <2>0, <2>2
<1> HIDE DEF A
<1>3. \A r \in Seq(Token) : r \in A
  BY <1>1, <1>2, PathInduction
<1>4. q \in A
  BY <1>3
<1>5. QED
  BY <1>4 DEF A

(* What a new node under the one at p does to the other paths: nothing.    *)
LEMMA ChildOfLinked ==
  ASSUME NEW nodes, IsHeap(nodes), NEW n \in DOMAIN nodes,
         NEW new \in Address \ DOMAIN nodes, NEW t \in Token, Child(nodes, n, t) = NULL,
         NEW other, other = Linked(nodes, n, new, t)
  PROVE  /\ \A u : Child(other, new, u) = NULL
         /\ \A m \in DOMAIN nodes : \A u :
              Child(other, m, u) = IF m = n /\ u = t THEN new ELSE Child(nodes, m, u)
<1>0. \A c \in Kids(nodes, n) : nodes[c].key # t
  <2>1. \A c \in Kids(nodes, n) : c # NULL
    BY NullAssumption DEF IsHeap, HasKids
  <2>2. QED
    BY <2>1, ChildFacts
<1>1. IsHeap(other)
  BY <1>0, LinkedIsHeap
<1>2. HasNew(other, nodes, n, new, t)
  BY LinkedFacts
<1>3. /\ DOMAIN other = DOMAIN nodes \cup {new}
      /\ other[new].key = t /\ Kids(other, new) = {}
      /\ \A m \in DOMAIN nodes :
           /\ other[m].key = nodes[m].key
           /\ Kids(other, m) = Kids(nodes, m) \cup IF m = n THEN {new} ELSE {}
  BY <1>2 DEF HasNew
<1>4. \A u : Child(other, new, u) = NULL
  BY <1>3, ChildType
<1>5. ASSUME NEW m \in DOMAIN nodes, NEW u
      PROVE  Child(other, m, u) = IF m = n /\ u = t THEN new ELSE Child(nodes, m, u)
  <2>1. CASE m = n /\ u = t
    <3>1. new \in Kids(other, n)
      BY <1>3
    <3>2. QED
      BY <1>1, <1>3, <2>1, <3>1, ChildFacts
  <2>2. CASE ~(m = n /\ u = t)
    <3>1. CASE Child(nodes, m, u) = NULL
      <4>1. ASSUME Child(other, m, u) # NULL PROVE FALSE
        <5> DEFINE c == Child(other, m, u)
        <5>1. c \in DOMAIN other /\ c \in Kids(other, m) /\ other[c].key = u
          BY <4>1, ChildType
        <5> HIDE DEF c
        <5>2. c \in Kids(nodes, m)
          BY <1>3, <2>2, <5>1
        <5>3. c \in DOMAIN nodes /\ nodes[c].key = u
          BY <1>3, <5>1, <5>2 DEF IsHeap, HasKids
        <5>4. Child(nodes, m, u) = c /\ c # NULL
          BY <5>2, <5>3, ChildFacts
        <5>5. QED
          BY <3>1, <5>4
      <4>2. QED
        BY <2>2, <3>1, <4>1
    <3>2. CASE Child(nodes, m, u) # NULL
      <4> DEFINE c == Child(nodes, m, u)
      <4>1. c \in DOMAIN nodes /\ c \in Kids(nodes, m) /\ nodes[c].key = u
        BY <3>2, ChildType
      <4> HIDE DEF c
      <4>2. m \in DOMAIN other /\ c \in Kids(other, m) /\ other[c].key = u
        BY <1>3, <4>1
      <4>3. Child(other, m, u) = c
        BY <1>1, <4>2, ChildFacts
      <4>4. QED
        BY <2>2, <4>3 DEF c
    <3>3. QED
      BY <3>1, <3>2
  <2>3. QED
    BY <2>1, <2>2
<1>6. QED
  BY <1>4, <1>5

LEMMA NodeAtLinked ==
  ASSUME NEW nodes, NEW root, IsRooted(nodes, root),
         NEW p \in Seq(Token), NEW n, n = NodeAt(nodes, root, p), n # NULL,
         NEW new \in Address \ DOMAIN nodes, NEW t \in Token, Child(nodes, n, t) = NULL,
         NEW other, other = Linked(nodes, n, new, t), NEW q \in Seq(Token)
  PROVE  NodeAt(other, root, q) = IF q = Longer(p, t) THEN new ELSE NodeAt(nodes, root, q)
<1> DEFINE At2(r) == NodeAt(nodes, root, r)
           New(r) == NodeAt(other, root, r)
           A == {r \in Seq(Token) : New(r) = IF r = Longer(p, t) THEN new ELSE At2(r)}
           l == Longer(p, t)
<1>0. /\ IsHeap(nodes) /\ n \in DOMAIN nodes
      /\ l \in Seq(Token) /\ l = Longer(p, t) /\ l # Root /\ Len(l) = Len(p) + 1
      /\ Len(p) \in Nat
  BY NodeAtRange, LongerPath DEF IsRooted, Longer
<1>1. /\ \A u : Child(other, new, u) = NULL
      /\ \A m \in DOMAIN nodes : \A u :
           Child(other, m, u) = IF m = n /\ u = t THEN new ELSE Child(nodes, m, u)
  BY <1>0, ChildOfLinked
<1>2. Root \in A
  BY <1>0, NodeAtRoot, PathFacts
<1>3. ASSUME NEW r \in Seq(Token), r \in A, NEW u \in Token PROVE Longer(r, u) \in A
  <2> DEFINE a == Longer(r, u)
  <2>0. a \in Seq(Token) /\ a = Longer(r, u)
    BY LongerPath DEF Longer
  <2> HIDE DEF a, l
  <2>1. New(a) = IF New(r) = NULL THEN NULL ELSE Child(other, New(r), u)
    BY <2>0, NodeAtLonger
  <2>2. At2(a) = IF At2(r) = NULL THEN NULL ELSE Child(nodes, At2(r), u)
    BY <2>0, NodeAtLonger
  <2>3. a = l => r = p /\ u = t
    <3>1. a = l => Longer(r, u) = Longer(p, t)
      BY <1>0, <2>0
    <3>2. QED
      BY <3>1, SameLonger
  <2>4. CASE r = l
    <3>1. New(r) = new /\ At2(r) = NULL
      <4>1. New(r) = new
        BY <1>0, <1>3, <2>4
      <4>2. At2(l) = Child(nodes, n, t)
        BY <1>0, NodeAtLonger
      <4>3. QED
        BY <2>4, <4>1, <4>2
    <3>2. a # l
      BY <1>0, <2>3, <2>4
    <3>3. QED
      BY <1>0, <1>1, <2>0, <2>1, <2>2, <3>1, <3>2
  <2>5. CASE r # l
    <3>1. New(r) = At2(r)
      BY <1>0, <1>3, <2>5
    <3>2. CASE At2(r) = NULL
      <4>1. a # l
        BY <2>3, <3>2
      <4>2. QED
        BY <1>0, <2>0, <2>1, <2>2, <3>1, <3>2, <4>1
    <3>3. CASE At2(r) # NULL
      <4>1. At2(r) \in DOMAIN nodes
        BY <3>3, NodeAtRange
      <4>2. At2(r) = n => r = p
        BY <3>3, NodeAtInjective
      <4>3. At2(r) = n /\ u = t <=> a = l
        BY <1>0, <2>0, <2>3, <4>2
      <4> HIDE DEF At2, New
      <4>4. New(a) = IF a = l THEN new ELSE At2(a)
        BY <1>1, <2>1, <2>2, <3>1, <3>3, <4>1, <4>3
      <4>5. QED
        BY <1>0, <2>0, <4>4
    <3>4. QED
      BY <3>2, <3>3
  <2>6. QED
    BY <2>4, <2>5
<1> HIDE DEF A
<1>4. \A r \in Seq(Token) : r \in A
  BY <1>2, <1>3, PathInduction
<1>5. q \in A
  BY <1>4
<1>6. QED
  BY <1>5 DEF A

(* A pruned heap: the paths on from p lead nowhere, the others as before.  *)
LEMMA ChildOfPruned ==
  ASSUME NEW nodes, IsHeap(nodes), NEW n \in DOMAIN nodes,
         NEW other, other = Pruned(nodes, n), NEW m \in DOMAIN other, NEW u
  PROVE  Child(other, m, u) = IF Child(nodes, m, u) = n THEN NULL ELSE Child(nodes, m, u)
<1>1. /\ IsHeap(other)
      /\ DOMAIN other = DOMAIN nodes \ Reached(nodes, n)
      /\ \A i \in DOMAIN other :
           other[i].key = nodes[i].key /\ Kids(other, i) = Kids(nodes, i) \ {n}
  BY PrunedFacts DEF HasLost
<1>2. m \in DOMAIN nodes /\ Kids(other, m) \subseteq DOMAIN other
  BY <1>1 DEF IsHeap, HasKids
<1> DEFINE c == Child(nodes, m, u)
           e == Child(other, m, u)
<1>3. c = NULL \/ (c \in Kids(nodes, m) /\ nodes[c].key = u)
  BY ChildType
<1>4. e = NULL \/ (e \in Kids(other, m) /\ other[e].key = u)
  BY ChildType
<1>5. \A i \in Kids(nodes, m) : nodes[i].key = u => c = i
  BY <1>2, ChildFacts
<1>6. \A i \in Kids(other, m) : other[i].key = u => e = i
  BY <1>1, ChildFacts
<1>7. n # NULL
  BY NullAssumption DEF IsHeap
<1> HIDE DEF c, e
<1>8. CASE c = NULL \/ c = n
  <2>1. ASSUME e # NULL PROVE FALSE
    <3>1. e \in Kids(nodes, m) /\ e # n /\ e \in DOMAIN other /\ other[e].key = u
      BY <1>1, <1>2, <1>4, <2>1
    <3>2. c = e
      BY <1>1, <1>5, <3>1
    <3>3. QED
      BY <1>8, <2>1, <3>1, <3>2
  <2>2. QED
    BY <1>7, <1>8, <2>1 DEF c, e
<1>9. CASE c # NULL /\ c # n
  <2>1. c \in Kids(other, m) /\ c \in DOMAIN other /\ other[c].key = u
    BY <1>1, <1>2, <1>3, <1>9
  <2>2. e = c
    BY <1>6, <2>1
  <2>3. QED
    BY <1>9, <2>2 DEF c, e
<1>10. QED
  BY <1>8, <1>9

LEMMA NodeAtPruned ==
  ASSUME NEW nodes, NEW root, IsRooted(nodes, root),
         NEW p \in Seq(Token), NEW n, n = NodeAt(nodes, root, p), n # NULL, p # Root,
         NEW other, other = Pruned(nodes, n), NEW q \in Seq(Token)
  PROVE  NodeAt(other, root, q) = IF IsPrefix(p, q) THEN NULL ELSE NodeAt(nodes, root, q)
<1> DEFINE At2(r) == NodeAt(nodes, root, r)
           New(r) == NodeAt(other, root, r)
           A == {r \in Seq(Token) : New(r) = IF IsPrefix(p, r) THEN NULL ELSE At2(r)}
<1>0. /\ IsHeap(nodes) /\ n \in DOMAIN nodes
      /\ DOMAIN other = DOMAIN nodes \ Reached(nodes, n)
  <2>1. IsHeap(nodes) /\ n \in DOMAIN nodes
    BY NodeAtRange DEF IsRooted
  <2>2. QED
    BY <2>1, PrunedFacts DEF HasLost
<1>1. \A m \in DOMAIN other : \A u :
        Child(other, m, u) = IF Child(nodes, m, u) = n THEN NULL ELSE Child(nodes, m, u)
  BY <1>0, ChildOfPruned
<1>2. Root \in A
  BY NodeAtRoot, PathFacts, PrefixOfRoot
<1>3. ASSUME NEW r \in Seq(Token), r \in A, NEW u \in Token PROVE Longer(r, u) \in A
  <2> DEFINE a == Longer(r, u)
  <2>0. a \in Seq(Token) /\ a = Longer(r, u)
    BY LongerPath DEF Longer
  <2> HIDE DEF a
  <2>1. New(a) = IF New(r) = NULL THEN NULL ELSE Child(other, New(r), u)
    BY <2>0, NodeAtLonger
  <2>2. At2(a) = IF At2(r) = NULL THEN NULL ELSE Child(nodes, At2(r), u)
    BY <2>0, NodeAtLonger
  <2>3. IsPrefix(p, a) <=> p = a \/ IsPrefix(p, r)
    BY <2>0, PrefixStep DEF Longer
  <2>4. CASE New(r) = NULL
    <3>1. IsPrefix(p, r) \/ At2(r) = NULL
      BY <1>3, <2>4
    <3>2. QED
      BY <2>0, <2>1, <2>2, <2>3, <2>4, <3>1
  <2>5. CASE New(r) # NULL
    <3>1. ~IsPrefix(p, r) /\ New(r) = At2(r) /\ At2(r) # NULL
      BY <1>3, <2>5
    <3>2. At2(r) \in DOMAIN other
      <4>1. At2(r) \in DOMAIN nodes
        BY <3>1, NodeAtRange
      <4>2. At2(r) \notin Reached(nodes, n)
        BY <3>1, BelowIsPrefix
      <4>3. QED
        BY <1>0, <4>1, <4>2
    <3>3. At2(a) = n <=> p = a
      BY <2>0, NodeAtInjective
    <3>4. New(a) = IF At2(a) = n THEN NULL ELSE At2(a)
      <4> HIDE DEF At2, New
      <4>1. QED
        BY <1>1, <2>1, <2>2, <3>1, <3>2
    <3>5. New(a) = IF IsPrefix(p, a) THEN NULL ELSE At2(a)
      <4> HIDE DEF At2, New
      <4>1. QED
        BY <2>3, <3>1, <3>3, <3>4
    <3>6. QED
      BY <2>0, <3>5
  <2>6. QED
    BY <2>4, <2>5
<1> HIDE DEF A
<1>4. \A r \in Seq(Token) : r \in A
  BY <1>2, <1>3, PathInduction
<1>5. q \in A
  BY <1>4
<1>6. QED
  BY <1>5 DEF A

LEMMA PrunedIsRooted ==
  ASSUME NEW nodes, NEW root, IsRooted(nodes, root),
         NEW n \in Reached(nodes, root), n # root,
         NEW other, other = Pruned(nodes, n)
  PROVE  /\ IsRooted(other, root)
         /\ Reached(other, root) = Reached(nodes, root) \ Reached(nodes, n)
<1>1. /\ IsHeap(nodes) /\ OneParent(nodes) /\ root \in DOMAIN nodes /\ n \in DOMAIN nodes
      /\ nodes[root].buffer = NULL
  BY ReachedSelf DEF IsRooted, IsHeap
<1>2. \A m \in DOMAIN nodes : root \notin Kids(nodes, m)
  BY RootIsNoKid
<1>3. /\ IsHeap(other)
      /\ DOMAIN other = DOMAIN nodes \ Reached(nodes, n)
      /\ \A m \in DOMAIN other :
           /\ other[m].key = nodes[m].key /\ other[m].buffer = nodes[m].buffer
           /\ Kids(other, m) = Kids(nodes, m) \ {n}
  <2>1. HasLost(other, nodes, n)
    BY <1>1, PrunedFacts
  <2>2. QED
    BY <2>1 DEF HasLost
<1>4. root \notin Reached(nodes, n)
  BY <1>1, <1>2, ReachedNotRoot
<1>5. Reached(other, root) = Reached(nodes, root) \ Reached(nodes, n)
  BY <1>1, <1>2, <1>3, ReachedPruned
<1>6. QED
  BY <1>1, <1>3, <1>4, <1>5 DEF IsRooted

(* The same children with the same keys: the same paths.                   *)
SameShape(other, nodes) ==
  /\ DOMAIN other = DOMAIN nodes
  /\ \A m \in DOMAIN nodes :
       Kids(other, m) = Kids(nodes, m) /\ other[m].key = nodes[m].key

LEMMA SameNodeAt ==
  ASSUME NEW nodes, NEW root, NEW other, SameShape(other, nodes),
         NEW q \in Seq(Token), root \in DOMAIN nodes
  PROVE  NodeAt(other, root, q) = NodeAt(nodes, root, q)
<1> DEFINE At2(r) == NodeAt(nodes, root, r)
           New(r) == NodeAt(other, root, r)
           A == {r \in Seq(Token) :
                   New(r) = At2(r) /\ (At2(r) = NULL \/ At2(r) \in DOMAIN nodes)}
<1>1. \A m \in DOMAIN nodes : \A u : Child(other, m, u) = Child(nodes, m, u)
  <2>1. ASSUME NEW m \in DOMAIN nodes, NEW u PROVE Child(other, m, u) = Child(nodes, m, u)
    <3> DEFINE named(h) == {c \in ToSet(h[m].children) \cap DOMAIN h : h[c].key = u}
    <3>1. named(other) = named(nodes)
      BY DEF Kids, SameShape
    <3> DEFINE some(S) == IF S = {} THEN NULL ELSE CHOOSE c \in S : TRUE
    <3>2. Child(other, m, u) = some(named(other)) /\ Child(nodes, m, u) = some(named(nodes))
      BY DEF Child
    <3> HIDE DEF named, some
    <3>3. QED
      BY <3>1, <3>2
  <2>2. QED
    BY <2>1
<1>2. Root \in A
  BY NodeAtRoot, PathFacts
<1>3. ASSUME NEW r \in Seq(Token), r \in A, NEW u \in Token PROVE Longer(r, u) \in A
  <2> DEFINE a == Longer(r, u)
  <2>0. a \in Seq(Token) /\ a = Longer(r, u)
    BY LongerPath DEF Longer
  <2> HIDE DEF a
  <2>1. New(a) = IF New(r) = NULL THEN NULL ELSE Child(other, New(r), u)
    BY <2>0, NodeAtLonger
  <2>2. At2(a) = IF At2(r) = NULL THEN NULL ELSE Child(nodes, At2(r), u)
    BY <2>0, NodeAtLonger
  <2>3. New(r) = At2(r) /\ (At2(r) = NULL \/ At2(r) \in DOMAIN nodes)
    BY <1>3
  <2> HIDE DEF At2, New
  <2>4. New(a) = At2(a) /\ (At2(a) = NULL \/ At2(a) \in DOMAIN nodes)
    BY <1>1, <2>1, <2>2, <2>3, ChildType
  <2>5. QED
    BY <2>0, <2>4
<1> HIDE DEF A
<1>4. \A r \in Seq(Token) : r \in A
  BY <1>2, <1>3, PathInduction
<1>5. q \in A
  BY <1>4
<1>6. QED
  BY <1>5 DEF A

-----------------------------------------------------------------------------
(* The paths of the map.                                                   *)
LEMMA PathsFacts ==
  ASSUME NEW q
  PROVE  q \in Paths <=>
           q \in Seq(Token) /\ q # Root /\ \E p \in Path : IsPrefix(q, p)
<1>1. ASSUME NEW p \in Path PROVE p \in Seq(Token) /\ Len(p) \in Nat
  <2>1. p \in Seq(Token)
    BY PathAssumption
  <2>2. QED
    BY <2>1
<1>2. ASSUME NEW p \in Path, NEW l \in 0..Len(p), q = SubSeq(p, 1, l)
      PROVE  q \in Seq(Token) /\ IsPrefix(q, p)
  <2>1. p \in Seq(Token) /\ Len(p) \in Nat
    BY <1>1
  <2>2. q \in Seq(Token) /\ Len(q) = l /\ \A i \in 1..l : q[i] = p[i]
    BY <1>2, <2>1
  <2>3. Len(q) <= Len(p) /\ \A i \in 1..Len(q) : q[i] = p[i]
    BY <2>1, <2>2
  <2>4. QED
    BY <2>1, <2>2, <2>3, PrefixFacts
<1>3. ASSUME NEW p \in Path, q \in Seq(Token), IsPrefix(q, p)
      PROVE  \E l \in 0..Len(p) : q = SubSeq(p, 1, l)
  <2>1. p \in Seq(Token) /\ Len(p) \in Nat /\ Len(q) \in Nat
    BY <1>1, <1>3
  <2>2. Len(q) <= Len(p) /\ \A i \in 1..Len(q) : q[i] = p[i]
    BY <1>3, <2>1, PrefixFacts
  <2> DEFINE l == Len(q)
             b == SubSeq(p, 1, l)
  <2>3. b \in Seq(Token) /\ Len(b) = l /\ \A i \in 1..l : b[i] = p[i]
    BY <2>1, <2>2
  <2> HIDE DEF b
  <2>4. q = b
    BY <1>3, <2>2, <2>3, SamePath
  <2>5. l \in 0..Len(p)
    BY <2>1, <2>2
  <2>6. QED
    BY <2>4, <2>5 DEF b
<1>4. q \in UNION {Prefixes(p) : p \in Path} <=>
        \E p \in Path : \E l \in 0..Len(p) : q = SubSeq(p, 1, l)
  BY DEF Prefixes
<1>5. q \in UNION {Prefixes(p) : p \in Path} <=>
        q \in Seq(Token) /\ \E p \in Path : IsPrefix(q, p)
  BY <1>2, <1>3, <1>4
<1>6. QED
  <2> DEFINE all == UNION {Prefixes(p) : p \in Path}
  <2>1. Paths = all \ {Root}
    BY DEF Paths, Root
  <2>2. q \in all <=> q \in Seq(Token) /\ \E p \in Path : IsPrefix(q, p)
    BY <1>5
  <2> HIDE DEF all
  <2>3. QED
    BY <2>1, <2>2

(* The walks of an insert, one token at a time.                            *)
Start == [node |-> node, length |-> tree.length, at |-> tree.root]

IsTrip(f, path) ==
  f = [i \in 0..Len(path) |->
         IF i = 0 THEN {Start} ELSE UNION {Enter(s, path[i]) : s \in f[i-1]}]

LEMMA TripExists ==
  ASSUME NEW path \in Seq(Token)
  PROVE  \E f : IsTrip(f, path)
<1> DEFINE n == Len(path)
           Solves(m, f) ==
             f = [i \in 0..m |->
                    IF i = 0 THEN {Start} ELSE UNION {Enter(s, path[i]) : s \in f[i-1]}]
           M == {m \in 0..n : \E f : Solves(m, f)}
<1>0. n \in Nat
  OBVIOUS
<1>1. 0 \in M
  <2> DEFINE f == [i \in 0..0 |-> {Start}]
  <2>1. \A i \in 0..0 : i = 0
    OBVIOUS
  <2>2. Solves(0, f)
    BY <2>1
  <2> HIDE DEF Solves, f
  <2>3. QED
    BY <1>0, <2>2
<1>2. ASSUME NEW m \in 1..n, m - 1 \in M PROVE m \in M
  <2>1. PICK f : Solves(m - 1, f)
    BY <1>2
  <2> DEFINE e == [i \in 0..m |-> IF i = m THEN UNION {Enter(s, path[m]) : s \in f[m-1]}
                                  ELSE f[i]]
  <2>2. m \in Nat /\ m # 0 /\ \A i \in 0..m-1 : i \in 0..m /\ i # m
    BY <1>0
  <2>3. ASSUME NEW i \in 0..m
        PROVE  e[i] = IF i = 0 THEN {Start} ELSE UNION {Enter(s, path[i]) : s \in e[i-1]}
    <3>1. CASE i = 0
      <4>1. 0 \in 0..m-1 /\ 0 \in 0..m /\ 0 # m
        BY <2>2
      <4>2. f[0] = {Start} /\ e[0] = f[0]
        BY <2>1, <4>1
      <4>3. QED
        BY <3>1, <4>2
    <3>2. CASE i # 0
      <4>1. i - 1 \in 0..m /\ i - 1 # m /\ i - 1 \in 0..m-1
        BY <2>2, <3>2
      <4>2. e[i-1] = f[i-1]
        BY <4>1
      <4>3. CASE i = m
        BY <3>2, <4>2, <4>3
      <4>4. CASE i # m
        <5>1. i \in 0..m-1
          BY <2>2, <4>4
        <5>2. f[i] = UNION {Enter(s, path[i]) : s \in f[i-1]}
          BY <2>1, <3>2, <5>1
        <5>3. QED
          BY <3>2, <4>2, <4>4, <5>2
      <4>5. QED
        BY <4>3, <4>4
    <3>3. QED
      BY <3>1, <3>2
  <2>4. e = [i \in 0..m |-> e[i]]
    OBVIOUS
  <2> HIDE DEF e
  <2>5. Solves(m, e)
    BY <2>3, <2>4
  <2> HIDE DEF Solves
  <2>6. QED
    BY <2>5
<1>3. n \in M
  <2> HIDE DEF M
  <2>1. \A m \in 0..n : m \in M
    BY <1>0, <1>1, <1>2, InductionUpTo
  <2>2. QED
    BY <1>0, <2>1
<1>4. QED
  BY <1>3 DEF IsTrip

LEMMA WalksTrip ==
  ASSUME NEW path \in Seq(Token)
  PROVE  \E f : IsTrip(f, path) /\ Walks(path) = f[Len(path)]
<1> DEFINE f == CHOOSE f : IsTrip(f, path)
<1>1. IsTrip(f, path)
  BY TripExists
<1>2. Walks(path) = f[Len(path)]
  BY DEF Walks, IsTrip, Start
<1>3. QED
  BY <1>1, <1>2

LEMMA TripSteps ==
  ASSUME NEW path \in Seq(Token), NEW f, IsTrip(f, path)
  PROVE  /\ f[0] = {Start}
         /\ \A i \in 1..Len(path) : f[i] = UNION {Enter(s, path[i]) : s \in f[i-1]}
<1>1. Len(path) \in Nat
  OBVIOUS
<1>2. 0 \in 0..Len(path) /\ \A i \in 1..Len(path) : i \in 0..Len(path) /\ i # 0
  BY <1>1
<1>3. QED
  BY <1>2 DEF IsTrip

LEMMA WalksRoot == Walks(Root) = {Start}
<1>1. PICK f : IsTrip(f, Root) /\ Walks(Root) = f[Len(Root)]
  BY PathFacts, WalksTrip
<1>2. 0 \in 0..Len(Root)
  BY PathFacts
<1>3. f[0] = {Start}
  BY <1>1, <1>2 DEF IsTrip
<1>4. QED
  BY <1>1, <1>3, PathFacts

LEMMA WalksLonger ==
  ASSUME NEW r \in Seq(Token), NEW t \in Token
  PROVE  Walks(Longer(r, t)) = UNION {Enter(s, t) : s \in Walks(r)}
<1> DEFINE q == Longer(r, t)
           n == Len(r)
           Then(S, u) == UNION {Enter(s, u) : s \in S}
<1>1. /\ q \in Seq(Token) /\ Len(q) = n + 1 /\ n \in Nat
      /\ \A i \in 1..n : q[i] = r[i]
      /\ q[n + 1] = t
  BY LongerPath DEF Longer
<1> HIDE DEF q
<1>2. PICK f : IsTrip(f, q) /\ Walks(q) = f[Len(q)]
  BY <1>1, WalksTrip
<1>3. PICK h : IsTrip(h, r) /\ Walks(r) = h[n]
  BY WalksTrip
<1>4. f[0] = {Start} /\ \A i \in 1..n+1 : f[i] = Then(f[i-1], q[i])
  BY <1>1, <1>2, TripSteps
<1>5. h[0] = {Start} /\ \A i \in 1..n : h[i] = Then(h[i-1], r[i])
  BY <1>3, TripSteps
<1> HIDE DEF n, Then
<1>6. \A i \in 0..n : f[i] = h[i]
  <2> DEFINE N == {i \in 0..n : f[i] = h[i]}
  <2>1. 0 \in N
    <3>1. 0 \in 0..n
      BY <1>1
    <3>2. f[0] = h[0]
      BY <1>4, <1>5
    <3>3. QED
      BY <3>1, <3>2
  <2>2. ASSUME NEW i \in 1..n, i - 1 \in N PROVE i \in N
    <3>1. i \in 1..n+1 /\ f[i-1] = h[i-1] /\ q[i] = r[i]
      BY <1>1, <2>2
    <3>2. f[i] = h[i]
      BY <1>4, <1>5, <3>1
    <3>3. QED
      BY <1>1, <3>2
  <2> HIDE DEF N
  <2>3. \A i \in 0..n : i \in N
    BY <1>1, <2>1, <2>2, InductionUpTo
  <2>4. QED
    BY <2>3 DEF N
<1>7. f[n + 1] = Then(f[n], t)
  <2>1. n + 1 \in 1..n+1 /\ (n + 1) - 1 = n
    BY <1>1
  <2>2. QED
    BY <1>1, <1>4, <2>1
<1>8. f[n] = h[n]
  BY <1>1, <1>6
<1>9. Walks(q) = Then(Walks(r), t)
  BY <1>1, <1>2, <1>3, <1>7, <1>8
<1>10. QED
  BY <1>9 DEF q, Then

-----------------------------------------------------------------------------
(* The element at the end of a path.                                       *)
ElementAt(nodes, root, q) ==
  IF NodeAt(nodes, root, q) = NULL THEN NULL ELSE nodes[NodeAt(nodes, root, q)].buffer

LEMMA ElementFacts ==
  ASSUME NEW nodes, NEW root, IsRooted(nodes, root), NEW q \in Seq(Token)
  PROVE  /\ q # Root => (ElementAt(nodes, root, q) = NULL <=> NodeAt(nodes, root, q) = NULL)
         /\ ElementAt(nodes, root, Root) = NULL
         /\ ElementAt(nodes, root, q) \in Data \cup {Zero, NULL}
<1>1. ASSUME NodeAt(nodes, root, q) # NULL, q # Root
      PROVE  nodes[NodeAt(nodes, root, q)].buffer # NULL
  BY <1>1, NodeAtRange
<1>2. ElementAt(nodes, root, Root) = NULL
  BY NodeAtRoot DEF ElementAt, IsRooted
<1>3. ElementAt(nodes, root, q) \in Data \cup {Zero, NULL}
  <2>1. CASE NodeAt(nodes, root, q) = NULL
    BY <2>1 DEF ElementAt
  <2>2. CASE NodeAt(nodes, root, q) # NULL
    <3>1. NodeAt(nodes, root, q) \in DOMAIN nodes
      BY <2>2, NodeAtRange
    <3>2. nodes[NodeAt(nodes, root, q)].buffer \in Data \cup {Zero, NULL}
      BY <3>1, NodeFields DEF IsRooted, IsHeap
    <3>3. QED
      BY <2>2, <3>2 DEF ElementAt
  <2>3. QED
    BY <2>1, <2>2
<1>4. QED
  BY <1>1, <1>2, <1>3 DEF ElementAt

(* The nodes of a tree, but its root, are at the ends of paths of the map. *)
IsPathed(nodes, root) ==
  \A m \in Reached(nodes, root) : m = root \/ \E p \in Paths : NodeAt(nodes, root, p) = m

(* An insert that has come as far as r: the paths on the way, but the      *)
(* empty one, that led nowhere lead to zero bytes now.                     *)
IsExtended(nodes, r) ==
  \A q \in Seq(Token) :
    ElementAt(nodes, tree.root, q) =
      IF q # Root /\ IsPrefix(q, r) /\ ElementAt(node, tree.root, q) = NULL
      THEN Zero ELSE ElementAt(node, tree.root, q)

IsStopped(nodes, r) ==
  /\ NodeAt(node, tree.root, r) = NULL
  /\ \E q \in Seq(Token) : q # r /\ IsPrefix(q, r) /\ IsExtended(nodes, q)

IsArrived(s, r) ==
  s.at # NULL /\ s.at = NodeAt(s.node, tree.root, r) /\ IsExtended(s.node, r)

IsSound(nodes, length) ==
  /\ IsRooted(nodes, tree.root)
  /\ length = Cardinality(Reached(nodes, tree.root))
  /\ DOMAIN nodes \ Reached(nodes, tree.root) = Lost
  /\ IsPathed(nodes, tree.root)

OnTheWay(s, r) ==
  /\ s = [node |-> s.node, length |-> s.length, at |-> s.at]
  /\ IsSound(s.node, s.length)
  /\ IsArrived(s, r) \/ (s.at = NULL /\ IsStopped(s.node, r))

LEMMA StoppedLonger ==
  ASSUME NEW nodes, NEW r \in Seq(Token), NEW t \in Token, NEW a, a = Longer(r, t),
         IsStopped(nodes, r)
  PROVE  IsStopped(nodes, a)
<1>1. a \in Seq(Token) /\ Len(a) = Len(r) + 1 /\ Len(r) \in Nat
  BY LongerPath DEF Longer
<1>2. PICK q \in Seq(Token) : q # r /\ IsPrefix(q, r) /\ IsExtended(nodes, q)
  BY DEF IsStopped
<1>3. IsPrefix(q, a)
  BY <1>2, PrefixStep DEF Longer
<1>4. q # a
  <2>1. Len(q) <= Len(r)
    BY <1>2, PrefixFacts
  <2>2. QED
    BY <1>1, <2>1
<1>5. NodeAt(node, tree.root, r) = NULL
  BY DEF IsStopped
<1>6. NodeAt(node, tree.root, a) = NULL
  BY <1>5, NodeAtLonger
<1>7. QED
  BY <1>2, <1>3, <1>4, <1>6 DEF IsStopped

(* The walk finds the next node.                                           *)
LEMMA ArrivedFound ==
  ASSUME NEW s, NEW r \in Seq(Token), NEW t \in Token, NEW a, a = Longer(r, t),
         OnTheWay(s, r), IsArrived(s, r), NEW c, c = Child(s.node, s.at, t), c # NULL
  PROVE  OnTheWay([s EXCEPT !.at = c], a)
<1>0. a \in Seq(Token) /\ a # Root /\ a # r
  BY LongerPath DEF Longer
<1>1. IsSound(s.node, s.length) /\ IsRooted(s.node, tree.root)
  BY DEF OnTheWay, IsSound
<1>2. c = NodeAt(s.node, tree.root, a)
  BY NodeAtLonger DEF IsArrived
<1>3. ElementAt(s.node, tree.root, a) # NULL
  BY <1>0, <1>1, <1>2, ElementFacts
<1>4. ~IsPrefix(a, r)
  <2>1. Len(a) = Len(r) + 1 /\ Len(r) \in Nat
    BY LongerPath DEF Longer
  <2>2. QED
    BY <1>0, <2>1, PrefixFacts
<1>5. ElementAt(node, tree.root, a) # NULL
  BY <1>0, <1>3, <1>4 DEF IsArrived, IsExtended
<1>6. IsExtended(s.node, a)
  <2>1. ASSUME NEW q \in Seq(Token)
        PROVE  ElementAt(s.node, tree.root, q) =
                 IF q # Root /\ IsPrefix(q, a) /\ ElementAt(node, tree.root, q) = NULL
                 THEN Zero ELSE ElementAt(node, tree.root, q)
    <3>1. IsPrefix(q, a) <=> q = a \/ IsPrefix(q, r)
      BY PrefixStep DEF Longer
    <3>2. ElementAt(s.node, tree.root, q) =
            IF q # Root /\ IsPrefix(q, r) /\ ElementAt(node, tree.root, q) = NULL
            THEN Zero ELSE ElementAt(node, tree.root, q)
      BY DEF IsArrived, IsExtended
    <3>3. QED
      BY <1>5, <3>1, <3>2
  <2>2. QED
    BY <2>1 DEF IsExtended
<1> DEFINE e == [node |-> s.node, length |-> s.length, at |-> c]
<1>7. [s EXCEPT !.at = c] = e
  BY DEF OnTheWay
<1>8. IsArrived(e, a)
  BY <1>2, <1>6 DEF IsArrived
<1>9. OnTheWay(e, a)
  BY <1>1, <1>8 DEF OnTheWay
<1>10. QED
  BY <1>7, <1>9

(* It does not, and there is no memory.                                    *)
LEMMA NewElement ==
  ASSUME NEW s, NEW r \in Seq(Token), NEW t \in Token, NEW a, a = Longer(r, t),
         OnTheWay(s, r), IsArrived(s, r), Child(s.node, s.at, t) = NULL,
         IsRooted(node, tree.root)
  PROVE  /\ NodeAt(s.node, tree.root, a) = NULL
         /\ NodeAt(node, tree.root, a) = NULL
         /\ ElementAt(node, tree.root, a) = NULL
<1>0. a \in Seq(Token) /\ a # Root
  BY LongerPath DEF Longer
<1>1. IsRooted(s.node, tree.root)
  BY DEF OnTheWay, IsSound
<1>2. NodeAt(s.node, tree.root, a) = NULL
  BY NodeAtLonger DEF IsArrived
<1>3. ElementAt(s.node, tree.root, a) = NULL
  BY <1>2 DEF ElementAt
<1>4. ~IsPrefix(a, r)
  <2>1. Len(a) = Len(r) + 1 /\ Len(r) \in Nat
    BY LongerPath DEF Longer
  <2>2. QED
    BY <1>0, <2>1, PrefixFacts
<1>5. ElementAt(node, tree.root, a) = NULL
  BY <1>0, <1>3, <1>4 DEF IsArrived, IsExtended
<1>6. QED
  BY <1>0, <1>2, <1>5, ElementFacts

LEMMA ArrivedNoMemory ==
  ASSUME NEW s, NEW r \in Seq(Token), NEW t \in Token, NEW a, a = Longer(r, t),
         OnTheWay(s, r), IsArrived(s, r), Child(s.node, s.at, t) = NULL,
         IsRooted(node, tree.root)
  PROVE  OnTheWay([s EXCEPT !.at = NULL], a)
<1>0. a \in Seq(Token) /\ a # r /\ IsPrefix(r, a)
  <2>1. a \in Seq(Token) /\ Len(a) = Len(r) + 1 /\ Len(r) \in Nat
    BY LongerPath DEF Longer
  <2>2. IsPrefix(r, a)
    BY PrefixStep, PrefixOfSelf DEF Longer
  <2>3. QED
    BY <2>1, <2>2
<1>1. NodeAt(node, tree.root, a) = NULL
  BY NewElement
<1>2. IsStopped(s.node, a)
  BY <1>0, <1>1 DEF IsStopped, IsArrived
<1> DEFINE e == [node |-> s.node, length |-> s.length, at |-> NULL]
<1>3. [s EXCEPT !.at = NULL] = e
  BY DEF OnTheWay
<1>4. OnTheWay(e, a)
  BY <1>2 DEF OnTheWay
<1>5. QED
  BY <1>3, <1>4

(* There is memory for a new node.                                         *)
LEMMA ArrivedNew ==
  ASSUME NEW s, NEW r \in Seq(Token), NEW t \in Token, NEW a, a = Longer(r, t), a \in Paths,
         OnTheWay(s, r), IsArrived(s, r), Child(s.node, s.at, t) = NULL,
         IsRooted(node, tree.root), NEW n \in Address \ DOMAIN s.node
  PROVE  OnTheWay(Created(s, t, n), a)
<1> DEFINE root == tree.root
           other == Linked(s.node, s.at, n, t)
           old == Reached(s.node, root)
<1>0. /\ a \in Seq(Token) /\ a = Longer(r, t) /\ a # Root
      /\ other = Linked(s.node, s.at, n, t)
  BY LongerPath DEF Longer
<1> HIDE DEF other
<1>1. /\ IsRooted(s.node, root) /\ IsHeap(s.node) /\ root \in DOMAIN s.node
      /\ s.length = Cardinality(old) /\ DOMAIN s.node \ old = Lost
      /\ IsPathed(s.node, root)
  BY DEF OnTheWay, IsSound, IsRooted
<1>2. s.at # NULL /\ s.at = NodeAt(s.node, root, r) /\ IsExtended(s.node, r)
  BY DEF IsArrived
<1>3. s.at \in old /\ s.at \in DOMAIN s.node
  BY <1>1, <1>2, NodeAtRange
<1>4. HasNew(other, s.node, s.at, n, t)
  BY <1>0, <1>1, <1>3, LinkedFacts
<1>5. \A c \in Kids(s.node, s.at) : s.node[c].key # t
  <2>1. \A c \in Kids(s.node, s.at) : c # NULL
    BY <1>1, <1>3, NullAssumption DEF IsHeap, HasKids
  <2>2. QED
    BY <1>1, <1>3, <2>1, ChildFacts
<1>6. IsHeap(other)
  BY <1>0, <1>1, <1>3, <1>5, LinkedIsHeap
<1>7. Reached(other, root) = old \cup {n}
  BY <1>0, <1>1, <1>3, LinkedReached
<1>8. /\ DOMAIN other = DOMAIN s.node \cup {n}
      /\ other[n].buffer = Zero
      /\ \A m \in DOMAIN s.node : other[m].buffer = s.node[m].buffer
  BY <1>4 DEF HasNew
<1>9. IsRooted(other, root)
  BY <1>1, <1>6, <1>8 DEF IsRooted
<1>10. old \subseteq DOMAIN s.node /\ n \notin old
  BY <1>1, ReachedSelf
<1>11. s.length + 1 = Cardinality(Reached(other, root))
  <2>1. old \subseteq Address
    BY <1>1, <1>10 DEF IsHeap
  <2>2. QED
    BY <1>1, <1>7, <1>10, <2>1, OneMore
<1>12. DOMAIN other \ Reached(other, root) = Lost
  BY <1>1, <1>7, <1>8, <1>10
<1>13. \A q \in Seq(Token) :
         NodeAt(other, root, q) = IF q = a THEN n ELSE NodeAt(s.node, root, q)
  BY <1>0, <1>1, <1>2, NodeAtLinked
<1>14. /\ NodeAt(s.node, root, a) = NULL
       /\ ElementAt(node, root, a) = NULL
  BY NewElement
<1>15. NULL \notin Address /\ NULL # Zero
  BY NullAssumption
<1>16. IsPathed(other, root)
  <2>1. ASSUME NEW m \in Reached(other, root), m # root
        PROVE  \E p \in Paths : NodeAt(other, root, p) = m
    <3>1. CASE m = n
      BY <1>0, <1>13, <3>1
    <3>2. CASE m # n
      <4>1. PICK p \in Paths : NodeAt(s.node, root, p) = m
        BY <1>1, <1>7, <2>1, <3>2 DEF IsPathed
      <4>2. m # NULL
        BY <1>1, <1>7, <1>10, <1>15, <3>2 DEF IsHeap
      <4>3. p \in Seq(Token) /\ p # a
        BY <1>14, <4>1, <4>2, PathsFacts
      <4>4. NodeAt(other, root, p) = m
        BY <1>13, <4>1, <4>3
      <4>5. QED
        BY <4>4
    <3>3. QED
      BY <3>1, <3>2
  <2>2. QED
    BY <2>1 DEF IsPathed
<1>17. IsExtended(other, a)
  <2>1. ASSUME NEW q \in Seq(Token)
        PROVE  ElementAt(other, root, q) =
                 IF q # Root /\ IsPrefix(q, a) /\ ElementAt(node, root, q) = NULL
                 THEN Zero ELSE ElementAt(node, root, q)
    <3>1. IsPrefix(q, a) <=> q = a \/ IsPrefix(q, r)
      BY PrefixStep DEF Longer
    <3>2. ElementAt(s.node, root, q) =
            IF q # Root /\ IsPrefix(q, r) /\ ElementAt(node, root, q) = NULL
            THEN Zero ELSE ElementAt(node, root, q)
      BY <1>2 DEF IsExtended
    <3>3. CASE q = a
      <4>1. NodeAt(other, root, q) = n /\ n # NULL
        BY <1>13, <1>15, <3>3
      <4>2. ElementAt(other, root, q) = Zero
        BY <1>8, <4>1 DEF ElementAt
      <4>3. QED
        BY <1>0, <1>14, <3>1, <3>3, <4>2
    <3>4. CASE q # a
      <4>1. NodeAt(other, root, q) = NodeAt(s.node, root, q)
        BY <1>13, <3>4
      <4>2. NodeAt(s.node, root, q) # NULL => NodeAt(s.node, root, q) \in DOMAIN s.node
        BY <1>1, NodeAtRange
      <4>3. ElementAt(other, root, q) = ElementAt(s.node, root, q)
        BY <1>8, <4>1, <4>2 DEF ElementAt
      <4>4. QED
        BY <3>1, <3>2, <3>4, <4>3
    <3>5. QED
      BY <3>3, <3>4
  <2>2. QED
    BY <2>1 DEF IsExtended
<1> DEFINE e == [node |-> other, length |-> s.length + 1, at |-> n]
<1>18. Created(s, t, n) = e
  BY DEF Created, other
<1>19. IsSound(other, s.length + 1)
  BY <1>9, <1>11, <1>12, <1>16 DEF IsSound
<1>20. IsArrived(e, a)
  <2>1. NodeAt(other, root, a) = n
    BY <1>0, <1>13
  <2>2. QED
    BY <1>15, <1>17, <2>1 DEF IsArrived
<1>21. OnTheWay(e, a)
  BY <1>19, <1>20 DEF OnTheWay
<1>22. QED
  BY <1>18, <1>21

LEMMA WalkSound ==
  ASSUME IsSound(node, tree.length), NEW p \in Path, NEW s \in Walks(p)
  PROVE  OnTheWay(s, p)
<1> DEFINE Holds(r) == IsPrefix(r, p) => \A w \in Walks(r) : OnTheWay(w, r)
           A == {r \in Seq(Token) : Holds(r)}
<1>0. p \in Seq(Token) /\ IsRooted(node, tree.root)
  BY PathAssumption DEF IsSound
<1>1. Root \in A
  <2>1. Start = [node |-> node, length |-> tree.length, at |-> tree.root]
    BY DEF Start
  <2>2. tree.root # NULL /\ NodeAt(node, tree.root, Root) = tree.root
    BY <1>0, NodeAtRoot, NullAssumption DEF IsRooted, IsHeap
  <2>3. IsExtended(node, Root)
    <3>1. \A q \in Seq(Token) : ~(q # Root /\ IsPrefix(q, Root))
      BY PrefixOfRoot
    <3>2. QED
      BY <3>1 DEF IsExtended
  <2>4. /\ Start.node = node /\ Start.length = tree.length /\ Start.at = tree.root
        /\ Start = [node |-> Start.node, length |-> Start.length, at |-> Start.at]
    BY <2>1
  <2>5. IsArrived(Start, Root)
    BY <2>2, <2>3, <2>4 DEF IsArrived
  <2>6. OnTheWay(Start, Root)
    BY <2>4, <2>5 DEF OnTheWay
  <2>7. \A w \in Walks(Root) : OnTheWay(w, Root)
    BY <2>6, WalksRoot
  <2>8. QED
    BY <2>7, PathFacts
<1>2. ASSUME NEW r \in Seq(Token), r \in A, NEW t \in Token PROVE Longer(r, t) \in A
  <2> DEFINE a == Longer(r, t)
  <2>0. a \in Seq(Token) /\ a = Longer(r, t) /\ a # Root
    BY LongerPath DEF Longer
  <2> HIDE DEF a
  <2>1. ASSUME IsPrefix(a, p), NEW w \in Walks(a) PROVE OnTheWay(w, a)
    <3>1. IsPrefix(r, a)
      BY <2>0, PrefixStep, PrefixOfSelf DEF Longer
    <3>2. IsPrefix(r, p) /\ a \in Paths
      BY <1>0, <2>0, <2>1, <3>1, PrefixOfPrefix, PathsFacts
    <3>3. PICK v \in Walks(r) : w \in Enter(v, t)
      BY <2>0, <2>1, WalksLonger
    <3>4. OnTheWay(v, r)
      BY <1>2, <3>2
    <3>5. CASE v.at = NULL
      <4>1. w = v
        BY <3>3, <3>5 DEF Enter
      <4>2. IsStopped(v.node, a)
        <5>1. IsStopped(v.node, r)
          BY <3>4, <3>5 DEF OnTheWay, IsArrived
        <5>2. QED
          BY <2>0, <5>1, StoppedLonger
      <4>3. QED
        BY <3>4, <3>5, <4>1, <4>2 DEF OnTheWay
    <3>6. CASE v.at # NULL
      <4>1. IsArrived(v, r)
        BY <3>4, <3>6 DEF OnTheWay
      <4> DEFINE c == Child(v.node, v.at, t)
      <4>2. CASE c # NULL
        <5>1. w = [v EXCEPT !.at = c]
          BY <3>3, <3>6, <4>2 DEF Enter
        <5> HIDE DEF c
        <5>2. c = Child(v.node, v.at, t)
          BY DEF c
        <5>3. OnTheWay([v EXCEPT !.at = c], a)
          BY <2>0, <3>4, <4>1, <4>2, <5>2, ArrivedFound
        <5>4. QED
          BY <5>1, <5>3
      <4>3. CASE c = NULL
        <5>1. \/ w = [v EXCEPT !.at = NULL]
              \/ \E n \in Address \ DOMAIN v.node : w = Created(v, t, n)
          BY <3>3, <3>6, <4>3 DEF Enter
        <5>2. OnTheWay([v EXCEPT !.at = NULL], a)
          BY <1>0, <2>0, <3>4, <4>1, <4>3, ArrivedNoMemory
        <5>3. \A n \in Address \ DOMAIN v.node : OnTheWay(Created(v, t, n), a)
          BY <1>0, <2>0, <3>2, <3>4, <4>1, <4>3, ArrivedNew
        <5>4. QED
          BY <5>1, <5>2, <5>3
      <4>4. QED
        BY <4>2, <4>3
    <3>7. QED
      BY <3>5, <3>6
  <2>2. QED
    BY <2>0, <2>1
<1> HIDE DEF A
<1>3. \A r \in Seq(Token) : r \in A
  BY <1>1, <1>2, PathInduction
<1>4. p \in A
  BY <1>0, <1>3
<1>5. IsPrefix(p, p)
  BY <1>0, PrefixOfSelf
<1>6. QED
  BY <1>4, <1>5 DEF A

-----------------------------------------------------------------------------
(* The inductive invariant: a heap of trees, of which the one the client   *)
(* has has the length it says and nodes at the ends of the map's paths.    *)
IsTreeRecord(T) == T \in [length : Nat, root : Address \cup {NULL}]

OpenIn(T) == T # NULL /\ T.length # 0

IsCounted(T, N) ==
  /\ IsRooted(N, T.root)
  /\ T.length = Cardinality(Reached(N, T.root))
  /\ IsPathed(N, T.root)

Holds(T, N) ==
  /\ IsHeap(N)
  /\ T = NULL \/ IsTreeRecord(T)
  /\ OpenIn(T) => IsCounted(T, N)

IInv == Holds(tree, node) /\ out \in Data \cup {Zero, NULL} \cup Int

LostIn(T, N) == DOMAIN N \ IF OpenIn(T) THEN Reached(N, T.root) ELSE {}

LEMMA RecordIsNotNull ==
  ASSUME NEW T, IsTreeRecord(T)
  PROVE  /\ T # NULL /\ T = [length |-> T.length, root |-> T.root]
         /\ T.length \in Nat /\ T.root \in Address \cup {NULL}
BY NullAssumption DEF IsTreeRecord

LEMMA RecordFields ==
  ASSUME NEW l \in Nat, NEW r \in Address \cup {NULL}, NEW T, T = [length |-> l, root |-> r]
  PROVE  IsTreeRecord(T) /\ T.length = l /\ T.root = r /\ T # NULL
<1>1. IsTreeRecord(T) /\ T.length = l /\ T.root = r
  BY DEF IsTreeRecord
<1>2. QED
  BY <1>1, RecordIsNotNull

(* A tree has its root: its length is not 0.                               *)
LEMMA RootedSize ==
  ASSUME NEW N, NEW r, IsRooted(N, r)
  PROVE  Cardinality(Reached(N, r)) \in Nat \ {0}
<1>1. r \in Reached(N, r) /\ Reached(N, r) \subseteq Address
  BY ReachedSelf DEF IsRooted, IsHeap
<1>2. IsFiniteSet(Reached(N, r)) /\ Cardinality(Reached(N, r)) \in Nat
  BY <1>1, HeapIsFinite
<1>3. Cardinality(Reached(N, r)) # 0
  BY <1>1, <1>2, FS_EmptySet
<1>4. QED
  BY <1>2, <1>3

LEMMA OpenFacts ==
  ASSUME IInv, Open
  PROVE  /\ IsTreeRecord(tree) /\ IsSound(node, tree.length)
         /\ IsRooted(node, tree.root) /\ IsPathed(node, tree.root)
         /\ tree.length = Cardinality(Reached(node, tree.root))
         /\ Lost = DOMAIN node \ Reached(node, tree.root)
BY DEF IInv, Holds, Open, OpenIn, IsCounted, IsSound, Lost, Below

(* A new tree.                                                             *)
LEMMA Planted ==
  ASSUME NEW nodes, IsHeap(nodes), NEW n \in Address \ DOMAIN nodes,
         NEW k \in {RootKey, NULL},
         NEW N, N = With(nodes, n, NewNode(k, NULL)),
         NEW T, T = [length |-> 1, root |-> n]
  PROVE  /\ Holds(T, N) /\ OpenIn(T) /\ LostIn(T, N) = DOMAIN nodes
         /\ \A q \in Seq(Token) : ElementAt(N, T.root, q) = NULL
<1>1. IsTreeRecord(T) /\ T.length = 1 /\ T.root = n /\ T # NULL
  BY RecordFields
<1>2. /\ IsHeap(N) /\ DOMAIN N = DOMAIN nodes \cup {n}
      /\ N[n].buffer = NULL /\ Kids(N, n) = {} /\ Reached(N, n) = {n}
  BY WithRoot
<1>3. IsRooted(N, n)
  BY <1>2 DEF IsRooted
<1>4. Cardinality({n}) = 1
  BY FS_Singleton
<1>5. IsPathed(N, n)
  BY <1>2 DEF IsPathed
<1>6. Holds(T, N) /\ OpenIn(T)
  BY <1>1, <1>2, <1>3, <1>4, <1>5 DEF Holds, OpenIn, IsCounted
<1>7. LostIn(T, N) = DOMAIN nodes
  BY <1>1, <1>2, <1>6 DEF LostIn
<1>8. ASSUME NEW q \in Seq(Token) PROVE ElementAt(N, n, q) = NULL
  <2>1. ASSUME NodeAt(N, n, q) # NULL PROVE NodeAt(N, n, q) = n
    BY <1>2, <1>3, <2>1, NodeAtRange
  <2>2. QED
    BY <1>2, <2>1 DEF ElementAt
<1>9. QED
  BY <1>1, <1>6, <1>7, <1>8

(* An insert that gets to the end of its key.                              *)
IsInserted(N, key, d) ==
  \A q \in Seq(Token) :
    ElementAt(N, tree.root, q) =
      IF q = key THEN d
      ELSE IF q # Root /\ IsPrefix(q, key) /\ ElementAt(node, tree.root, q) = NULL
      THEN Zero ELSE ElementAt(node, tree.root, q)

LEMMA Written ==
  ASSUME NEW N, NEW l, IsSound(N, l), NEW key \in Path, key # Root, NEW d \in Data,
         NEW n, n = NodeAt(N, tree.root, key), n # NULL, IsExtended(N, key),
         NEW other, other = [N EXCEPT ![n].buffer = d]
  PROVE  IsSound(other, l) /\ IsInserted(other, key, d)
<1> DEFINE root == tree.root
<1>0. key \in Seq(Token) /\ IsRooted(N, root) /\ IsHeap(N) /\ root \in DOMAIN N
  BY PathAssumption DEF IsSound, IsRooted
<1>1. n \in DOMAIN N /\ N[n].buffer # NULL
  BY <1>0, NodeAtRange
<1>2. n # root
  BY <1>0, <1>1 DEF IsRooted
<1>3. /\ IsHeap(other) /\ DOMAIN other = DOMAIN N
      /\ \A m \in DOMAIN N :
           /\ Kids(other, m) = Kids(N, m)
           /\ other[m].key = N[m].key
           /\ other[m].buffer = IF m = n THEN d ELSE N[m].buffer
      /\ \A m : Reached(other, m) = Reached(N, m)
  <2>1. HasElement(other, N, n, d)
    BY <1>0, <1>1, WithElement
  <2>2. QED
    BY <2>1 DEF HasElement
<1>4. \A q \in Seq(Token) : NodeAt(other, root, q) = NodeAt(N, root, q)
  <2>1. SameShape(other, N)
    BY <1>3 DEF SameShape
  <2>2. QED
    BY <1>0, <2>1, SameNodeAt
<1>5. IsRooted(other, root)
  BY <1>0, <1>2, <1>3 DEF IsRooted
<1>6. IsPathed(other, root)
  <2>1. \A q \in Paths : q \in Seq(Token)
    BY PathsFacts
  <2>2. IsPathed(N, root) /\ Reached(other, root) = Reached(N, root)
    BY <1>3 DEF IsSound
  <2>3. \A q \in Paths : NodeAt(other, root, q) = NodeAt(N, root, q)
    BY <1>4, <2>1
  <2>4. ASSUME NEW m \in Reached(N, root), m # root
        PROVE  \E q \in Paths : NodeAt(other, root, q) = m
    <3>1. PICK q \in Paths : NodeAt(N, root, q) = m
      BY <2>2, <2>4 DEF IsPathed
    <3>2. QED
      BY <2>3, <3>1
  <2>5. QED
    BY <2>2, <2>4 DEF IsPathed
<1>7. IsSound(other, l)
  BY <1>3, <1>5, <1>6 DEF IsSound
<1>8. ASSUME NEW q \in Seq(Token)
      PROVE  ElementAt(other, root, q) =
               IF q = key THEN d
               ELSE IF q # Root /\ IsPrefix(q, key) /\ ElementAt(node, root, q) = NULL
               THEN Zero ELSE ElementAt(node, root, q)
  <2>1. CASE q = key
    BY <1>1, <1>3, <1>4, <2>1 DEF ElementAt
  <2>2. CASE q # key
    <3>1. NodeAt(N, root, q) # NULL =>
            NodeAt(N, root, q) \in DOMAIN N /\ NodeAt(N, root, q) # n
      BY <1>0, <2>2, NodeAtRange, NodeAtInjective
    <3>2. ElementAt(other, root, q) = ElementAt(N, root, q)
      BY <1>3, <1>4, <3>1 DEF ElementAt
    <3>3. QED
      BY <2>2, <3>2 DEF IsExtended
  <2>3. QED
    BY <2>1, <2>2
<1>9. QED
  BY <1>7, <1>8 DEF IsInserted

(* A sound heap for the same root.                                         *)
LEMMA SoundHolds ==
  ASSUME IInv, Open, NEW N, NEW l, IsSound(N, l),
         NEW T, T = [tree EXCEPT !.length = l]
  PROVE  Holds(T, N) /\ OpenIn(T) /\ T.root = tree.root /\ LostIn(T, N) = Lost
<1>1. tree = [length |-> tree.length, root |-> tree.root] /\ tree.root \in Address \cup {NULL}
  BY OpenFacts, RecordIsNotNull
<1>2. T = [length |-> l, root |-> tree.root]
  BY <1>1
<1>3. l \in Nat \ {0}
  BY RootedSize DEF IsSound
<1>4. IsTreeRecord(T) /\ T.length = l /\ T.root = tree.root /\ T # NULL
  BY <1>1, <1>2, <1>3, RecordFields
<1>5. OpenIn(T)
  BY <1>3, <1>4 DEF OpenIn
<1>6. IsHeap(N) /\ IsCounted(T, N)
  BY <1>4 DEF IsSound, IsRooted, IsCounted
<1>7. Holds(T, N)
  BY <1>4, <1>6 DEF Holds
<1>8. LostIn(T, N) = Lost
  BY <1>4, <1>5 DEF LostIn, IsSound
<1>9. QED
  BY <1>4, <1>5, <1>7, <1>8

LEMMA InsertResult ==
  ASSUME IInv, Open, NEW key \in Path, key # Root, NEW d \in Data, NEW s \in Walks(key),
         NEW T, T = [tree EXCEPT !.length = s.length],
         NEW N, N = IF s.at = NULL THEN s.node ELSE [s.node EXCEPT ![s.at].buffer = d]
  PROVE  /\ Holds(T, N) /\ OpenIn(T) /\ T.root = tree.root /\ LostIn(T, N) = Lost
         /\ IF s.at = NULL THEN IsStopped(N, key) ELSE IsInserted(N, key, d)
<1>1. OnTheWay(s, key)
  BY OpenFacts, WalkSound
<1>2. CASE s.at = NULL
  <2>1. IsSound(s.node, s.length) /\ IsStopped(s.node, key) /\ N = s.node
    BY <1>1, <1>2 DEF OnTheWay, IsArrived
  <2>2. QED
    BY <1>2, <2>1, SoundHolds
<1>3. CASE s.at # NULL
  <2>1. /\ IsSound(s.node, s.length) /\ N = [s.node EXCEPT ![s.at].buffer = d]
        /\ s.at = NodeAt(s.node, tree.root, key) /\ IsExtended(s.node, key)
    BY <1>1, <1>3 DEF OnTheWay, IsArrived
  <2>2. IsSound(N, s.length) /\ IsInserted(N, key, d)
    BY <1>3, <2>1, Written
  <2>3. QED
    BY <1>3, <2>2, SoundHolds
<1>4. QED
  BY <1>2, <1>3

(* A delete takes the paths on from its key.                               *)
IsCut(N, key) ==
  \A q \in Seq(Token) :
    ElementAt(N, tree.root, q) =
      IF IsPrefix(key, q) THEN NULL ELSE ElementAt(node, tree.root, q)

LEMMA PruneResult ==
  ASSUME IInv, Open, NEW key \in Seq(Token), key # Root,
         NEW n, n = NodeAt(node, tree.root, key), n # NULL,
         NEW T, T = [tree EXCEPT !.length = @ - Cardinality(Reached(node, n))],
         NEW N, N = Pruned(node, n)
  PROVE  /\ Holds(T, N) /\ OpenIn(T) /\ T.root = tree.root /\ LostIn(T, N) = Lost
         /\ IsCut(N, key)
<1> DEFINE root == tree.root
           old == Reached(node, root)
           cut == Reached(node, n)
<1>1. /\ IsRooted(node, root) /\ IsHeap(node) /\ IsPathed(node, root)
      /\ tree.length = Cardinality(old) /\ Lost = DOMAIN node \ old
      /\ IsTreeRecord(tree)
  BY OpenFacts DEF IsRooted
<1>2. n \in old /\ n \in DOMAIN node /\ node[n].buffer # NULL
  BY <1>1, NodeAtRange
<1>3. n # root
  BY <1>1, <1>2 DEF IsRooted
<1>4. IsRooted(N, root) /\ Reached(N, root) = old \ cut
  BY <1>1, <1>2, <1>3, PrunedIsRooted
<1>5. cut \subseteq old /\ old \subseteq DOMAIN node /\ old \subseteq Address
  BY <1>1, <1>2, ReachedInside, ReachedSelf DEF IsRooted, IsHeap
<1>6. DOMAIN N = DOMAIN node \ cut
  BY DEF Pruned
<1>7. \A q \in Seq(Token) :
        NodeAt(N, root, q) = IF IsPrefix(key, q) THEN NULL ELSE NodeAt(node, root, q)
  BY <1>1, <1>3, NodeAtPruned
<1>8. IsPathed(N, root)
  <2>1. ASSUME NEW m \in old \ cut, m # root PROVE \E p \in Paths : NodeAt(N, root, p) = m
    <3>1. PICK p \in Paths : NodeAt(node, root, p) = m
      BY <1>1, <2>1 DEF IsPathed
    <3>2. p \in Seq(Token) /\ m # NULL
      BY <1>5, <3>1, NullAssumption, PathsFacts
    <3>3. ~IsPrefix(key, p)
      BY <1>1, <2>1, <3>1, <3>2, BelowIsPrefix
    <3>4. QED
      BY <1>7, <3>1, <3>2, <3>3
  <2>2. QED
    BY <1>4, <2>1 DEF IsPathed
<1> DEFINE l == tree.length - Cardinality(cut)
<1>9. l = Cardinality(old \ cut)
  BY <1>1, <1>5, SomeLess
<1>10. DOMAIN N \ Reached(N, root) = Lost
  BY <1>1, <1>4, <1>5, <1>6
<1>11. IsSound(N, l)
  BY <1>4, <1>8, <1>9, <1>10 DEF IsSound
<1>12. T = [tree EXCEPT !.length = l]
  BY <1>1, RecordIsNotNull
<1> HIDE DEF l
<1>13. Holds(T, N) /\ OpenIn(T) /\ T.root = tree.root /\ LostIn(T, N) = Lost
  BY <1>11, <1>12, SoundHolds
<1>14. ASSUME NEW q \in Seq(Token)
       PROVE  ElementAt(N, root, q) =
                IF IsPrefix(key, q) THEN NULL ELSE ElementAt(node, root, q)
  <2>1. CASE NodeAt(N, root, q) = NULL
    BY <1>7, <2>1 DEF ElementAt
  <2>2. CASE NodeAt(N, root, q) # NULL
    <3>1. ~IsPrefix(key, q) /\ NodeAt(N, root, q) = NodeAt(node, root, q)
      BY <1>7, <2>2
    <3>2. NodeAt(N, root, q) \in DOMAIN N
      BY <1>4, <2>2, NodeAtRange
    <3>3. HasLost(N, node, n)
      BY <1>1, <1>2, PrunedFacts
    <3>4. N[NodeAt(N, root, q)].buffer = node[NodeAt(N, root, q)].buffer
      BY <3>2, <3>3 DEF HasLost
    <3>5. QED
      BY <2>2, <3>1, <3>4 DEF ElementAt
  <2>3. QED
    BY <2>1, <2>2
<1>15. QED
  BY <1>13, <1>14 DEF IsCut

(* A delete without a key, or with one that has no token in it.            *)
LEMMA PruneAllResult ==
  ASSUME IInv, Open,
         NEW T, T = [tree EXCEPT !.length = @ - Cardinality(Reached(node, tree.root))],
         NEW N, N = Pruned(node, tree.root)
  PROVE  Holds(T, N) /\ T # NULL /\ ~OpenIn(T) /\ LostIn(T, N) = Lost
<1>1. /\ IsRooted(node, tree.root) /\ IsHeap(node) /\ tree.root \in DOMAIN node
      /\ tree.length = Cardinality(Reached(node, tree.root))
      /\ Lost = DOMAIN node \ Reached(node, tree.root)
      /\ IsTreeRecord(tree)
  BY OpenFacts DEF IsRooted
<1>2. T = [length |-> 0, root |-> tree.root] /\ tree.root \in Address \cup {NULL}
  BY <1>1, RecordIsNotNull
<1>3. IsTreeRecord(T) /\ T.length = 0 /\ T # NULL
  <2>1. T.length = 0 /\ T.root \in Address \cup {NULL} /\ 0 \in Nat
    BY <1>2
  <2>2. T = [length |-> T.length, root |-> T.root]
    BY <1>2
  <2>3. QED
    BY <2>1, <2>2, RecordFields
<1>4. HasLost(N, node, tree.root)
  BY <1>1, PrunedFacts
<1>5. QED
  BY <1>1, <1>3, <1>4 DEF HasLost, Holds, OpenIn, LostIn

(* A heap that has lost the tree.                                          *)
LEMMA Uprooted ==
  ASSUME IInv, Open, NEW N, N = Without(node, Reached(node, tree.root))
  PROVE  IsHeap(N) /\ DOMAIN N = Lost
<1>1. IsHeap(node) /\ tree.root \in DOMAIN node /\ node[tree.root].buffer = NULL
  BY OpenFacts DEF IsRooted
<1>2. QED
  BY <1>1, OpenFacts, WithoutTree

-----------------------------------------------------------------------------
(* The steps.                                                              *)
Kept == Holds(tree', node') /\ LostIn(tree', node') \in {LostIn(tree, node), DOMAIN node}

OutType == out \in Data \cup {Zero, NULL} \cup Int

LEMMA ElementIs ==
  ASSUME NEW q
  PROVE  Element(q) = ElementAt(node, tree.root, q)
BY DEF Element, ElementAt, At

LEMMA LostIs == Lost = LostIn(tree, node)
BY DEF Lost, LostIn, Open, OpenIn, Below

LEMMA FreeIsFree ==
  ASSUME NEW D, Address \ D # {}
  PROVE  Min(Address \ D) \in Address \ D
<1>1. Address \ D \in SUBSET Address
  OBVIOUS
<1>2. QED
  BY <1>1, MinIsIn

LEMMA KeptUnchanged ==
  ASSUME IInv, UNCHANGED <<tree, node>>
  PROVE  Kept
BY DEF IInv, Kept

(* What a create or a clear leaves: a tree of a root, one that is dead, or *)
(* none.                                                                   *)
IsBare ==
  \/ OpenIn(tree') /\ \A q \in Seq(Token) : ElementAt(node', tree'.root, q) = NULL
  \/ ~OpenIn(tree')

LEMMA StepCreate ==
  ASSUME IInv, Create
  PROVE  Kept /\ IsBare /\ (tree' = NULL \/ OpenIn(tree'))
<1>1. CASE UNCHANGED <<tree, node>>
  <2>1. tree' = NULL
    BY <1>1 DEF Create
  <2>2. QED
    BY <1>1, <2>1, KeptUnchanged DEF IsBare, OpenIn
<1>2. CASE /\ Free # {}
           /\ node' = With(node, Min(Free), NewNode(RootKey, NULL))
           /\ tree' = [length |-> 1, root |-> Min(Free)]
  <2>1. Min(Free) \in Address \ DOMAIN node
    BY <1>2, FreeIsFree DEF Free
  <2>2. IsHeap(node) /\ RootKey \in {RootKey, NULL}
    BY DEF IInv, Holds
  <2>3. /\ Holds(tree', node') /\ OpenIn(tree') /\ LostIn(tree', node') = DOMAIN node
        /\ \A q \in Seq(Token) : ElementAt(node', tree'.root, q) = NULL
    BY <1>2, <2>1, <2>2, Planted
  <2>4. QED
    BY <2>3 DEF Kept, IsBare
<1>3. QED
  BY <1>1, <1>2 DEF Create

LEMMA StepInsert ==
  ASSUME IInv, NEW key \in Path, NEW d \in Data, Insert(key, d)
  PROVE  Kept /\ out' \in Data \cup {NULL}
<1>1. Open /\ key # Root
  BY DEF Insert, Root
<1>2. PICK s \in Walks(key) :
        /\ tree' = [tree EXCEPT !.length = s.length]
        /\ node' = IF s.at = NULL THEN s.node ELSE [s.node EXCEPT ![s.at].buffer = d]
        /\ out' = IF s.at = NULL THEN NULL ELSE d
  BY DEF Insert
<1>3. Holds(tree', node') /\ LostIn(tree', node') = Lost
  BY <1>1, <1>2, InsertResult
<1>4. QED
  BY <1>2, <1>3, LostIs DEF Kept

LEMMA PruneIs ==
  ASSUME NEW n, Prune(n)
  PROVE  /\ tree' = [tree EXCEPT !.length = @ - Cardinality(Reached(node, n))]
         /\ node' = Pruned(node, n)
BY DEF Prune, Pruned, Below

LEMMA StepDelete ==
  ASSUME IInv, NEW key \in Path, Delete(key)
  PROVE  Kept
<1>1. CASE UNCHANGED <<tree, node>>
  BY <1>1, KeptUnchanged
<1>2. CASE At(key) # NULL /\ Prune(At(key))
  <2>1. /\ Open /\ key \in Seq(Token)
        /\ tree' = [tree EXCEPT !.length = @ - Cardinality(Reached(node, At(key)))]
        /\ node' = Pruned(node, At(key))
    BY <1>2, PathAssumption, PruneIs DEF Delete
  <2>2. CASE key # Root
    <3>1. Holds(tree', node') /\ LostIn(tree', node') = Lost
      BY <1>2, <2>1, <2>2, PruneResult DEF At
    <3>2. QED
      BY <3>1, LostIs DEF Kept
  <2>3. CASE key = Root
    <3>1. At(key) = tree.root
      BY <2>3, NodeAtRoot DEF At
    <3>2. Holds(tree', node') /\ LostIn(tree', node') = Lost
      BY <2>1, <3>1, PruneAllResult
    <3>3. QED
      BY <3>2, LostIs DEF Kept
  <2>4. QED
    BY <2>2, <2>3
<1>3. QED
  BY <1>1, <1>2 DEF Delete

LEMMA StepDeleteAll ==
  ASSUME IInv, DeleteAll
  PROVE  Kept /\ tree' # NULL /\ ~OpenIn(tree')
<1>1. Open /\ Prune(tree.root)
  BY DEF DeleteAll
<1>2. Holds(tree', node') /\ tree' # NULL /\ ~OpenIn(tree') /\ LostIn(tree', node') = Lost
  BY <1>1, PruneIs, PruneAllResult
<1>3. QED
  BY <1>2, LostIs DEF Kept

LEMMA StepClear ==
  ASSUME IInv, Clear
  PROVE  Kept /\ IsBare
<1> DEFINE rest == Without(node, Reached(node, tree.root))
<1>1. Open /\ IsHeap(node)
  BY DEF Clear, IInv, Holds
<1>2. IsHeap(rest) /\ DOMAIN rest = Lost
  BY <1>1, Uprooted
<1>3. Lost = DOMAIN node \ Below(tree.root)
  BY <1>1 DEF Lost
<1>4. NULL \in {RootKey, NULL}
  OBVIOUS
<1>5. CASE \E n \in Address \ (DOMAIN node \ Below(tree.root)) :
             /\ n = Min(Address \ (DOMAIN node \ Below(tree.root)))
             /\ Replant(n, Without(node, Below(tree.root)))
  <2>1. PICK n \in Address \ DOMAIN rest : Replant(n, rest)
    BY <1>2, <1>3, <1>5 DEF Below
  <2>2. tree' = [length |-> 1, root |-> n] /\ node' = With(rest, n, NewNode(NULL, NULL))
    BY <2>1 DEF Replant
  <2> HIDE DEF rest
  <2>3. /\ Holds(tree', node') /\ OpenIn(tree') /\ LostIn(tree', node') = DOMAIN rest
        /\ \A q \in Seq(Token) : ElementAt(node', tree'.root, q) = NULL
    BY <1>2, <1>4, <2>2, Planted
  <2>4. QED
    BY <1>2, <2>3, LostIs DEF Kept, IsBare
<1>6. CASE /\ tree' = [length |-> 0, root |-> NULL]
           /\ node' = Without(node, Below(tree.root))
  <2>1. IsTreeRecord(tree') /\ tree'.length = 0
    BY <1>6 DEF IsTreeRecord
  <2>2. node' = rest
    BY <1>6 DEF Below
  <2>3. Holds(tree', node') /\ ~OpenIn(tree') /\ LostIn(tree', node') = Lost
    BY <1>2, <2>1, <2>2 DEF Holds, OpenIn, LostIn
  <2>4. QED
    BY <2>3, LostIs DEF Kept, IsBare
<1>7. CASE Free # {} /\ Replant(Min(Free), node)
  <2>1. Min(Free) \in Address \ DOMAIN node
    BY <1>7, FreeIsFree DEF Free
  <2>2. /\ tree' = [length |-> 1, root |-> Min(Free)]
        /\ node' = With(node, Min(Free), NewNode(NULL, NULL))
    BY <1>7 DEF Replant
  <2>3. /\ Holds(tree', node') /\ OpenIn(tree') /\ LostIn(tree', node') = DOMAIN node
        /\ \A q \in Seq(Token) : ElementAt(node', tree'.root, q) = NULL
    BY <1>1, <1>4, <2>1, <2>2, Planted
  <2>4. QED
    BY <2>3 DEF Kept, IsBare
<1>8. CASE tree' = NULL /\ UNCHANGED node
  BY <1>1, <1>8 DEF Kept, IsBare, Holds, OpenIn, LostIn
<1>9. QED
  BY <1>5, <1>6, <1>7, <1>8 DEF Clear

LEMMA StepDestroy ==
  ASSUME IInv, Destroy
  PROVE  Kept
<1>1. /\ Open /\ IsHeap(node) /\ tree' = NULL
      /\ node' \in {Without(node, Reached(node, tree.root)), node}
  BY DEF Destroy, IInv, Holds, Below
<1>2. IsHeap(node') /\ DOMAIN node' \in {Lost, DOMAIN node}
  BY <1>1, Uprooted
<1>3. QED
  BY <1>1, <1>2, LostIs DEF Kept, Holds, OpenIn, LostIn

LEMMA FoundType ==
  ASSUME IInv, NEW key \in Path, Find(key)
  PROVE  out' \in Data \cup {Zero, NULL}
<1>1. Open /\ out' = Element(key) /\ key \in Seq(Token)
  BY PathAssumption DEF Find
<1>2. QED
  BY <1>1, OpenFacts, ElementIs, ElementFacts

LEMMA DepthType ==
  ASSUME NEW key \in Path, Depth(key)
  PROVE  out' \in Int
<1>1. key \in Seq(Token) /\ Len(key) \in Nat
  BY PathAssumption
<1>2. Separators(Cut(key)) = 0
  BY <1>1 DEF Cut, Separators
<1>3. QED
  BY <1>2 DEF Depth

LEMMA MaxDepthType ==
  ASSUME IInv, MaxDepth
  PROVE  out' \in Int
<1>1. Open /\ out' \in {Cardinality(Below(tree.root)) - 1, -1}
  BY DEF MaxDepth
<1>2. Cardinality(Below(tree.root)) \in Nat
  BY <1>1, OpenFacts, RootedSize DEF Below
<1>3. QED
  BY <1>1, <1>2

LEMMA InitHolds ==
  ASSUME Init
  PROVE  IInv
<1>1. IsHeap(node)
  BY DEF Init, IsHeap, OneParent
<1>2. QED
  BY <1>1 DEF Init, IInv, Holds, OpenIn

LEMMA StepHolds ==
  ASSUME IInv, [Next]_vars
  PROVE  IInv' /\ Kept
<1>1. CASE Create
  BY <1>1, StepCreate DEF IInv, Kept, Create
<1>2. ASSUME NEW key \in Path, NEW d \in Data, Insert(key, d) PROVE IInv' /\ Kept
  BY <1>2, StepInsert DEF IInv, Kept
<1>3. ASSUME NEW key \in Path, Find(key) PROVE IInv' /\ Kept
  BY <1>3, FoundType, KeptUnchanged DEF IInv, Kept, Find
<1>4. ASSUME NEW key \in Path, Delete(key) PROVE IInv' /\ Kept
  BY <1>4, StepDelete DEF IInv, Kept, Delete
<1>5. ASSUME NEW key \in Path, Depth(key) PROVE IInv' /\ Kept
  <2>1. out' \in Int
    BY <1>5, DepthType
  <2>2. QED
    BY <1>5, <2>1, KeptUnchanged DEF IInv, Kept, Depth
<1>6. CASE MaxDepth
  BY <1>6, MaxDepthType, KeptUnchanged DEF IInv, Kept, MaxDepth
<1>7. CASE DeleteAll
  BY <1>7, StepDeleteAll DEF IInv, Kept, DeleteAll
<1>8. CASE Clear
  BY <1>8, StepClear DEF IInv, Kept, Clear
<1>9. CASE Destroy
  BY <1>9, StepDestroy DEF IInv, Kept, Destroy
<1>10. CASE Refuse
  BY <1>10, KeptUnchanged DEF IInv, Kept, Refuse
<1>11. CASE UNCHANGED vars
  BY <1>11, KeptUnchanged DEF IInv, Kept, vars
<1>12. QED
  BY <1>1, <1>2, <1>3, <1>4, <1>5, <1>6, <1>7, <1>8, <1>9, <1>10, <1>11
     DEF Next, TreeDelete

-----------------------------------------------------------------------------
(* What the invariant says.                                                *)
LEMMA InvImpliesType ==
  ASSUME IInv
  PROVE  TypeOK
<1>1. IsHeap(node) /\ (tree = NULL \/ IsTreeRecord(tree))
  BY DEF IInv, Holds
<1>2. ASSUME tree # NULL
      PROVE  tree \in [length : 0..Cardinality(Address), root : Address \cup {NULL}]
  <2>1. /\ tree = [length |-> tree.length, root |-> tree.root]
        /\ tree.length \in Nat /\ tree.root \in Address \cup {NULL}
    BY <1>1, <1>2, RecordIsNotNull
  <2>2. Cardinality(Address) \in Nat
    BY HeapIsFinite
  <2>3. tree.length \in 0..Cardinality(Address)
    <3>1. CASE tree.length = 0
      BY <2>2, <3>1
    <3>2. CASE Open
      <4>1. /\ tree.length = Cardinality(Reached(node, tree.root))
            /\ Reached(node, tree.root) \subseteq Address
        BY <1>1, <3>2, OpenFacts DEF Reached, IsHeap
      <4>2. QED
        BY <2>1, <2>2, <4>1, HeapIsFinite
    <3>3. QED
      BY <1>2, <3>1, <3>2 DEF Open
  <2>4. QED
    BY <2>1, <2>3
<1>3. ASSUME NEW n \in DOMAIN node
      PROVE  \/ node[n].key \in Token /\ node[n].buffer \in Data \cup {Zero}
             \/ node[n].key \in {RootKey, NULL} /\ node[n].buffer = NULL
  BY <1>1 DEF IsHeap, IsNode
<1>4. DOMAIN node \subseteq Address
  BY <1>1 DEF IsHeap
<1>5. QED
  BY <1>2, <1>3, <1>4 DEF TypeOK, IInv

LEMMA InvImpliesTree ==
  ASSUME IInv
  PROVE  IsTree
<1> DEFINE reached == Below(tree.root)
           Parents(n) == {m \in reached : n \in ToSet(node[m].children)}
<1> SUFFICES ASSUME Open
             PROVE  /\ tree.root \in reached /\ Parents(tree.root) = {}
                    /\ \A n \in reached :
                         /\ ToSet(node[n].children) \subseteq DOMAIN node
                         /\ IsInjective([i \in DOMAIN node[n].children |->
                                           node[node[n].children[i]].key])
                         /\ n # tree.root => Cardinality(Parents(n)) = 1
  BY DEF IsTree
<1>1. /\ IsRooted(node, tree.root) /\ IsHeap(node) /\ OneParent(node)
      /\ tree.root \in DOMAIN node
  BY OpenFacts DEF IsRooted, IsHeap
<1>2. tree.root \in reached /\ reached \subseteq DOMAIN node
  BY <1>1, ReachedSelf DEF Below
<1>3. Parents(tree.root) = {}
  BY <1>1, <1>2, RootIsNoKid DEF Kids
<1>4. ASSUME NEW n \in reached
      PROVE  /\ ToSet(node[n].children) \subseteq DOMAIN node
             /\ IsInjective([i \in DOMAIN node[n].children |->
                               node[node[n].children[i]].key])
  <2>1. HasKids(node, n)
    BY <1>1, <1>2 DEF IsHeap
  <2>2. \A i \in DOMAIN node[n].children : node[n].children[i] \in Kids(node, n)
    BY DEF Kids, ToSet
  <2>3. QED
    BY <2>1, <2>2 DEF HasKids, Kids, IsInjective
<1>5. ASSUME NEW n \in reached, n # tree.root PROVE Cardinality(Parents(n)) = 1
  <2>1. PICK p \in reached : n \in Kids(node, p)
    BY <1>1, <1>5, ReachedParent DEF Below
  <2>2. Parents(n) = {p}
    BY <1>1, <1>2, <2>1 DEF OneParent, Kids
  <2>3. QED
    BY <2>2, FS_Singleton
<1>6. QED
  BY <1>2, <1>3, <1>4, <1>5

(* The tree that a client sees is one, and its length is right: see Tree's *)
(* TypeOK, LengthCountsNodes and IsTree.                                   *)
THEOREM TreeCorrect == Spec => [](TypeOK /\ LengthCountsNodes /\ IsTree)
<1>1. Init => IInv
  BY InitHolds
<1>2. IInv /\ [Next]_vars => IInv'
  BY StepHolds
<1>3. IInv => LengthCountsNodes
  BY OpenFacts DEF LengthCountsNodes, Below
<1>4. IInv => TypeOK /\ LengthCountsNodes /\ IsTree
  BY <1>3, InvImpliesType, InvImpliesTree
<1>5. QED
  BY <1>1, <1>2, <1>4, PTL DEF Spec

(* No insert that fails on its way and no delete drops a node: memory is   *)
(* lost by the tree as a whole or not at all.                              *)
THEOREM NoNodeIsDropped == Spec => NothingLostPiecemeal
<1>1. Init => IInv
  BY InitHolds
<1>2. IInv /\ [Next]_vars => IInv'
  BY StepHolds
<1>3. IInv /\ [Next]_vars => [Lost' \in {Lost, DOMAIN node}]_vars
  <2>1. ASSUME IInv, [Next]_vars PROVE Lost' \in {Lost, DOMAIN node}
    <3>1. LostIn(tree', node') \in {LostIn(tree, node), DOMAIN node}
      BY <2>1, StepHolds DEF Kept
    <3>2. Lost' = LostIn(tree', node')
      BY DEF Lost, LostIn, Open, OpenIn, Below
    <3>3. QED
      BY <3>1, <3>2, LostIs
  <2>2. QED
    BY <2>1
<1>4. QED
  BY <1>1, <1>2, <1>3, PTL DEF Spec, NothingLostPiecemeal

-----------------------------------------------------------------------------
(* The map that the tree implements.                                       *)
StateIn(T) == IF T = NULL THEN "none" ELSE IF OpenIn(T) THEN "open" ELSE "dead"

ContentIn(T, N) ==
  [p \in Paths |-> IF OpenIn(T) THEN ElementAt(N, T.root, p) ELSE NULL]

LEMMA MapIs ==
  /\ MapState = StateIn(tree) /\ MapContent = ContentIn(tree, node)
  /\ MapState' = StateIn(tree') /\ MapContent' = ContentIn(tree', node')
BY DEF MapState, MapContent, StateIn, ContentIn, Open, OpenIn, Element, At, ElementAt

LEMMA OpenContent ==
  ASSUME Open
  PROVE  /\ MapState = "open"
         /\ MapContent = [p \in Paths |-> ElementAt(node, tree.root, p)]
<1>1. tree # NULL /\ OpenIn(tree)
  BY DEF Open, OpenIn
<1>2. QED
  BY <1>1, MapIs DEF StateIn, ContentIn

LEMMA OpenContentNext ==
  ASSUME OpenIn(tree')
  PROVE  /\ MapState' = "open"
         /\ MapContent' = [p \in Paths |-> ElementAt(node', tree'.root, p)]
<1>1. tree' # NULL
  BY DEF OpenIn
<1>2. QED
  BY <1>1, MapIs DEF StateIn, ContentIn

LEMMA BareContent ==
  ASSUME IsBare
  PROVE  MapContent' = P!Nothing
<1>1. MapContent' = [p \in Paths |-> IF OpenIn(tree') THEN ElementAt(node', tree'.root, p) ELSE NULL]
  BY MapIs DEF ContentIn
<1>2. \A p \in Paths : p \in Seq(Token)
  BY PathsFacts
<1>3. QED
  BY <1>1, <1>2 DEF IsBare, P!Nothing

LEMMA KeyIsPath ==
  ASSUME NEW key \in Path, key # Root
  PROVE  key \in Paths /\ key \in Seq(Token)
<1>1. key \in Seq(Token)
  BY PathAssumption
<1>2. QED
  BY <1>1, PathsFacts, PrefixOfSelf

LEMMA SamePrefix ==
  ASSUME NEW p, NEW q
  PROVE  P!IsPrefix(p, q) <=> IsPrefix(p, q)
BY DEF P!IsPrefix, IsPrefix

(* The nodes but the root are as many as the paths with an element.        *)
LEMMA CountPaths ==
  ASSUME IInv, Open
  PROVE  Cardinality(Below(tree.root)) - 1 = Cardinality({p \in Paths : MapContent[p] # NULL})
<1> DEFINE root == tree.root
           rest == Reached(node, root) \ {root}
           full == {p \in Paths : NodeAt(node, root, p) # NULL}
           f == [p \in full |-> NodeAt(node, root, p)]
<1>1. /\ IsRooted(node, root) /\ IsPathed(node, root) /\ root \in DOMAIN node
      /\ node[root].buffer = NULL
  BY OpenFacts DEF IsRooted
<1>2. \A p \in Paths : p \in Seq(Token) /\ p # Root
  BY PathsFacts
<1>3. {p \in Paths : MapContent[p] # NULL} = full
  <2>1. \A p \in Paths : MapContent[p] = ElementAt(node, root, p)
    BY OpenContent
  <2>2. QED
    BY <1>1, <1>2, <2>1, ElementFacts
<1>4. f \in [full -> rest]
  <2>1. ASSUME NEW p \in full PROVE NodeAt(node, root, p) \in rest
    <3>1. p \in Seq(Token) /\ p # Root /\ NodeAt(node, root, p) # NULL
      BY <1>2
    <3>2. /\ NodeAt(node, root, p) \in Reached(node, root)
          /\ node[NodeAt(node, root, p)].buffer # NULL
      BY <1>1, <3>1, NodeAtRange
    <3>3. QED
      BY <1>1, <3>2
  <2>2. QED
    BY <2>1
<1>5. ASSUME NEW p \in full, NEW q \in full, f[p] = f[q] PROVE p = q
  <2>1. /\ p \in Seq(Token) /\ q \in Seq(Token)
        /\ NodeAt(node, root, p) = NodeAt(node, root, q) /\ NodeAt(node, root, q) # NULL
    BY <1>2, <1>5
  <2>2. QED
    BY <1>1, <2>1, NodeAtInjective
<1>6. ASSUME NEW m \in rest PROVE \E p \in full : f[p] = m
  <2>1. m \in DOMAIN node /\ m # NULL
    BY <1>1, ReachedSelf, NullAssumption DEF IsRooted, IsHeap
  <2>2. PICK p \in Paths : NodeAt(node, root, p) = m
    BY <1>1 DEF IsPathed
  <2>3. QED
    BY <2>1, <2>2
<1>7. f \in Injection(full, rest) /\ f \in Surjection(full, rest)
  <2> HIDE DEF full, rest, f
  <2>1. \A p, q \in DOMAIN f : f[p] = f[q] => p = q
    BY <1>4, <1>5
  <2>2. QED
    BY <1>4, <1>6, <2>1 DEF Injection, Surjection, IsInjective
<1>8. root \in Reached(node, root) /\ Reached(node, root) \subseteq Address
  BY <1>1, ReachedSelf DEF IsRooted, IsHeap
<1>9. IsFiniteSet(Reached(node, root))
  BY <1>8, HeapIsFinite
<1>10. IsFiniteSet(rest) /\ Cardinality(rest) = Cardinality(Reached(node, root)) - 1
  BY <1>8, <1>9, FS_RemoveElement
<1>11. Cardinality(full) = Cardinality(rest)
  <2> HIDE DEF full, rest, f
  <2>1. QED
    BY <1>7, <1>10, FS_Injection
<1>12. QED
  BY <1>3, <1>10, <1>11 DEF Below

(* Every step is one of the map's, or none.                                *)
MapStep == P!Next \/ UNCHANGED <<MapState, MapContent, out>>

LEMMA MapUnchanged ==
  ASSUME UNCHANGED <<tree, node>>
  PROVE  UNCHANGED <<MapState, MapContent>>
BY MapIs

LEMMA MapCreate ==
  ASSUME IInv, Create
  PROVE  MapStep
<1>1. IsBare /\ (tree' = NULL \/ OpenIn(tree')) /\ tree = NULL /\ out' = out
  BY StepCreate DEF Create
<1>2. MapContent = P!Nothing /\ MapState = "none"
  BY <1>1, MapIs DEF ContentIn, StateIn, OpenIn, P!Nothing
<1>3. MapContent' = P!Nothing /\ MapState' \in {"none", "open"}
  BY <1>1, BareContent, MapIs DEF StateIn
<1>4. P!Create
  BY <1>1, <1>2, <1>3 DEF P!Create
<1>5. QED
  BY <1>4 DEF MapStep, P!Next

LEMMA MapInserted ==
  ASSUME IInv, Open, NEW key \in Paths, NEW d \in Data, OpenIn(tree'), tree'.root = tree.root,
         IsInserted(node', key, d), out' = d
  PROVE  P!Insert(key, d)
<1>1. /\ MapState = "open" /\ MapState' = "open"
      /\ MapContent = [p \in Paths |-> ElementAt(node, tree.root, p)]
      /\ MapContent' = [p \in Paths |-> ElementAt(node', tree.root, p)]
  BY OpenContent, OpenContentNext
<1>2. ASSUME NEW q \in Paths
      PROVE  ElementAt(node', tree.root, q) = IF q = key THEN d ELSE P!AddTo(key, q)
  <2>1. q \in Seq(Token) /\ q # Root
    BY PathsFacts
  <2>2. MapContent[q] = ElementAt(node, tree.root, q)
    BY <1>1
  <2>3. P!AddTo(key, q) = IF IsPrefix(q, key) /\ ElementAt(node, tree.root, q) = NULL
                          THEN Zero ELSE ElementAt(node, tree.root, q)
    BY <2>2, SamePrefix DEF P!AddTo
  <2>4. QED
    BY <2>1, <2>3 DEF IsInserted
<1>3. MapContent' = [q \in Paths |-> IF q = key THEN d ELSE P!AddTo(key, q)]
  BY <1>1, <1>2
<1>4. QED
  BY <1>1, <1>3 DEF P!Insert

LEMMA MapStopped ==
  ASSUME IInv, Open, NEW key \in Paths, OpenIn(tree'), tree'.root = tree.root,
         IsStopped(node', key), out' = NULL
  PROVE  P!InsertPart(key)
<1>1. /\ MapState = "open" /\ MapState' = "open"
      /\ MapContent = [p \in Paths |-> ElementAt(node, tree.root, p)]
      /\ MapContent' = [p \in Paths |-> ElementAt(node', tree.root, p)]
  BY OpenContent, OpenContentNext
<1>2. PICK r \in Seq(Token) : r # key /\ IsPrefix(r, key) /\ IsExtended(node', r)
  BY DEF IsStopped
<1>3. MapContent[key] = NULL
  BY <1>1 DEF IsStopped, ElementAt
<1> DEFINE n == Len(r)
<1>4. key \in Seq(Token) /\ Len(key) \in Nat /\ n \in Nat
  <2>1. key \in Seq(Token)
    BY PathsFacts
  <2>2. QED
    BY <2>1
<1>5. n \in 0..Len(key)-1 /\ SubSeq(key, 1, n) = r
  <2>1. n <= Len(key) /\ \A i \in 1..n : r[i] = key[i]
    BY <1>2, <1>4, PrefixFacts
  <2>2. n # Len(key)
    BY <1>2, <1>4, <2>1, SamePath
  <2> DEFINE b == SubSeq(key, 1, n)
  <2>3. b \in Seq(Token) /\ Len(b) = n /\ \A i \in 1..n : b[i] = key[i]
    BY <1>4, <2>1
  <2> HIDE DEF b
  <2>4. b = r
    BY <2>1, <2>3, SamePath
  <2>5. QED
    BY <1>4, <2>1, <2>2, <2>4 DEF b
<1>6. ASSUME NEW q \in Paths
      PROVE  ElementAt(node', tree.root, q) = P!AddTo(r, q)
  <2>1. q \in Seq(Token) /\ q # Root
    BY PathsFacts
  <2>2. MapContent[q] = ElementAt(node, tree.root, q)
    BY <1>1
  <2>3. P!AddTo(r, q) = IF IsPrefix(q, r) /\ ElementAt(node, tree.root, q) = NULL
                        THEN Zero ELSE ElementAt(node, tree.root, q)
    BY <2>2, SamePrefix DEF P!AddTo
  <2>4. QED
    BY <1>2, <2>1, <2>3 DEF IsExtended
<1>7. MapContent' = [q \in Paths |-> P!AddTo(SubSeq(key, 1, n), q)]
  BY <1>1, <1>5, <1>6
<1>8. QED
  BY <1>1, <1>3, <1>5, <1>7 DEF P!InsertPart

LEMMA MapInsert ==
  ASSUME IInv, NEW key \in Path, NEW d \in Data, Insert(key, d)
  PROVE  MapStep
<1>1. Open /\ key # Root
  BY DEF Insert, Root
<1>2. PICK s \in Walks(key) :
        /\ tree' = [tree EXCEPT !.length = s.length]
        /\ node' = IF s.at = NULL THEN s.node ELSE [s.node EXCEPT ![s.at].buffer = d]
        /\ out' = IF s.at = NULL THEN NULL ELSE d
  BY DEF Insert
<1>3. /\ OpenIn(tree') /\ tree'.root = tree.root
      /\ IF s.at = NULL THEN IsStopped(node', key) ELSE IsInserted(node', key, d)
  BY <1>1, <1>2, InsertResult
<1>4. key \in Paths
  BY <1>1, KeyIsPath
<1>5. CASE s.at = NULL
  <2>1. P!InsertPart(key)
    BY <1>1, <1>2, <1>3, <1>4, <1>5, MapStopped
  <2>2. QED
    BY <1>4, <2>1 DEF MapStep, P!Next
<1>6. CASE s.at # NULL
  <2>1. P!Insert(key, d)
    BY <1>1, <1>2, <1>3, <1>4, <1>6, MapInserted
  <2>2. QED
    BY <1>4, <2>1 DEF MapStep, P!Next
<1>7. QED
  BY <1>5, <1>6

LEMMA MapFind ==
  ASSUME IInv, NEW key \in Path, Find(key)
  PROVE  MapStep
<1>1. Open /\ out' = ElementAt(node, tree.root, key) /\ UNCHANGED <<MapState, MapContent>>
  BY ElementIs, MapUnchanged DEF Find
<1>2. CASE key = Root
  <2>1. out' = NULL
    BY <1>1, <1>2, OpenFacts, PathFacts, ElementFacts
  <2>2. P!FindRoot
    BY <1>1, <2>1, OpenContent DEF P!FindRoot
  <2>3. QED
    BY <2>2 DEF MapStep, P!Next
<1>3. CASE key # Root
  <2>1. key \in Paths
    BY <1>3, KeyIsPath
  <2>2. P!Find(key)
    BY <1>1, <2>1, OpenContent DEF P!Find
  <2>3. QED
    BY <2>1, <2>2 DEF MapStep, P!Next
<1>4. QED
  BY <1>2, <1>3

LEMMA MapDepth ==
  ASSUME Open, UNCHANGED <<tree, node>>, out' \in Int
  PROVE  MapStep
<1>1. UNCHANGED <<MapState, MapContent>> /\ MapState = "open"
  BY MapUnchanged, OpenContent
<1>2. P!AskDepth
  BY <1>1 DEF P!AskDepth
<1>3. QED
  BY <1>2 DEF MapStep, P!Next

LEMMA MapEnd ==
  ASSUME Open, ~OpenIn(tree'), out' = out
  PROVE  MapStep
<1>1. MapContent' = P!Nothing
  BY BareContent DEF IsBare
<1>2. MapState' \in {"dead", "none"}
  BY MapIs DEF StateIn
<1>3. P!End
  BY <1>1, <1>2, OpenContent DEF P!End
<1>4. QED
  BY <1>3 DEF MapStep, P!Next

LEMMA MapDelete ==
  ASSUME IInv, NEW key \in Path, Delete(key)
  PROVE  MapStep
<1>1. CASE UNCHANGED <<tree, node>>
  BY <1>1, MapUnchanged DEF MapStep, Delete
<1>2. CASE At(key) # NULL /\ Prune(At(key))
  <2>1. /\ Open /\ key \in Seq(Token) /\ out' = out
        /\ tree' = [tree EXCEPT !.length = @ - Cardinality(Reached(node, At(key)))]
        /\ node' = Pruned(node, At(key))
    BY <1>2, PathAssumption, PruneIs DEF Delete
  <2>2. CASE key # Root
    <3>1. OpenIn(tree') /\ tree'.root = tree.root /\ IsCut(node', key)
      BY <1>2, <2>1, <2>2, PruneResult DEF At
    <3>2. /\ MapState = "open" /\ MapState' = "open"
          /\ MapContent = [p \in Paths |-> ElementAt(node, tree.root, p)]
          /\ MapContent' = [p \in Paths |-> ElementAt(node', tree.root, p)]
      BY <2>1, <3>1, OpenContent, OpenContentNext
    <3>3. key \in Paths
      BY <2>2, KeyIsPath
    <3>4. ASSUME NEW q \in Paths
          PROVE  ElementAt(node', tree.root, q) =
                   IF P!IsPrefix(key, q) THEN NULL ELSE MapContent[q]
      <4>1. q \in Seq(Token)
        BY PathsFacts
      <4>2. MapContent[q] = ElementAt(node, tree.root, q)
        BY <3>2
      <4>3. QED
        BY <3>1, <4>1, <4>2, SamePrefix DEF IsCut
    <3>5. MapContent' = [q \in Paths |-> IF P!IsPrefix(key, q) THEN NULL ELSE MapContent[q]]
      BY <3>2, <3>4
    <3>6. P!Delete(key)
      BY <2>1, <3>2, <3>5 DEF P!Delete
    <3>7. QED
      BY <3>3, <3>6 DEF MapStep, P!Next
  <2>3. CASE key = Root
    <3>1. At(key) = tree.root
      BY <2>3, NodeAtRoot DEF At
    <3>2. ~OpenIn(tree')
      BY <2>1, <3>1, PruneAllResult
    <3>3. QED
      BY <2>1, <3>2, MapEnd
  <2>4. QED
    BY <2>2, <2>3
<1>3. QED
  BY <1>1, <1>2 DEF Delete

LEMMA MapClear ==
  ASSUME IInv, Clear
  PROVE  MapStep
<1>1. Open /\ IsBare /\ out' = out
  BY StepClear DEF Clear
<1>2. CASE OpenIn(tree')
  <2>1. P!ClearAll
    BY <1>1, <1>2, OpenContent, OpenContentNext, BareContent DEF P!ClearAll
  <2>2. QED
    BY <2>1 DEF MapStep, P!Next
<1>3. QED
  BY <1>1, <1>2, MapEnd

LEMMA MapRefuse ==
  ASSUME Refuse
  PROVE  MapStep
<1>1. UNCHANGED <<MapState, MapContent>> /\ out' \in {out, NULL, -1}
  BY MapUnchanged DEF Refuse
<1>2. MapState = "dead"
  BY MapIs DEF Refuse, StateIn, OpenIn
<1>3. CASE out' = out
  BY <1>1, <1>3 DEF MapStep
<1>4. CASE out' \in {NULL, -1}
  BY <1>1, <1>2, <1>4 DEF MapStep, P!Next, P!Refuse
<1>5. QED
  BY <1>1, <1>3, <1>4

LEMMA StepIsMapStep ==
  ASSUME IInv, [Next]_vars
  PROVE  MapStep
<1>1. CASE Create
  BY <1>1, MapCreate
<1>2. ASSUME NEW key \in Path, NEW d \in Data, Insert(key, d) PROVE MapStep
  BY <1>2, MapInsert
<1>3. ASSUME NEW key \in Path, Find(key) PROVE MapStep
  BY <1>3, MapFind
<1>4. ASSUME NEW key \in Path, Delete(key) PROVE MapStep
  BY <1>4, MapDelete
<1>5. CASE DeleteAll
  BY <1>5, StepDeleteAll, MapEnd DEF DeleteAll
<1>6. CASE Clear
  BY <1>6, MapClear
<1>7. CASE Destroy
  <2>1. Open /\ ~OpenIn(tree') /\ out' = out
    BY <1>7 DEF Destroy, OpenIn
  <2>2. QED
    BY <2>1, MapEnd
<1>8. CASE Refuse
  BY <1>8, MapRefuse
<1>9. ASSUME NEW key \in Path, Depth(key) PROVE MapStep
  BY <1>9, DepthType, MapDepth DEF Depth
<1>10. CASE MaxDepth
  BY <1>10, MaxDepthType, MapDepth DEF MaxDepth
<1>11. CASE UNCHANGED vars
  BY <1>11, MapUnchanged DEF MapStep, vars
<1>12. QED
  BY <1>1, <1>2, <1>3, <1>4, <1>5, <1>6, <1>7, <1>8, <1>9, <1>10, <1>11
     DEF Next, TreeDelete

LEMMA InitIsMapInit ==
  ASSUME Init
  PROVE  P!Init
<1>1. tree = NULL /\ out = NULL
  BY DEF Init
<1>2. MapState = "none" /\ MapContent = P!Nothing
  BY <1>1, MapIs DEF StateIn, ContentIn, OpenIn, P!Nothing
<1>3. QED
  BY <1>1, <1>2 DEF P!Init, MapState, MapContent

(* tree.c implements the map of paths, as far as tree.h promises the same: *)
(* see IsPathMap.                                                          *)
THEOREM TreeIsPathMap == Spec => IsPathMap
<1>1. Init => IInv /\ P!Init
  BY InitHolds, InitIsMapInit
<1>2. IInv /\ [Next]_vars => IInv' /\ [P!Next]_<<MapState, MapContent, out>>
  BY StepHolds, StepIsMapStep DEF MapStep
<1>3. IInv /\ [Next]_vars => IInv' /\ [P!Next]_P!vars
  BY <1>2 DEF P!vars, MapState, MapContent
<1>4. QED
  BY <1>1, <1>3, PTL DEF Spec, IsPathMap, P!Spec

-----------------------------------------------------------------------------
(* FlattenSeq, one sequence at a time.                                     *)
Joins(f, n, seqs, E) ==
  /\ f \in [0..n -> Seq(E)] /\ f[0] = << >>
  /\ \A i \in 1..n : f[i] = f[i-1] \o seqs[i]

LEMMA FlattenUnfolds ==
  ASSUME NEW E, NEW n \in Nat, NEW seqs \in Seq(Seq(E)), Len(seqs) = n
  PROVE  \E f : Joins(f, n, seqs, E) /\ f[n] = FlattenSeq(seqs)
<1> DEFINE S == Seq(E)
           g == [i \in 1..n |-> [x \in S |-> x \o seqs[i]]]
           Solves(h) == h = [i \in 1..n |-> IF i = 1 THEN seqs[i] ELSE h[i-1] \o seqs[i]]
<1>1. /\ << >> \in S
      /\ \A i \in 1..n : seqs[i] \in S
      /\ \A i \in 1..n : \A x \in S : x \o seqs[i] \in S
  OBVIOUS
<1>2. PICK f : UnfoldsTo(f, n, S, << >>, g)
  <2>1. g \in [1..n -> [S -> S]]
    BY <1>1
  <2> HIDE DEF S, g
  <2>2. QED
    BY <1>1, <2>1, Recursion
<1>3. /\ f \in [0..n -> S] /\ f[0] = << >>
      /\ \A i \in 1..n : f[i] = f[i-1] \o seqs[i]
  <2>1. \A i \in 1..n : f[i-1] \in S
    BY <1>2 DEF UnfoldsTo
  <2> HIDE DEF S
  <2>2. QED
    BY <1>2, <2>1 DEF UnfoldsTo
<1>4. Joins(f, n, seqs, E)
  BY <1>3 DEF Joins
<1>5. CASE n = 0
  <2>1. FlattenSeq(seqs) = << >>
    BY <1>5 DEF FlattenSeq
  <2>2. QED
    BY <1>4, <1>3, <1>5, <2>1
<1>6. CASE n # 0
  <2> DEFINE fl == CHOOSE h : Solves(h)
             e == [i \in 1..n |-> f[i]]
  <2>1. FlattenSeq(seqs) = fl[n]
    BY <1>6 DEF FlattenSeq
  <2>2. Solves(e)
    <3> HIDE DEF S
    <3>1. ASSUME NEW i \in 1..n
          PROVE  e[i] = IF i = 1 THEN seqs[i] ELSE e[i-1] \o seqs[i]
      <4>1. CASE i = 1
        <5>1. f[1] = f[1-1] \o seqs[1] /\ seqs[1] \in S /\ f[1-1] = << >>
          BY <1>1, <1>3, <4>1
        <5>2. f[1] = seqs[1]
          BY <5>1, ConcatEmptySeq DEF S
        <5>3. QED
          BY <4>1, <5>2
      <4>2. CASE i # 1
        <5>1. i - 1 \in 1..n
          BY <4>2
        <5>2. e[i] = f[i] /\ e[i-1] = f[i-1]
          BY <5>1
        <5>3. f[i] = f[i-1] \o seqs[i]
          BY <1>3
        <5>4. QED
          BY <4>2, <5>2, <5>3
      <4>3. QED
        BY <4>1, <4>2
    <3>2. QED
      BY <3>1
  <2>3. Solves(fl)
    <3> HIDE DEF Solves, e
    <3>1. QED
      BY <2>2
  <2> DEFINE Agree == {i \in 0..n : i = 0 \/ fl[i] = f[i]}
  <2>4. ASSUME NEW i \in 1..n, i - 1 \in Agree PROVE i \in Agree
    <3>1. fl[i] = IF i = 1 THEN seqs[i] ELSE fl[i-1] \o seqs[i]
      BY <2>3
    <3>2. f[i] = IF i = 1 THEN seqs[i] ELSE f[i-1] \o seqs[i]
      BY <2>2, <1>3
    <3> HIDE DEF fl
    <3>3. QED
      BY <2>4, <3>1, <3>2
  <2>5. \A i \in 0..n : i \in Agree
    <3>1. 0 \in Agree
      OBVIOUS
    <3> HIDE DEF Agree
    <3>2. QED
      BY <2>4, <3>1, InductionUpTo
  <2>6. fl[n] = f[n]
    <3>1. n \in 0..n
      OBVIOUS
    <3> HIDE DEF fl
    <3>2. QED
      BY <1>6, <2>5, <3>1
  <2>7. QED
    BY <1>4, <2>1, <2>6
<1>7. QED
  BY <1>5, <1>6

(* The lines of a subtree that has left levels to go.                      *)
Most == Cardinality(Address)

Line == [level : Nat, key : Token \cup {RootKey, NULL}]

LineOf(left, n) == [level |-> Most - left, key |-> node[n].key]

Rows(lines, n) == [i \in DOMAIN node[n].children |-> lines[node[n].children[i]]]

LEMMA RowsType ==
  ASSUME IsHeap(node), NEW lines \in [DOMAIN node -> Seq(Line)], NEW n \in DOMAIN node
  PROVE  /\ Rows(lines, n) \in Seq(Seq(Line))
         /\ Len(Rows(lines, n)) = Len(node[n].children)
         /\ Len(node[n].children) \in Nat
         /\ \A i \in 1..Len(node[n].children) :
              /\ node[n].children[i] \in DOMAIN node
              /\ node[n].children[i] \in Kids(node, n)
              /\ Rows(lines, n)[i] = lines[node[n].children[i]]
         /\ FlattenSeq(Rows(lines, n)) \in Seq(Line)
<1> DEFINE c == node[n].children
           m == Len(c)
           r == Rows(lines, n)
<1>1. c \in Seq(Address) /\ Kids(node, n) \subseteq DOMAIN node
  BY NodeFields DEF IsHeap, HasKids
<1>2. /\ m \in Nat /\ DOMAIN c = 1..m
      /\ \A i \in 1..m : c[i] \in Kids(node, n) /\ c[i] \in DOMAIN node
  BY <1>1 DEF Kids, ToSet
<1>3. r = [i \in 1..m |-> lines[c[i]]]
  BY <1>2 DEF Rows
<1>4. \A i \in 1..m : lines[c[i]] \in Seq(Line)
  BY <1>2
<1> HIDE DEF c, m, r
<1>5. r \in Seq(Seq(Line)) /\ Len(r) = m
  BY <1>2, <1>3, <1>4
<1>6. FlattenSeq(r) \in Seq(Line)
  <2>1. PICK f : Joins(f, m, r, Line) /\ f[m] = FlattenSeq(r)
    BY <1>2, <1>5, FlattenUnfolds
  <2>2. m \in 0..m
    BY <1>2
  <2>3. QED
    BY <2>1, <2>2 DEF Joins
<1>7. QED
  BY <1>2, <1>3, <1>5, <1>6 DEF c, m, r

IsLines(f) ==
  /\ f \in [0..Most -> [DOMAIN node -> Seq(Line)]]
  /\ \A left \in 1..Most : \A n \in DOMAIN node :
       f[left][n] = <<LineOf(left, n)>> \o FlattenSeq(Rows(f[left-1], n))

LEMMA LinesUnfold ==
  ASSUME IsHeap(node), NEW root
  PROVE  \E f : IsLines(f) /\ PrintedLines(root) = f[Most][root]
<1> DEFINE S == [DOMAIN node -> Seq(Line)]
           none == [n \in DOMAIN node |-> << >>]
           LinesAfter(left, x) ==
             [n \in DOMAIN node |-> <<LineOf(left, n)>> \o FlattenSeq(Rows(x, n))]
           g == [left \in 1..Most |-> [x \in S |-> LinesAfter(left, x)]]
           Solves(h) ==
             h = [left \in 0..Most |->
                    [n \in DOMAIN node |->
                       IF left = 0 THEN << >>
                       ELSE <<LineOf(left, n)>> \o FlattenSeq(Rows(h[left-1], n))]]
<1>0. Most \in Nat
  BY HeapIsFinite DEF Most
<1>1. none \in S
  OBVIOUS
<1>2. ASSUME NEW left \in 1..Most, NEW x \in S PROVE LinesAfter(left, x) \in S
  <2>1. ASSUME NEW n \in DOMAIN node
        PROVE  <<LineOf(left, n)>> \o FlattenSeq(Rows(x, n)) \in Seq(Line)
    <3>1. FlattenSeq(Rows(x, n)) \in Seq(Line)
      BY RowsType
    <3>2. LineOf(left, n) \in Line
      <4>1. Most - left \in Nat
        BY <1>0
      <4>2. node[n].key \in Token \cup {RootKey, NULL}
        BY NodeFields DEF IsHeap
      <4>3. QED
        BY <4>1, <4>2 DEF LineOf, Line
    <3>3. QED
      BY <3>1, <3>2
  <2>2. QED
    BY <2>1
<1>3. PICK f : UnfoldsTo(f, Most, S, none, g)
  <2>1. g \in [1..Most -> [S -> S]]
    BY <1>2
  <2> HIDE DEF S, g, none
  <2>2. QED
    BY <1>0, <1>1, <2>1, Recursion
<1>4. /\ f \in [0..Most -> S] /\ f[0] = none
      /\ \A left \in 1..Most : f[left] = LinesAfter(left, f[left-1])
  <2>1. \A left \in 1..Most : f[left-1] \in S
    BY <1>0, <1>3 DEF UnfoldsTo
  <2> HIDE DEF S, none, LinesAfter
  <2>2. QED
    BY <1>3, <2>1 DEF UnfoldsTo
<1>5. Solves(f)
  <2>1. ASSUME NEW left \in 0..Most
        PROVE  f[left] =
                 [n \in DOMAIN node |->
                    IF left = 0 THEN << >>
                    ELSE <<LineOf(left, n)>> \o FlattenSeq(Rows(f[left-1], n))]
    <3>1. CASE left = 0
      BY <1>4, <3>1
    <3>2. CASE left # 0
      <4>1. left \in 1..Most
        BY <3>2
      <4>2. f[left] = LinesAfter(left, f[left-1])
        BY <1>4, <4>1
      <4>3. QED
        BY <3>2, <4>2
    <3>3. QED
      BY <3>1, <3>2
  <2> HIDE DEF S
  <2>2. QED
    BY <1>4, <2>1
<1> DEFINE l == CHOOSE h : Solves(h)
<1>6. PrintedLines(root) = l[Most][root]
  BY Zenon DEF PrintedLines, Most, LineOf, Rows
<1>7. Solves(l)
  <2> HIDE DEF Solves
  <2>1. QED
    BY <1>5
<1> DEFINE Agree == {i \in 0..Most : l[i] = f[i]}
<1>8. 0 \in Agree
  <2>1. 0 \in 0..Most
    BY <1>0
  <2>2. f[0] = none
    BY <1>4
  <2>3. l[0] = none
    <3> HIDE DEF l
    <3>1. QED
      BY <1>7, <2>1
  <2>4. QED
    BY <2>1, <2>2, <2>3
<1>9. ASSUME NEW i \in 1..Most, i - 1 \in Agree PROVE i \in Agree
  <2>1. i \in 0..Most /\ i # 0
    BY <1>0
  <2>2. l[i] = LinesAfter(i, l[i-1])
    <3> HIDE DEF l
    <3>1. QED
      BY <1>7, <2>1
  <2>3. f[i] = LinesAfter(i, f[i-1])
    BY <1>4
  <2> HIDE DEF l, LinesAfter
  <2>4. QED
    BY <1>9, <2>1, <2>2, <2>3
<1>10. \A i \in 0..Most : i \in Agree
  <2> HIDE DEF Agree
  <2>1. QED
    BY <1>0, <1>8, <1>9, InductionUpTo
<1>11. l[Most] = f[Most]
  <2>1. Most \in 0..Most
    BY <1>0
  <2> HIDE DEF l
  <2>2. QED
    BY <1>10, <2>1
<1>12. IsLines(f)
  <2>1. ASSUME NEW left \in 1..Most, NEW n \in DOMAIN node
        PROVE  f[left][n] = <<LineOf(left, n)>> \o FlattenSeq(Rows(f[left-1], n))
    BY <1>4
  <2>2. QED
    BY <1>4, <2>1 DEF IsLines
<1> HIDE DEF l
<1>13. QED
  BY <1>6, <1>11, <1>12

(* The lines of a text show the paths of a set, each of them on one line,  *)
(* and from position k + 1 on its tokens are the keys that a reader finds. *)
Closest(L, i, j, l, t) ==
  L[i].level = l /\ L[i].key = t /\ \A m \in i+1..j : L[m].level # l

Shows(L, f, k, S) ==
  /\ L \in Seq(Line) /\ f \in Seq(Seq(Token)) /\ Len(f) = Len(L)
  /\ \A j \in 1..Len(L) : f[j] \in S /\ L[j].level = Len(f[j])
  /\ \A i, j \in 1..Len(L) : f[i] = f[j] => i = j
  /\ \A p \in S : \E j \in 1..Len(L) : f[j] = p
  /\ \A j \in 1..Len(L) : \A l \in k+1..Len(f[j]) :
       \E i \in 1..j : Closest(L, i, j, l, f[j][l])

LEMMA Concat ==
  ASSUME NEW E, NEW s \in Seq(E), NEW t \in Seq(E), NEW n, n = Len(s), NEW m, m = Len(t),
         NEW a, a = s \o t
  PROVE  /\ a \in Seq(E) /\ Len(a) = n + m /\ n \in Nat /\ m \in Nat
         /\ \A j \in 1..n : a[j] = s[j]
         /\ \A j \in 1..m : a[n + j] = t[j]
<1>1. n \in Nat /\ m \in Nat
  OBVIOUS
<1>2. /\ a \in Seq(E) /\ Len(a) = n + m
      /\ \A i \in 1..n + m : a[i] = IF i <= n THEN s[i] ELSE t[i - n]
  BY ConcatProperties
<1>3. ASSUME NEW j \in 1..n PROVE a[j] = s[j]
  BY <1>1, <1>2
<1>4. ASSUME NEW j \in 1..m PROVE a[n + j] = t[j]
  <2>1. n + j \in 1..n + m /\ ~(n + j <= n) /\ (n + j) - n = j
    BY <1>1
  <2>2. QED
    BY <1>2, <2>1
<1>5. QED
  BY <1>1, <1>2, <1>3, <1>4

LEMMA LinesRegroup ==
  \A s, t, u \in Seq(Line) : (s \o t) \o u = s \o (t \o u)
BY ConcatAssociative

LEMMA InTwoParts ==
  ASSUME NEW n \in Nat, NEW m \in Nat, NEW j \in 1..n+m
  PROVE  j \in 1..n \/ \E i \in 1..m : j = n + i
<1>1. CASE j <= n
  BY <1>1
<1>2. CASE ~(j <= n)
  <2>1. j - n \in 1..m /\ j = n + (j - n)
    BY <1>2
  <2>2. QED
    BY <2>1
<1>3. QED
  BY <1>1, <1>2

LEMMA ShowsJoined ==
  ASSUME NEW k \in Nat,
         NEW L, NEW f, NEW S, Shows(L, f, k, S),
         NEW M, NEW g, NEW T, Shows(M, g, k + 1, T),
         S \cap T = {}, 1 \in 1..Len(M), M[1].level = k + 1,
         \A j \in 2..Len(M) : M[j].level # k + 1,
         \A p \in T : p[k + 1] = M[1].key
  PROVE  Shows(L \o M, f \o g, k, S \cup T)
<1> DEFINE n == Len(L)
           m == Len(M)
           a == L \o M
           e == f \o g
<1>1. /\ a \in Seq(Line) /\ Len(a) = n + m /\ n \in Nat /\ m \in Nat
      /\ \A j \in 1..n : a[j] = L[j]
      /\ \A j \in 1..m : a[n + j] = M[j]
  <2>1. L \in Seq(Line) /\ M \in Seq(Line)
    BY DEF Shows
  <2>2. QED
    BY <2>1, Concat
<1>2. /\ e \in Seq(Seq(Token)) /\ Len(e) = n + m
      /\ \A j \in 1..n : e[j] = f[j]
      /\ \A j \in 1..m : e[n + j] = g[j]
  <2>1. f \in Seq(Seq(Token)) /\ g \in Seq(Seq(Token)) /\ Len(f) = n /\ Len(g) = m
    BY DEF Shows
  <2>2. /\ e \in Seq(Seq(Token)) /\ Len(e) = Len(f) + Len(g)
        /\ \A j \in 1..Len(f) : e[j] = f[j]
        /\ \A j \in 1..Len(g) : e[Len(f) + j] = g[j]
    <3>1. f \in Seq(Seq(Token)) /\ g \in Seq(Seq(Token))
      BY <2>1
    <3> HIDE DEF e
    <3>2. QED
      BY <3>1, Concat DEF e
  <2> HIDE DEF e
  <2>3. QED
    BY <2>1, <2>2
<1> HIDE DEF a, e
<1>3. ASSUME NEW j \in 1..n+m PROVE j \in 1..n \/ \E i \in 1..m : j = n + i
  BY <1>1, InTwoParts
<1>4. /\ \A j \in 1..n : f[j] \in S /\ L[j].level = Len(f[j])
      /\ \A j \in 1..m : g[j] \in T /\ M[j].level = Len(g[j])
  BY DEF Shows
<1>5. ASSUME NEW j \in 1..n+m
      PROVE  e[j] \in S \cup T /\ a[j].level = Len(e[j])
  <2>1. CASE j \in 1..n
    BY <1>1, <1>2, <1>4, <2>1
  <2>2. ASSUME NEW i \in 1..m, j = n + i
        PROVE  e[j] \in S \cup T /\ a[j].level = Len(e[j])
    <3>1. e[j] = g[i] /\ a[j] = M[i]
      BY <1>1, <1>2, <2>2
    <3>2. QED
      BY <1>4, <3>1
  <2>3. QED
    BY <1>3, <2>1, <2>2
<1>6. ASSUME NEW i \in 1..n+m, NEW j \in 1..n+m, e[i] = e[j] PROVE i = j
  <2>1. CASE i \in 1..n /\ j \in 1..n
    BY <1>2, <1>6, <2>1 DEF Shows
  <2>2. ASSUME NEW i2 \in 1..m, NEW j2 \in 1..m, i = n + i2, j = n + j2 PROVE i = j
    <3>1. g[i2] = g[j2]
      BY <1>2, <1>6, <2>2
    <3>2. i2 = j2
      BY <3>1 DEF Shows
    <3>3. QED
      BY <2>2, <3>2
  <2>3. ASSUME NEW i1 \in 1..n, NEW j2 \in 1..m PROVE e[i1] # e[n + j2]
    <3>1. e[i1] = f[i1] /\ e[n + j2] = g[j2]
      BY <1>2
    <3>2. f[i1] \in S /\ g[j2] \in T
      BY <1>4
    <3>3. QED
      BY <3>1, <3>2
  <2>4. QED
    <3>1. CASE i \in 1..n
      <4>1. CASE j \in 1..n
        BY <2>1, <3>1, <4>1
      <4>2. ASSUME NEW j2 \in 1..m, j = n + j2 PROVE FALSE
        BY <1>6, <2>3, <3>1, <4>2
      <4>3. QED
        BY <1>3, <4>1, <4>2
    <3>2. ASSUME NEW i2 \in 1..m, i = n + i2 PROVE i = j
      <4>1. CASE j \in 1..n
        BY <1>6, <2>3, <3>2, <4>1
      <4>2. ASSUME NEW j2 \in 1..m, j = n + j2 PROVE i = j
        BY <2>2, <3>2, <4>2
      <4>3. QED
        BY <1>3, <4>1, <4>2
    <3>3. QED
      BY <1>3, <3>1, <3>2
<1>7. ASSUME NEW p \in S \cup T PROVE \E j \in 1..n+m : e[j] = p
  <2>1. CASE p \in S
    <3>1. PICK j \in 1..n : f[j] = p
      BY <2>1 DEF Shows
    <3>2. j \in 1..n+m
      BY <1>1
    <3>3. QED
      BY <1>2, <3>1, <3>2
  <2>2. CASE p \in T
    <3>1. PICK j \in 1..m : g[j] = p
      BY <2>2 DEF Shows
    <3>2. n + j \in 1..n+m
      BY <1>1
    <3>3. QED
      BY <1>2, <3>1, <3>2
  <2>3. QED
    BY <2>1, <2>2
<1>8. ASSUME NEW j \in 1..n, NEW l \in k+1..Len(f[j])
      PROVE  \E i \in 1..j : Closest(a, i, j, l, f[j][l])
  <2>1. PICK i \in 1..j : Closest(L, i, j, l, f[j][l])
    BY DEF Shows
  <2>2. \A x \in 1..j : x \in 1..n
    BY <1>1
  <2>3. \A x \in i+1..j : x \in 1..j
    BY <1>1
  <2>4. \A x \in 1..j : a[x] = L[x]
    BY <1>1, <2>2
  <2>5. Closest(a, i, j, l, f[j][l])
    BY <2>1, <2>3, <2>4 DEF Closest
  <2>6. QED
    BY <2>5
<1>9. ASSUME NEW j \in 1..m, NEW l \in k+1..Len(g[j])
      PROVE  \E i \in 1..n+j : Closest(a, i, n + j, l, g[j][l])
  <2>0. \A i \in 1..j : n + i \in 1..n+j /\ i \in 1..m
    BY <1>1
  <2>1. CASE l = k + 1
    <3>1. g[j] \in T
      BY <1>4
    <3>2. a[n + 1].level = l /\ a[n + 1].key = g[j][l]
      BY <1>1, <2>1, <3>1
    <3>3. ASSUME NEW x \in (n+1)+1..n+j PROVE a[x].level # l
      <4>1. x - n \in 2..m /\ x - n \in 1..m /\ n + (x - n) = x
        BY <1>1
      <4>2. a[x] = M[x - n]
        BY <1>1, <4>1
      <4>3. QED
        BY <2>1, <4>1, <4>2
    <3>4. Closest(a, n + 1, n + j, l, g[j][l])
      BY <3>2, <3>3 DEF Closest
    <3>5. n + 1 \in 1..n+j
      BY <1>1
    <3>6. QED
      BY <3>4, <3>5
  <2>2. CASE l # k + 1
    <3>1. Len(g[j]) \in Nat
      BY DEF Shows
    <3>2. l \in (k+1)+1..Len(g[j])
      BY <2>2, <3>1
    <3>3. PICK i \in 1..j : Closest(M, i, j, l, g[j][l])
      BY <3>2 DEF Shows
    <3>4. a[n + i].level = l /\ a[n + i].key = g[j][l]
      BY <1>1, <2>0, <3>3 DEF Closest
    <3>5. ASSUME NEW x \in (n+i)+1..n+j PROVE a[x].level # l
      <4>1. x - n \in i+1..j /\ x - n \in 1..m /\ n + (x - n) = x
        BY <1>1
      <4>2. a[x] = M[x - n]
        BY <1>1, <4>1
      <4>3. QED
        BY <3>3, <4>1, <4>2 DEF Closest
    <3>6. Closest(a, n + i, n + j, l, g[j][l])
      BY <3>4, <3>5 DEF Closest
    <3>7. QED
      BY <2>0, <3>6
  <2>3. QED
    BY <2>1, <2>2
<1>10. ASSUME NEW j \in 1..n+m, NEW l \in k+1..Len(e[j])
       PROVE  \E i \in 1..j : Closest(a, i, j, l, e[j][l])
  <2>1. CASE j \in 1..n
    BY <1>2, <1>8, <1>10, <2>1
  <2>2. ASSUME NEW j2 \in 1..m, j = n + j2
        PROVE  \E i \in 1..j : Closest(a, i, j, l, e[j][l])
    <3>1. e[j] = g[j2]
      BY <1>2, <2>2
    <3>2. l \in k+1..Len(g[j2])
      BY <1>10, <3>1
    <3>3. PICK i \in 1..n+j2 : Closest(a, i, n + j2, l, g[j2][l])
      BY <1>9, <3>2
    <3>4. QED
      BY <2>2, <3>1, <3>3
  <2>3. QED
    BY <1>3, <2>1, <2>2
<1> HIDE DEF n, m
<1>11. QED
  BY <1>1, <1>2, <1>5, <1>6, <1>7, <1>10 DEF Shows, a, e

(* A path is shorter than the heap is large.                               *)
LEMMA PathIsShort ==
  ASSUME IsRooted(node, tree.root), NEW q \in Seq(Token), At(q) # NULL
  PROVE  Len(q) < Most
<1> DEFINE on(r) == {At(p) : p \in {s \in Seq(Token) : IsPrefix(s, r)}}
           A == {r \in Seq(Token) : At(r) # NULL =>
                   on(r) \subseteq DOMAIN node /\ Cardinality(on(r)) = Len(r) + 1}
<1>0. DOMAIN node \subseteq Address
  BY DEF IsRooted, IsHeap
<1>1. ASSUME NEW r \in Seq(Token), At(r) # NULL PROVE At(r) \in DOMAIN node
  BY <1>1, NodeAtRange DEF At
<1>2. Root \in A
  <2>1. {s \in Seq(Token) : IsPrefix(s, Root)} = {Root}
    BY PathFacts, PrefixOfRoot, PrefixOfSelf
  <2>2. on(Root) = {At(Root)}
    BY <2>1
  <2>3. Cardinality(on(Root)) = 1
    BY <2>2, FS_Singleton
  <2>4. At(Root) # NULL => on(Root) \subseteq DOMAIN node
    BY <1>1, <2>2, PathFacts
  <2> HIDE DEF on
  <2>5. QED
    BY <2>3, <2>4, PathFacts
<1>3. ASSUME NEW r \in Seq(Token), r \in A, NEW t \in Token PROVE Longer(r, t) \in A
  <2> DEFINE a == Longer(r, t)
  <2>0. a \in Seq(Token) /\ Len(a) = Len(r) + 1 /\ a = Longer(r, t) /\ Len(r) \in Nat
    BY LongerPath
  <2> HIDE DEF a
  <2>1. ASSUME At(a) # NULL
        PROVE  on(a) \subseteq DOMAIN node /\ Cardinality(on(a)) = Len(a) + 1
    <3>1. At(r) # NULL
      BY <2>0, <2>1, NodeAtKid DEF At
    <3>2. on(r) \subseteq DOMAIN node /\ Cardinality(on(r)) = Len(r) + 1
      BY <1>3, <3>1
    <3>3. {s \in Seq(Token) : IsPrefix(s, a)} = {s \in Seq(Token) : IsPrefix(s, r)} \cup {a}
      BY <2>0, PrefixStep
    <3>4. on(a) = on(r) \cup {At(a)}
      BY <3>3
    <3>5. At(a) \in DOMAIN node
      BY <1>1, <2>0, <2>1
    <3>6. ASSUME NEW p \in Seq(Token), IsPrefix(p, r) PROVE At(p) # At(a)
      <4>1. Len(p) <= Len(r) /\ Len(p) \in Nat
        BY <3>6, PrefixFacts
      <4>2. p # a
        BY <2>0, <4>1
      <4>3. QED
        BY <2>0, <2>1, <4>2, NodeAtInjective DEF At
    <3>7. At(a) \notin on(r)
      BY <3>6
    <3> HIDE DEF on
    <3>8. Cardinality(on(a)) = Cardinality(on(r)) + 1
      <4>1. on(r) \subseteq Address /\ At(a) \in Address \ on(r)
        BY <1>0, <3>2, <3>5, <3>7
      <4>2. QED
        BY <3>4, <4>1, OneMore
    <3>9. QED
      BY <2>0, <3>2, <3>4, <3>5, <3>8
  <2> HIDE DEF on
  <2>2. QED
    BY <2>0, <2>1
<1> HIDE DEF A
<1>4. \A r \in Seq(Token) : r \in A
  BY <1>2, <1>3, PathInduction
<1>5. q \in A
  BY <1>4
<1>6. on(q) \subseteq DOMAIN node /\ Cardinality(on(q)) = Len(q) + 1
  BY <1>5 DEF A
<1> HIDE DEF on
<1>7. Cardinality(on(q)) <= Most /\ Most \in Nat
  BY <1>0, <1>6, HeapIsFinite DEF Most
<1>8. QED
  BY <1>6, <1>7

(* The paths that go on from q, and the keys of its node's children.       *)
Beyond(q) == {p \in Seq(Token) : IsPrefix(q, p) /\ At(p) # NULL}

KidKey(n, i) == node[node[n].children[i]].key

LEMMA KidPath ==
  ASSUME IsRooted(node, tree.root), NEW q \in Seq(Token), NEW n, n = At(q), n # NULL,
         NEW i \in 1..Len(node[n].children)
  PROVE  /\ KidKey(n, i) \in Token
         /\ At(Longer(q, KidKey(n, i))) = node[n].children[i]
         /\ node[n].children[i] \in DOMAIN node /\ node[n].children[i] # NULL
         /\ \A j \in 1..Len(node[n].children) : KidKey(n, i) = KidKey(n, j) => i = j
<1> DEFINE c == node[n].children
<1>1. n \in DOMAIN node /\ IsHeap(node)
  BY NodeAtRange DEF At, IsRooted
<1>2. /\ c \in Seq(Address) /\ Kids(node, n) \subseteq DOMAIN node
      /\ IsInjective(c)
      /\ \A x \in Kids(node, n) : node[x].buffer # NULL
      /\ \A x, y \in Kids(node, n) : node[x].key = node[y].key => x = y
  BY <1>1, NodeFields DEF IsHeap, HasKids
<1>3. DOMAIN c = 1..Len(c) /\ \A j \in 1..Len(c) : c[j] \in Kids(node, n)
  BY <1>2 DEF Kids, ToSet
<1>4. c[i] \in DOMAIN node /\ c[i] # NULL /\ node[c[i]].key \in Token
  <2>1. c[i] \in DOMAIN node /\ node[c[i]].buffer # NULL
    BY <1>2, <1>3
  <2>2. IsNode(node[c[i]]) /\ NULL \notin DOMAIN node
    BY <1>1, <2>1, ChildFacts DEF IsHeap
  <2>3. QED
    BY <2>1, <2>2, NodeFields
<1>5. At(Longer(q, node[c[i]].key)) = c[i]
  <2>1. Child(node, n, node[c[i]].key) = c[i]
    BY <1>1, <1>3, ChildFacts
  <2>2. QED
    BY <1>4, <2>1, NodeAtLonger DEF At
<1>6. ASSUME NEW j \in 1..Len(c), node[c[i]].key = node[c[j]].key PROVE i = j
  <2>1. c[i] = c[j]
    BY <1>2, <1>3, <1>6
  <2>2. QED
    BY <1>2, <1>3, <2>1 DEF IsInjective
<1>7. QED
  BY <1>4, <1>5, <1>6 DEF KidKey

(* The first k paths of a node: its own and those beyond its children.     *)
Upto(q, n, k) == {q} \cup UNION {Beyond(Longer(q, KidKey(n, i))) : i \in 1..k}

LEMMA BeyondLonger ==
  ASSUME NEW q \in Seq(Token), NEW t \in Token, NEW a, a = Longer(q, t), NEW p \in Beyond(a)
  PROVE  p \in Beyond(q) /\ Len(q) \in Nat /\ Len(q) + 1 \in 1..Len(p) /\ p[Len(q) + 1] = t
<1>1. a \in Seq(Token) /\ Len(a) = Len(q) + 1 /\ Len(q) \in Nat /\ a[Len(q) + 1] = t
  BY LongerPath
<1>2. IsPrefix(q, a)
  BY PrefixStep, PrefixOfSelf
<1>3. p \in Seq(Token) /\ IsPrefix(a, p) /\ At(p) # NULL
  BY DEF Beyond
<1>4. IsPrefix(q, p)
  BY <1>1, <1>2, <1>3, PrefixOfPrefix
<1>5. Len(a) <= Len(p) /\ \A i \in 1..Len(a) : a[i] = p[i]
  BY <1>1, <1>3, PrefixFacts
<1>6. Len(q) + 1 \in 1..Len(a) /\ Len(p) \in Nat
  BY <1>1, <1>3
<1>7. QED
  BY <1>1, <1>3, <1>4, <1>5, <1>6 DEF Beyond

LEMMA BeyondParts ==
  ASSUME IsRooted(node, tree.root), NEW q \in Seq(Token), NEW n, n = At(q), n # NULL
  PROVE  Beyond(q) = Upto(q, n, Len(node[n].children))
<1> DEFINE c == node[n].children
           S == {n} \cup UNION {Reached(node, c[i]) : i \in 1..Len(c)}
<1>1. n \in DOMAIN node /\ IsHeap(node)
  BY NodeAtRange DEF At, IsRooted
<1>2. \A i \in 1..Len(c) : /\ KidKey(n, i) \in Token /\ c[i] \in DOMAIN node /\ c[i] # NULL
                           /\ At(Longer(q, KidKey(n, i))) = c[i]
  BY KidPath
<1>3. Kids(node, n) = {c[i] : i \in 1..Len(c)}
  <2>1. c \in Seq(Address)
    BY <1>1, NodeFields DEF IsHeap
  <2>2. DOMAIN c = 1..Len(c)
    BY <2>1
  <2>3. QED
    BY <2>2 DEF Kids, ToSet
<1>4. Reached(node, n) \subseteq S
  <2>1. S \subseteq DOMAIN node
    BY <1>1, <1>2, ReachedSelf
  <2>2. ASSUME NEW m \in S, NEW x \in Kids(node, m) \cap DOMAIN node PROVE x \in S
    <3>1. CASE m = n
      <4>1. PICK i \in 1..Len(c) : x = c[i]
        BY <1>3, <2>2, <3>1
      <4>2. x \in Reached(node, c[i])
        BY <1>2, <4>1, ReachedSelf
      <4>3. QED
        BY <4>2
    <3>2. ASSUME NEW i \in 1..Len(c), m \in Reached(node, c[i]) PROVE x \in S
      <4>1. x \in Reached(node, c[i])
        BY <2>2, <3>2, ReachedKids
      <4>2. QED
        BY <4>1
    <3>3. QED
      BY <2>2, <3>1, <3>2
  <2>3. Closed(node, S)
    <3> HIDE DEF S
    <3>1. QED
      BY <2>2 DEF Closed, Kids
  <2>4. n \in S
    OBVIOUS
  <2> HIDE DEF S
  <2>5. QED
    BY <2>1, <2>3, <2>4, ReachedLeast
<1>5. ASSUME NEW p \in Beyond(q) PROVE p \in Upto(q, n, Len(c))
  <2>0. p \in Seq(Token) /\ IsPrefix(q, p) /\ At(p) # NULL
    BY DEF Beyond
  <2>1. At(p) \in Reached(node, n)
    BY <2>0, BelowIsPrefix DEF At
  <2>2. CASE At(p) = n
    <3>1. p = q
      BY <2>0, <2>2, NodeAtInjective DEF At
    <3>2. QED
      BY <3>1 DEF Upto
  <2>3. ASSUME NEW i \in 1..Len(c), At(p) \in Reached(node, c[i])
        PROVE  p \in Upto(q, n, Len(c))
    <3> DEFINE a == Longer(q, KidKey(n, i))
    <3>1. a \in Seq(Token) /\ At(a) = c[i] /\ c[i] # NULL
      BY <1>2, LongerPath
    <3> HIDE DEF a
    <3>2. IsPrefix(a, p)
      BY <2>0, <2>3, <3>1, BelowIsPrefix DEF At
    <3>3. p \in Beyond(a)
      BY <2>0, <3>2 DEF Beyond
    <3>4. QED
      BY <3>3 DEF Upto, a
  <2>4. QED
    BY <1>4, <2>1, <2>2, <2>3
<1>6. ASSUME NEW p \in Upto(q, n, Len(c)) PROVE p \in Beyond(q)
  <2>1. CASE p = q
    BY <2>1, PrefixOfSelf DEF Beyond
  <2>2. ASSUME NEW i \in 1..Len(c), p \in Beyond(Longer(q, KidKey(n, i)))
        PROVE  p \in Beyond(q)
    BY <1>2, <2>2, BeyondLonger
  <2>3. QED
    BY <2>1, <2>2 DEF Upto
<1>7. QED
  BY <1>5, <1>6

(* The text of a subtree shows what lies beyond its path.                  *)
IsBlock(L, f, q) ==
  /\ Shows(L, f, Len(q), Beyond(q))
  /\ 1 \in 1..Len(L) /\ f[1] = q /\ L[1].key = node[At(q)].key

LEMMA BlockFacts ==
  ASSUME NEW q \in Seq(Token), NEW t \in Token, NEW a, a = Longer(q, t),
         NEW M, NEW g, IsBlock(M, g, a), node[At(a)].key = t
  PROVE  /\ Shows(M, g, Len(q) + 1, Beyond(a)) /\ 1 \in 1..Len(M)
         /\ M[1].level = Len(q) + 1
         /\ \A j \in 2..Len(M) : M[j].level # Len(q) + 1
         /\ \A p \in Beyond(a) : p[Len(q) + 1] = M[1].key
<1>1. a \in Seq(Token) /\ Len(a) = Len(q) + 1 /\ Len(q) \in Nat
  BY LongerPath
<1>2. Shows(M, g, Len(q) + 1, Beyond(a)) /\ 1 \in 1..Len(M) /\ g[1] = a /\ M[1].key = t
  BY <1>1 DEF IsBlock
<1>3. \A j \in 1..Len(M) : M[j].level = Len(g[j]) /\ g[j] \in Beyond(a)
  BY <1>2 DEF Shows
<1>4. M[1].level = Len(q) + 1
  BY <1>1, <1>2, <1>3
<1>5. ASSUME NEW j \in 2..Len(M) PROVE M[j].level # Len(q) + 1
  <2>1. j \in 1..Len(M) /\ j # 1
    OBVIOUS
  <2>2. g[j] # a
    BY <1>2, <2>1 DEF Shows
  <2>3. g[j] \in Seq(Token) /\ IsPrefix(a, g[j])
    BY <1>3, <2>1 DEF Beyond
  <2>4. \A i \in 1..Len(a) : a[i] = g[j][i]
    BY <1>1, <2>3, PrefixFacts
  <2>5. Len(g[j]) # Len(a)
    BY <1>1, <2>2, <2>3, <2>4, SamePath
  <2>6. QED
    BY <1>1, <1>3, <2>1, <2>5
<1>6. \A p \in Beyond(a) : p[Len(q) + 1] = M[1].key
  BY <1>2, BeyondLonger
<1>7. QED
  BY <1>2, <1>4, <1>5, <1>6

LEMMA FirstLine ==
  ASSUME NEW line \in Line, NEW q \in Seq(Token), line.level = Len(q)
  PROVE  Shows(<<line>>, <<q>>, Len(q), {q})
<1>1. /\ <<line>> \in Seq(Line) /\ Len(<<line>>) = 1 /\ <<line>>[1] = line
      /\ <<q>> \in Seq(Seq(Token)) /\ Len(<<q>>) = 1 /\ <<q>>[1] = q
      /\ Len(q) \in Nat
  OBVIOUS
<1>2. \A j \in 1..1 : j = 1
  OBVIOUS
<1>3. Len(q)+1..Len(q) = {}
  BY <1>1
<1> DEFINE L == <<line>>
           f == <<q>>
<1> HIDE DEF L, f
<1>4. Shows(L, f, Len(q), {q})
  <2>1. /\ L \in Seq(Line) /\ Len(L) = 1 /\ L[1] = line
        /\ f \in Seq(Seq(Token)) /\ Len(f) = 1 /\ f[1] = q
    BY <1>1 DEF L, f
  <2>2. \A j \in 1..Len(L) : j = 1
    BY <1>2, <2>1
  <2>3. /\ \A j \in 1..Len(L) : f[j] \in {q} /\ L[j].level = Len(f[j])
        /\ \A i, j \in 1..Len(L) : f[i] = f[j] => i = j
        /\ 1 \in 1..Len(L)
    BY <2>1, <2>2
  <2>4. \A j \in 1..Len(L) : Len(q)+1..Len(f[j]) = {}
    BY <1>3, <2>1, <2>2
  <2>5. QED
    BY <2>1, <2>3, <2>4 DEF Shows
<1>5. QED
  BY <1>4 DEF L, f

(* The text of a node, one child at a time.                                *)
LEMMA BlockStep ==
  ASSUME IsRooted(node, tree.root), NEW F, IsLines(F), NEW left \in 1..Most,
         NEW q \in Seq(Token), At(q) # NULL, Len(q) = Most - left,
         \A t \in Token : At(Longer(q, t)) # NULL =>
           \E g : IsBlock(F[left-1][At(Longer(q, t))], g, Longer(q, t))
  PROVE  \E f : IsBlock(F[left][At(q)], f, q)
<1> DEFINE n == At(q)
           c == node[n].children
           m == Len(c)
           r == Rows(F[left-1], n)
           line == LineOf(left, n)
<1>1. n \in DOMAIN node /\ IsHeap(node) /\ IsNode(node[n])
  BY NodeAtRange DEF At, IsRooted, IsHeap
<1>2. Most \in Nat /\ left - 1 \in 0..Most /\ Len(q) \in Nat
  BY HeapIsFinite DEF Most
<1>3. F[left-1] \in [DOMAIN node -> Seq(Line)]
  BY <1>2 DEF IsLines
<1>4. /\ r \in Seq(Seq(Line)) /\ Len(r) = m /\ m \in Nat
      /\ \A i \in 1..m : c[i] \in DOMAIN node /\ r[i] = F[left-1][c[i]]
  BY <1>1, <1>3, RowsType
<1>5. F[left][n] = <<line>> \o FlattenSeq(r)
  BY <1>1 DEF IsLines
<1>6. line \in Line /\ line.level = Len(q) /\ line.key = node[n].key
  BY <1>1, <1>2, NodeFields DEF LineOf, Line
<1> HIDE DEF r, line
<1>7. PICK J : Joins(J, m, r, Line) /\ J[m] = FlattenSeq(r)
  BY <1>4, FlattenUnfolds
<1> DEFINE a(i) == Longer(q, KidKey(n, i))
           Shown == {i \in 0..m : \E f : /\ Shows(<<line>> \o J[i], f, Len(q), Upto(q, n, i))
                                     /\ 1 \in 1..Len(f) /\ f[1] = q}
<1>8. 0 \in Shown
  <2>1. J[0] = << >> /\ <<line>> \in Seq(Line)
    BY <1>6, <1>7 DEF Joins
  <2>2. <<line>> \o J[0] = <<line>>
    BY <2>1, ConcatEmptySeq
  <2>3. 1..0 = {} /\ 0 \in 0..m
    BY <1>4
  <2>4. Upto(q, n, 0) = {q}
    BY <2>3 DEF Upto
  <2>5. Shows(<<line>>, <<q>>, Len(q), {q})
    BY <1>6, FirstLine
  <2>6. 1 \in 1..Len(<<q>>) /\ <<q>>[1] = q
    OBVIOUS
  <2>7. QED
    BY <2>2, <2>3, <2>4, <2>5, <2>6
<1>9. ASSUME NEW i \in 1..m, i - 1 \in Shown PROVE i \in Shown
  <2>0. i - 1 \in 0..m /\ i \in 0..m /\ i - 1 \in Nat
    BY <1>4
  <2>1. PICK f : /\ Shows(<<line>> \o J[i-1], f, Len(q), Upto(q, n, i-1))
                 /\ 1 \in 1..Len(f) /\ f[1] = q
    BY <1>9
  <2>2. /\ KidKey(n, i) \in Token /\ At(a(i)) = c[i] /\ c[i] # NULL
        /\ \A j \in 1..m : KidKey(n, i) = KidKey(n, j) => i = j
        /\ \A j \in 1..m : KidKey(n, j) \in Token
    BY KidPath
  <2>3. PICK g : IsBlock(r[i], g, a(i))
    BY <1>4, <2>2
  <2>4. node[At(a(i))].key = KidKey(n, i)
    BY <2>2 DEF KidKey
  <2>5. /\ Shows(r[i], g, Len(q) + 1, Beyond(a(i))) /\ 1 \in 1..Len(r[i])
        /\ r[i][1].level = Len(q) + 1
        /\ \A j \in 2..Len(r[i]) : r[i][j].level # Len(q) + 1
        /\ \A p \in Beyond(a(i)) : p[Len(q) + 1] = r[i][1].key
    <3> DEFINE b == a(i)
               M == r[i]
    <3>1. /\ KidKey(n, i) \in Token /\ b = Longer(q, KidKey(n, i))
          /\ IsBlock(M, g, b) /\ node[At(b)].key = KidKey(n, i)
      BY <2>2, <2>3, <2>4
    <3> HIDE DEF b, M
    <3>2. /\ Shows(M, g, Len(q) + 1, Beyond(b)) /\ 1 \in 1..Len(M)
          /\ M[1].level = Len(q) + 1
          /\ \A j \in 2..Len(M) : M[j].level # Len(q) + 1
          /\ \A p \in Beyond(b) : p[Len(q) + 1] = M[1].key
      BY <3>1, BlockFacts
    <3>3. QED
      BY <3>2 DEF b, M
  <2>6. Upto(q, n, i-1) \cap Beyond(a(i)) = {}
    <3>1. ASSUME NEW p \in Beyond(a(i)) PROVE p \notin Upto(q, n, i-1)
      <4>1. Len(q) + 1 \in 1..Len(p) /\ p[Len(q) + 1] = KidKey(n, i)
        BY <2>2, <3>1, BeyondLonger
      <4>2. p # q
        BY <1>2, <4>1
      <4>3. ASSUME NEW j \in 1..i-1, p \in Beyond(a(j)) PROVE FALSE
        <5>1. j \in 1..m /\ j # i
          BY <1>4
        <5>2. p[Len(q) + 1] = KidKey(n, j)
          BY <2>2, <4>3, <5>1, BeyondLonger
        <5>3. QED
          BY <2>2, <4>1, <5>1, <5>2
      <4>4. QED
        BY <4>2, <4>3 DEF Upto
    <3>2. QED
      BY <3>1
  <2>7. Shows((<<line>> \o J[i-1]) \o r[i], f \o g, Len(q), Upto(q, n, i-1) \cup Beyond(a(i)))
    BY <1>2, <2>1, <2>5, <2>6, ShowsJoined
  <2>8. (<<line>> \o J[i-1]) \o r[i] = <<line>> \o J[i]
    <3>1. J[i] = J[i-1] \o r[i]
      BY <1>7 DEF Joins
    <3>2. J[i-1] \in Seq(Line)
      BY <1>7, <2>0 DEF Joins
    <3>3. r[i] \in Seq(Line)
      <4>1. i \in 1..Len(r)
        BY <1>4
      <4>2. QED
        BY <1>4, <4>1
    <3>4. <<line>> \in Seq(Line)
      BY <1>6
    <3>5. (<<line>> \o J[i-1]) \o r[i] = <<line>> \o (J[i-1] \o r[i])
      BY <3>2, <3>3, <3>4, LinesRegroup, Zenon
    <3>6. QED
      BY <3>1, <3>5
  <2>9. Upto(q, n, i-1) \cup Beyond(a(i)) = Upto(q, n, i)
    <3>1. \A x : x \in 1..i <=> x \in 1..i-1 \/ x = i
      BY <2>0
    <3>2. QED
      BY <3>1 DEF Upto
  <2>10. 1 \in 1..Len(f \o g) /\ (f \o g)[1] = q
    <3>1. f \in Seq(Seq(Token)) /\ g \in Seq(Seq(Token))
      BY <2>1, <2>5 DEF Shows
    <3>2. QED
      BY <2>1, <3>1, Concat
  <2>11. QED
    BY <2>0, <2>7, <2>8, <2>9, <2>10
<1>10. \A i \in 0..m : i \in Shown
  <2> HIDE DEF Shown
  <2>1. QED
    BY <1>4, <1>8, <1>9, InductionUpTo
<1>11. m \in Shown
  <2>1. m \in 0..m
    BY <1>4
  <2> HIDE DEF Shown
  <2>2. QED
    BY <1>10, <2>1
<1>12. PICK f : /\ Shows(<<line>> \o J[m], f, Len(q), Upto(q, n, m))
                /\ 1 \in 1..Len(f) /\ f[1] = q
  BY <1>11
<1>13. Upto(q, n, m) = Beyond(q)
  BY BeyondParts
<1> DEFINE L == F[left][n]
<1>14. L = <<line>> \o J[m]
  BY <1>5, <1>7
<1>15. L[1] = line
  <2>1. J[m] \in Seq(Line)
    <3>1. m \in 0..m
      BY <1>4
    <3>2. QED
      BY <1>7, <3>1 DEF Joins
  <2>2. <<line>> \in Seq(Line) /\ Len(<<line>>) = 1 /\ <<line>>[1] = line
    BY <1>6
  <2> HIDE DEF L
  <2>3. QED
    BY <1>14, <2>1, <2>2, Concat
<1> HIDE DEF L
<1>16. Shows(L, f, Len(q), Beyond(q))
  BY <1>12, <1>13, <1>14
<1>17. 1 \in 1..Len(L)
  BY <1>12, <1>16 DEF Shows
<1>18. IsBlock(L, f, q)
  BY <1>6, <1>12, <1>15, <1>16, <1>17 DEF IsBlock
<1>19. QED
  BY <1>18 DEF L

LEMMA PrintIsBlock ==
  ASSUME IInv, Open
  PROVE  \E f : IsBlock(PrintedLines(tree.root), f, Root)
<1>1. IsRooted(node, tree.root) /\ IsHeap(node)
  BY OpenFacts DEF IsRooted
<1>2. PICK F : IsLines(F) /\ PrintedLines(tree.root) = F[Most][tree.root]
  BY <1>1, LinesUnfold
<1>3. Most \in Nat
  BY HeapIsFinite DEF Most
<1> DEFINE Shown == {left \in 0..Most :
                   \A q \in Seq(Token) : At(q) # NULL /\ Len(q) = Most - left =>
                     \E f : IsBlock(F[left][At(q)], f, q)}
<1>4. 0 \in Shown
  <2>1. ASSUME NEW q \in Seq(Token), At(q) # NULL, Len(q) = Most - 0 PROVE FALSE
    <3>1. Len(q) < Most
      BY <1>1, <2>1, PathIsShort
    <3>2. QED
      BY <1>3, <2>1, <3>1
  <2>2. 0 \in 0..Most
    BY <1>3
  <2>3. QED
    BY <2>1, <2>2
<1>5. ASSUME NEW left \in 1..Most, left - 1 \in Shown PROVE left \in Shown
  <2>1. ASSUME NEW q \in Seq(Token), At(q) # NULL, Len(q) = Most - left
        PROVE  \E f : IsBlock(F[left][At(q)], f, q)
    <3>1. ASSUME NEW t \in Token, At(Longer(q, t)) # NULL
          PROVE  \E g : IsBlock(F[left-1][At(Longer(q, t))], g, Longer(q, t))
      <4> DEFINE a == Longer(q, t)
      <4>1. a \in Seq(Token) /\ Len(a) = Len(q) + 1 /\ Len(q) \in Nat
        BY LongerPath
      <4> HIDE DEF a
      <4>2. Len(a) = Most - (left - 1)
        BY <1>3, <2>1, <4>1
      <4>3. QED
        BY <1>5, <3>1, <4>1, <4>2 DEF a
    <3> HIDE DEF Shown
    <3>2. QED
      BY <1>1, <1>2, <2>1, <3>1, BlockStep
  <2>2. left \in 0..Most
    BY <1>3
  <2>3. QED
    BY <2>1, <2>2
<1>6. \A left \in 0..Most : left \in Shown
  <2> HIDE DEF Shown
  <2>1. QED
    BY <1>3, <1>4, <1>5, InductionUpTo
<1>7. Most \in Shown
  <2>1. Most \in 0..Most
    BY <1>3
  <2> HIDE DEF Shown
  <2>2. QED
    BY <1>6, <2>1
<1>8. At(Root) = tree.root /\ tree.root # NULL /\ Root \in Seq(Token) /\ Len(Root) = 0
  <2>1. tree.root \in DOMAIN node /\ NULL \notin DOMAIN node
    BY <1>1, ChildFacts DEF IsRooted
  <2>2. QED
    BY <2>1, PathFacts, NodeAtRoot DEF At
<1>9. Len(Root) = Most - Most
  BY <1>3, <1>8
<1>10. QED
  BY <1>2, <1>7, <1>8, <1>9

(* What a reader makes of a line is the path it shows.                     *)
LEMMA ReadIsShown ==
  ASSUME NEW L, NEW f, NEW S, Shows(L, f, 0, S), NEW j \in 1..Len(L)
  PROVE  ReadPath(L, j) = f[j]
<1>1. f[j] \in Seq(Token) /\ Len(L) \in Nat
  BY DEF Shows
<1> DEFINE p == f[j]
<1>2. L[j].level = Len(p)
  BY DEF Shows
<1>3. ASSUME NEW l \in 1..Len(p)
      PROVE  L[Max({i \in 1..j : L[i].level = l})].key = p[l]
  <2> DEFINE I == {i \in 1..j : L[i].level = l}
  <2>1. PICK i \in 1..j : Closest(L, i, j, l, p[l])
    <3>1. l \in 0+1..Len(f[j])
      BY <1>1
    <3>2. QED
      BY <3>1 DEF Shows
  <2>2. i \in I /\ L[i].key = p[l]
    BY <2>1 DEF Closest
  <2>3. \A x \in I : x <= i
    <3>1. ASSUME NEW x \in 1..j, ~(x <= i) PROVE x \in i+1..j
      BY <3>1
    <3>2. QED
      BY <2>1, <3>1 DEF Closest
  <2>4. \A x \in I : (\A y \in I : x >= y) => x = i
    <3>1. \A x \in I : x \in Nat /\ i \in Nat
      BY <1>1
    <3> HIDE DEF I
    <3>2. QED
      BY <2>2, <2>3, <3>1
  <2>5. Max(I) = i
    <3>1. \A y \in I : i >= y
      BY <2>3
    <3> HIDE DEF I
    <3>2. QED
      BY <2>2, <2>4, <3>1 DEF Max
  <2>6. QED
    BY <2>2, <2>5
<1>4. p = [l \in 1..Len(p) |-> p[l]]
  BY <1>1
<1> HIDE DEF p
<1>5. ReadPath(L, j) = [l \in 1..Len(p) |-> p[l]]
  BY <1>2, <1>3 DEF ReadPath
<1>6. QED
  BY <1>4, <1>5 DEF p

LEMMA InvImpliesPrint == IInv => PrintShowsPaths
<1> SUFFICES ASSUME IInv, Open
             PROVE  LET lines == PrintedLines(tree.root)
                    IN  /\ Len(lines) = tree.length
                        /\ {ReadPath(lines, j) : j \in 2..Len(lines)} =
                             {p \in Paths : At(p) # NULL}
  BY DEF PrintShowsPaths
<1> DEFINE L == PrintedLines(tree.root)
           full == {p \in Paths : At(p) # NULL}
<1>1. PICK f : IsBlock(L, f, Root)
  BY PrintIsBlock
<1> HIDE DEF L
<1>2. Shows(L, f, 0, Beyond(Root)) /\ f[1] = Root /\ 1 \in 1..Len(L)
  BY <1>1, PathFacts DEF IsBlock
<1>3. IsRooted(node, tree.root) /\ IsPathed(node, tree.root)
      /\ tree.length = Cardinality(Below(tree.root)) /\ tree.length \in Nat
      /\ At(Root) = tree.root /\ tree.root # NULL
  <2>1. IsRooted(node, tree.root) /\ IsPathed(node, tree.root)
        /\ tree.length = Cardinality(Below(tree.root)) /\ tree.length \in Nat
    BY OpenFacts DEF IsTreeRecord, Below
  <2>2. tree.root \in DOMAIN node /\ NULL \notin DOMAIN node
    BY <2>1, ChildFacts DEF IsRooted
  <2>3. QED
    BY <2>1, <2>2, NodeAtRoot DEF At
<1>4. Beyond(Root) = {Root} \cup full /\ Root \notin full
  <2>1. ASSUME NEW p \in Seq(Token) PROVE IsPrefix(Root, p)
    <3>1. Len(Root) = 0 /\ Root \in Seq(Token) /\ Len(p) \in Nat
      BY PathFacts
    <3>2. Len(Root) <= Len(p) /\ \A i \in 1..Len(Root) : Root[i] = p[i]
      BY <3>1
    <3>3. QED
      BY <3>1, <3>2, PrefixFacts
  <2>2. ASSUME NEW p \in Beyond(Root), p # Root PROVE p \in full
    <3>1. p \in Seq(Token) /\ At(p) # NULL
      BY DEF Beyond
    <3>2. At(p) \in Reached(node, tree.root) /\ At(p) # tree.root
      <4>1. /\ At(p) \in Reached(node, tree.root)
            /\ node[At(p)].buffer # NULL
        BY <1>3, <2>2, <3>1, NodeAtRange DEF At
      <4>2. node[tree.root].buffer = NULL
        BY <1>3 DEF IsRooted
      <4>3. QED
        BY <4>1, <4>2
    <3>3. PICK x \in Paths : At(x) = At(p)
      BY <1>3, <3>2 DEF IsPathed, At
    <3>4. x \in Seq(Token)
      BY PathsFacts
    <3>5. x = p
      BY <1>3, <3>1, <3>3, <3>4, NodeAtInjective DEF At
    <3>6. QED
      BY <3>1, <3>3, <3>5
  <2>3. ASSUME NEW p \in full PROVE p \in Beyond(Root) /\ p # Root
    BY <2>1, PathsFacts DEF Beyond
  <2>4. Root \in Beyond(Root)
    BY <1>3, <2>1, PathFacts DEF Beyond
  <2>5. QED
    BY <2>2, <2>3, <2>4
<1>5. /\ Len(L) \in Nat /\ f \in Seq(Seq(Token))
      /\ \A j \in 1..Len(L) : f[j] \in {Root} \cup full
      /\ \A i, j \in 1..Len(L) : f[i] = f[j] => i = j
      /\ \A p \in {Root} \cup full : \E j \in 1..Len(L) : f[j] = p
  BY <1>2, <1>4 DEF Shows
<1> HIDE DEF full
<1>6. Len(L) = tree.length
  <2> DEFINE e == [j \in 1..Len(L) |-> f[j]]
  <2>1. e \in Bijection(1..Len(L), {Root} \cup full)
    BY <1>5 DEF Bijection, Injection, Surjection, IsInjective
  <2>2. IsFiniteSet(1..Len(L)) /\ Cardinality(1..Len(L)) = Len(L)
    <3>1. /\ IsFiniteSet(1..Len(L))
          /\ Cardinality(1..Len(L)) = IF 1 > Len(L) THEN 0 ELSE Len(L) - 1 + 1
      <4>1. 1 \in Int /\ Len(L) \in Int
        BY <1>5
      <4>2. QED
        BY <4>1, FS_Interval, Zenon
    <3>2. QED
      BY <1>5, <3>1
  <2>3. ExistsBijection(1..Len(L), {Root} \cup full)
    BY <2>1 DEF ExistsBijection
  <2>4. IsFiniteSet({Root} \cup full) /\ Cardinality({Root} \cup full) = Len(L)
    BY <2>2, <2>3, FS_Bijection
  <2>5. IsFiniteSet(full)
    BY <2>4, FS_Subset
  <2>6. Cardinality(full \cup {Root}) = Cardinality(full) + 1 /\ Cardinality(full) \in Nat
    BY <1>4, <2>5, FS_AddElement, FS_CardinalityType
  <2>7. Cardinality(full) = tree.length - 1
    <3>1. Cardinality(Below(tree.root)) - 1 = Cardinality({p \in Paths : MapContent[p] # NULL})
      BY CountPaths
    <3>2. \A p \in Paths : MapContent[p] # NULL <=> At(p) # NULL
      <4>1. ASSUME NEW p \in Paths
            PROVE  ElementAt(node, tree.root, p) # NULL <=> At(p) # NULL
        <5>1. p \in Seq(Token) /\ p # Root
          BY PathsFacts
        <5>2. QED
          BY <1>3, <5>1, ElementFacts DEF At
      <4>2. QED
        BY <4>1, OpenContent
    <3>3. {p \in Paths : MapContent[p] # NULL} = full
      BY <3>2 DEF full
    <3>4. QED
      BY <1>3, <3>1, <3>3
  <2>8. {Root} \cup full = full \cup {Root}
    OBVIOUS
  <2>9. Len(L) = (tree.length - 1) + 1
    BY <2>4, <2>6, <2>7, <2>8
  <2>10. QED
    BY <1>3, <2>9
<1>7. {ReadPath(L, j) : j \in 2..Len(L)} = full
  <2>1. ASSUME NEW j \in 2..Len(L) PROVE ReadPath(L, j) \in full
    <3>1. j \in 1..Len(L) /\ j # 1
      BY <1>5
    <3>2. ReadPath(L, j) = f[j] /\ f[j] # Root
      BY <1>2, <1>5, <3>1, ReadIsShown
    <3>3. QED
      BY <1>5, <3>1, <3>2
  <2>2. ASSUME NEW p \in full PROVE \E j \in 2..Len(L) : ReadPath(L, j) = p
    <3>1. PICK j \in 1..Len(L) : f[j] = p
      BY <1>5
    <3>2. j # 1
      BY <1>2, <1>4, <3>1
    <3>3. j \in 2..Len(L)
      BY <1>5, <3>2
    <3>4. ReadPath(L, j) = p
      BY <1>2, <3>1, ReadIsShown
    <3>5. QED
      BY <3>3, <3>4
  <2>3. QED
    BY <2>1, <2>2
<1>8. QED
  BY <1>6, <1>7 DEF L, full

(* The print of the tree shows its paths, each of them on one line: see    *)
(* PrintShowsPaths.                                                        *)
THEOREM PrintIsRight == Spec => []PrintShowsPaths
<1>1. Init => IInv
  BY InitHolds
<1>2. IInv /\ [Next]_vars => IInv'
  BY StepHolds
<1>3. QED
  BY <1>1, <1>2, InvImpliesPrint, PTL DEF Spec
=============================================================================
