-------------------------------- MODULE Tree --------------------------------
(***************************************************************************)
(* tree.c: the heap of its nodes, one tree_t and the client that calls     *)
(* tree.h on it.  tree_delete(b, k, s) expands to _tree_clear(b) and       *)
(* tree_clear(b) to _tree_delete(b, NULL, NULL); the client also calls     *)
(* _tree_delete by its name, with a key.  Every allocation may fail.       *)
(* strtok_r cuts the client's key after its first token: a client that     *)
(* passes the same string again makes a call with that token only.  Keys   *)
(* do not begin with a separator.                                          *)
(***************************************************************************)
EXTENDS Integers, SequencesExt

CONSTANTS
  Token,      (* what lies between the separators of a key                 *)
  Path,       (* the keys the client passes, cut ones among them           *)
  Address,    (* of nodes, numbers: the heap                               *)
  Data, Zero, (* the client's elements, CC_CALLOC's zero bytes             *)
  RootKey,    (* "(root)"                                                  *)
  NULL

ASSUME PathAssumption ==
  /\ Path \subseteq Seq(Token)
  /\ \A key \in Path \ {<< >>} : <<Head(key)>> \in Path

ASSUME HeapAssumption == Address \subseteq Nat /\ IsFiniteSet(Address)

ASSUME NullAssumption ==
  /\ NULL \notin Address \cup Data \cup {Zero}
  /\ NULL \notin [length : Nat, root : Address \cup {NULL}]

VARIABLES
  tree,  (* *tree, or NULL when there is none                              *)
  node,  (* the allocated nodes, by their address                          *)
  out    (* the element the last returned pointer leads to, or the depth   *)

vars == <<tree, node, out>>

NewNode(k, d) == [key |-> k, buffer |-> d, children |-> << >>]

Free == Address \ DOMAIN node

Open == tree # NULL /\ tree.length # 0

-----------------------------------------------------------------------------
(* A heap with one more node, and one with fewer.                          *)
With(nodes, n, new) ==
  [m \in DOMAIN nodes \cup {n} |-> IF m = n THEN new ELSE nodes[m]]

Without(nodes, freed) == [m \in DOMAIN nodes \ freed |-> nodes[m]]

(* The child of n with key t, or NULL.                                     *)
Child(nodes, n, t) ==
  LET named == {c \in ToSet(nodes[n].children) \cap DOMAIN nodes : nodes[c].key = t}
  IN  IF named = {} THEN NULL ELSE CHOOSE c \in named : TRUE

(* _tree_find_node that creates no nodes: where path leads from root.      *)
NodeAt(nodes, root, path) ==
  LET Walk[i \in 0..Len(path)] ==
        IF i = 0 THEN root
        ELSE IF Walk[i-1] = NULL THEN NULL ELSE Child(nodes, Walk[i-1], path[i])
  IN  Walk[Len(path)]

At(path) == NodeAt(node, tree.root, path)

(* The element at the end of path, NULL without one; a root has none.      *)
Element(path) == IF At(path) = NULL THEN NULL ELSE node[At(path)].buffer

(* Slip: a node on the way gets no buffer.                                 *)
LinkedBare(nodes, n, new, t) ==
  With([nodes EXCEPT ![n].children = Append(@, new)], new, NewNode(t, NULL))

(* A new last child of n.                                                  *)
Linked(nodes, n, new, t) ==
  With([nodes EXCEPT ![n].children = Append(@, new)], new, NewNode(t, Zero))

(* Slips: a new node is counted in the length before the walk; the walk    *)
(* stays where it has no memory for the next node.                         *)
CreatedUncounted(s, t, n) ==
  [node |-> Linked(s.node, s.at, n, t), length |-> tree.length + 1, at |-> n]

(* The walk s went on to the new node n.                                   *)
Created(s, t, n) ==
  [node |-> Linked(s.node, s.at, n, t), length |-> s.length + 1, at |-> n]

EnterOrStay(s, t) ==
  LET free == Address \ DOMAIN s.node
  IN  IF Child(s.node, s.at, t) # NULL
      THEN {[s EXCEPT !.at = Child(s.node, s.at, t)]}
      ELSE {s} \cup {Created(s, t, n) : n \in {a \in free : a = Min(free)}}

(* _tree_find_node that creates nodes, by one token: the outcomes after s. *)
(* It ends where it has no memory for the next node.                       *)
Enter(s, t) ==
  LET free == Address \ DOMAIN s.node
  IN  IF s.at = NULL THEN {s}
      ELSE IF Child(s.node, s.at, t) # NULL
      THEN {[s EXCEPT !.at = Child(s.node, s.at, t)]}
      ELSE {[s EXCEPT !.at = NULL]} \cup
             {Created(s, t, n) : n \in {a \in free : a = Min(free)}}

(* The ways it may end.                                                    *)
Walks(path) ==
  LET Steps[i \in 0..Len(path)] ==
        IF i = 0 THEN {[node |-> node, length |-> tree.length, at |-> tree.root]}
        ELSE UNION {Enter(s, path[i]) : s \in Steps[i-1]}
  IN  Steps[Len(path)]

Closed(nodes, S) ==
  \A m \in S : ToSet(nodes[m].children) \cap DOMAIN nodes \subseteq S

(* The nodes a search from n reaches.                                      *)
Reached(nodes, n) ==
  {m \in DOMAIN nodes :
     \A S \in SUBSET DOMAIN nodes : n \in S /\ Closed(nodes, S) => m \in S}

Below(n) == Reached(node, n)

-----------------------------------------------------------------------------
Init == tree = NULL /\ node = [a \in {} |-> NULL] /\ out = NULL

(* tree_create.                                                            *)
Create ==
  /\ tree = NULL
  /\ \/ /\ Free # {}
        /\ node' = With(node, Min(Free), NewNode(RootKey, NULL))
        /\ tree' = [length |-> 1, root |-> Min(Free)]
     \/ UNCHANGED <<tree, node>>
  /\ UNCHANGED out

(* _tree_insert.  A key without a token would have it write through the    *)
(* NULL buffer of the root: the client never inserts with one.             *)
Insert(key, d) ==
  /\ Open /\ key # << >>
  /\ \E s \in Walks(key) :
       /\ tree' = [tree EXCEPT !.length = s.length]
       /\ node' = IF s.at = NULL THEN s.node
                  ELSE [s.node EXCEPT ![s.at].buffer = d]
       /\ out' = IF s.at = NULL THEN NULL ELSE d

(* _tree_find.                                                             *)
Find(key) ==
  /\ Open
  /\ out' = Element(key)
  /\ UNCHANGED <<tree, node>>

(* What strtok_r leaves of a key, and the separators in a key.             *)
Cut(key) == IF key = << >> THEN key ELSE <<Head(key)>>

Separators(key) == IF key = << >> THEN 0 ELSE Len(key) - 1

(* _tree_depth with a key counts the separators in it after the walk has   *)
(* cut it: there are none, and it returns -1 as if the node were not there. *)
Depth(key) ==
  /\ Open
  /\ out' = IF At(key) = NULL THEN -1 ELSE Separators(Cut(key)) - 1
  /\ UNCHANGED <<tree, node>>

(* Without a key it counts the nodes it visits, if it gets its queue.      *)
MaxDepth ==
  /\ Open
  /\ out' \in {Cardinality(Below(tree.root)) - 1, -1}
  /\ UNCHANGED <<tree, node>>

-----------------------------------------------------------------------------
(* The children without n, those behind it one position down.              *)
Unlinked(children, n) ==
  LET at == {i \in DOMAIN children : children[i] = n}
  IN  IF at = {} THEN children ELSE RemoveAt(children, Min(at))

(* Slips: the parent keeps its pointer; the descendants stay.              *)
PruneLinked(n) ==
  /\ tree' = [tree EXCEPT !.length = @ - Cardinality(Below(n))]
  /\ node' = Without(node, Below(n))

PruneNode(n) ==
  /\ tree' = [tree EXCEPT !.length = IF n = tree.root THEN 0 ELSE @ - 1]
  /\ node' = [m \in DOMAIN node \ {n} |->
                [node[m] EXCEPT !.children = Unlinked(@, n)]]

(* The end of _tree_delete: frees what it has collected and takes node n   *)
(* from its parent, if it has one.                                         *)
Prune(n) ==
  /\ tree' = [tree EXCEPT !.length = @ - Cardinality(Below(n))]
  /\ node' = [m \in DOMAIN node \ Below(n) |->
                [node[m] EXCEPT !.children = Unlinked(@, n)]]

(* _tree_delete with a key.  Without memory for its search it does nothing. *)
Delete(key) ==
  /\ Open
  /\ \/ At(key) # NULL /\ Prune(At(key))
     \/ UNCHANGED <<tree, node>>
  /\ UNCHANGED out

(* _tree_delete without a key: the root is freed and the length is 0.      *)
DeleteAll == Open /\ Prune(tree.root) /\ UNCHANGED out

(* The new root of _tree_clear.  It has no key.                            *)
Replant(n, nodes) ==
  /\ tree' = [length |-> 1, root |-> n]
  /\ node' = With(nodes, n, NewNode(NULL, NULL))

(* _tree_clear.  It does not notice that _tree_delete had no memory, and   *)
(* the nodes are lost.  If there is none for the root either, it frees a   *)
(* tree that still has its length: the client's pointer dangles, and this  *)
(* client is one that knows.                                               *)
Clear ==
  /\ Open
  /\ \/ \E n \in Address \ (DOMAIN node \ Below(tree.root)) :
          /\ n = Min(Address \ (DOMAIN node \ Below(tree.root)))
          /\ Replant(n, Without(node, Below(tree.root)))
     \/ /\ tree' = [length |-> 0, root |-> NULL]
        /\ node' = Without(node, Below(tree.root))
     \/ Free # {} /\ Replant(Min(Free), node)
     \/ tree' = NULL /\ UNCHANGED node
  /\ UNCHANGED out

(* The macro tree_delete drops its key.                                    *)
TreeDelete(key) == Clear

(* _tree_destroy: the nodes are lost if there is no memory for the search. *)
Destroy ==
  /\ Open
  /\ tree' = NULL
  /\ node' \in {Without(node, Below(tree.root)), node}
  /\ UNCHANGED out

(* Once the length is 0, all calls return at once; destroy frees nothing.  *)
Refuse ==
  /\ tree # NULL /\ tree.length = 0
  /\ out' \in {out, NULL, -1}
  /\ UNCHANGED <<tree, node>>

Next ==
  \/ Create \/ Destroy
  \/ \E key \in Path :
       \/ \E d \in Data : Insert(key, d)
       \/ Find(key)
       \/ Delete(key)
       \/ Depth(key)
       \/ TreeDelete(key)
  \/ MaxDepth \/ DeleteAll \/ Clear \/ Refuse

Spec == Init /\ [][Next]_vars

-----------------------------------------------------------------------------
Lost == DOMAIN node \ IF Open THEN Below(tree.root) ELSE {}

(* The fields stay within their ranges; only a root has no buffer.         *)
TypeOK ==
  /\ tree \in [length : 0..Cardinality(Address), root : Address \cup {NULL}] \cup {NULL}
  /\ DOMAIN node \subseteq Address
  /\ \A n \in DOMAIN node :
       \/ node[n].key \in Token /\ node[n].buffer \in Data \cup {Zero}
       \/ node[n].key \in {RootKey, NULL} /\ node[n].buffer = NULL
  /\ out \in Data \cup {Zero, NULL} \cup Int

(* The length is the number of nodes in the tree, also after an insert that *)
(* failed on its way and a delete of a subtree.  _tree_delete and          *)
(* _tree_depth allocate their worklists with it and store without a test.  *)
LengthCountsNodes == Open => tree.length = Cardinality(Below(tree.root))

(* The nodes in the tree have one parent each, none is freed memory, and   *)
(* siblings have different keys: a path leads to one node at most.         *)
IsTree ==
  Open =>
    LET reached == Below(tree.root)
        Parents(n) == {m \in reached : n \in ToSet(node[m].children)}
    IN  /\ tree.root \in reached /\ Parents(tree.root) = {}
        /\ \A n \in reached :
             /\ ToSet(node[n].children) \subseteq DOMAIN node
             /\ IsInjective([i \in DOMAIN node[n].children |->
                               node[node[n].children[i]].key])
             /\ n # tree.root => Cardinality(Parents(n)) = 1

(* Memory is lost only as a whole tree, by a clear or a destroy: no insert *)
(* that fails halfway and no delete of a subtree drops a node.             *)
NothingLostPiecemeal == [][Lost' \in {Lost, DOMAIN node}]_vars

(* The tree is a map from paths to elements, as far as tree.h and tree.c   *)
(* agree on one: see PathMap.                                              *)
Paths == (UNION {Prefixes(p) : p \in Path}) \ {<< >>}

MapState == IF tree = NULL THEN "none" ELSE IF Open THEN "open" ELSE "dead"

MapContent == [p \in Paths |-> IF Open THEN Element(p) ELSE NULL]

P == INSTANCE PathMap WITH state <- MapState, content <- MapContent

IsPathMap == P!Spec

-----------------------------------------------------------------------------
(* _tree_print as a sequence of lines: the level that the indentation      *)
(* shows, and the key.  Slip: the children of all nodes on one level.      *)
LinesFlat(root) ==
  LET Lines[n \in DOMAIN node] ==
        <<[level |-> 0, key |-> node[n].key]>>
          \o FlattenSeq([i \in DOMAIN node[n].children |->
                           Lines[node[n].children[i]]])
  IN  Lines[root]

(* There is no level beyond the number of nodes: left counts down to it.   *)
(* The print gets the memory it asks for.  Without any, _tree_print returns *)
(* NULL for its node, and the call for the parent reads through it.        *)
PrintedLines(root) ==
  LET most == Cardinality(Address)
      Lines[left \in 0..most] ==
        [n \in DOMAIN node |->
           IF left = 0 THEN << >>
           ELSE <<[level |-> most - left, key |-> node[n].key]>>
                  \o FlattenSeq([i \in DOMAIN node[n].children |->
                                   Lines[left-1][node[n].children[i]]])]
  IN  Lines[most][root]

(* The path a reader takes a line for: the closest lines above it, one of  *)
(* each level.                                                             *)
ReadPath(lines, j) ==
  [l \in 1..lines[j].level |->
     lines[Max({i \in 1..j : lines[i].level = l})].key]

(* The print of a tree shows its paths, each of them once.  (After a clear *)
(* the root has no key, and _tree_print reads through NULL.)               *)
PrintShowsPaths ==
  Open /\ node[tree.root].key = RootKey =>
    LET lines == PrintedLines(tree.root)
    IN  /\ Len(lines) = tree.length
        /\ {ReadPath(lines, j) : j \in 2..Len(lines)} = {p \in Paths : At(p) # NULL}
=============================================================================
