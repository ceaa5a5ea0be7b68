------------------------- MODULE ConsistentHashing -------------------------
(***************************************************************************)
(* networking/load_balancing/consistent_hashing.cpp: the LoadBalancer with *)
(* its hash ring and its round-robin list.  Nodes are added and removed    *)
(* while no request is under way, as in main.                              *)
(***************************************************************************)
EXTENDS Integers, Sequences, FiniteSets

CONSTANTS ChNode,
          Points,       \* node -> the hashes of its replicas on the ring
          KeyHash,      \* hashes of the keys asked for
          MaxNodes,     \* bound: entries of the round-robin list
          MaxIndex      \* bound: round-robin requests

VARIABLES hashRing,     \* hash -> node of the points on the ring
          chNodes,      \* the vector of the round-robin balancer
          currentIndex

chVars == <<hashRing, chNodes, currentIndex>>

ChInit == hashRing = <<>> /\ chNodes = <<>> /\ currentIndex = 0

-----------------------------------------------------------------------------
\* lower_bound: the first point at or after the hash, or the first one of all.
getNode(h) ==
  LET ahead == {p \in DOMAIN hashRing : p >= h}
      from == IF ahead = {} THEN DOMAIN hashRing ELSE ahead
  IN  hashRing[CHOOSE p \in from : \A q \in from : p <= q]

\* A point that is taken changes hands.
addNode(x) ==
  /\ Len(chNodes) < MaxNodes
  /\ hashRing' = [p \in DOMAIN hashRing \cup Points[x] |-> IF p \in Points[x] THEN x ELSE hashRing[p]]
  /\ chNodes' = Append(chNodes, x)
  /\ UNCHANGED currentIndex

AllButOne(x) == DOMAIN hashRing \ {p \in Points[x] : \E q \in Points[x] : p < q}
LeftPoints(x) == DOMAIN hashRing \ Points[x]
\* All points with a hash of x go, and all entries with its id.
removeNode(x) ==
  /\ hashRing' = [p \in LeftPoints(x) |-> hashRing[p]]
  /\ chNodes' = SelectSeq(chNodes, LAMBDA y : y # x)
  /\ UNCHANGED currentIndex

\* It returns the node at currentIndex % Len(chNodes).
getNextNode ==
  /\ chNodes # <<>> /\ currentIndex < MaxIndex
  /\ currentIndex' = currentIndex + 1
  /\ UNCHANGED <<hashRing, chNodes>>

ChNext ==
  \/ \E x \in ChNode : addNode(x) \/ removeNode(x)
  \/ getNextNode

-----------------------------------------------------------------------------
\* Two nodes that have a point in common.
Collide(x, y) == x # y /\ Points[x] \cap Points[y] # {}

\* Adding a node moves keys to that node only; removing one leaves it no key and
\* moves only those it had, unless their node had a point in common with it.
OnlyItsKeysMove ==
  [][\A h \in KeyHash, x \in ChNode : hashRing # <<>> /\ hashRing' # <<>> =>
       /\ addNode(x) => getNode(h)' \in {getNode(h), x}
       /\ removeNode(x) => /\ getNode(h)' # x
                           /\ \/ getNode(h) \in {getNode(h)', x}
                              \/ Collide(x, getNode(h))]_chVars
=============================================================================
