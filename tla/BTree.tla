------------------------------- MODULE BTree -------------------------------
(***************************************************************************)
(* The B-trees of indexing/b_tree: b_tree_index.cpp, which inserts and     *)
(* searches, and node.cpp, which has the same insertion and also removes.  *)
(* A node is the sequence of its keys and that of its children, a leaf has *)
(* none; slots of the arrays past the end are left out.  Positions count   *)
(* from 1.  node.cpp leaves the root to a class BTree it does not have:    *)
(* insert is the one of b_tree_index.cpp and ShrinkRoot stands for it.     *)
(***************************************************************************)
EXTENDS Integers, Sequences, FiniteSets
LOCAL INSTANCE SequencesExt

CONSTANTS MIN_DEGREE,
          BtKey,        \* keys inserted through node.cpp, once each, and removed
          IndexKey,     \* keys inserted through b_tree_index.cpp, again and again
          MaxKeys,      \* bound: keys in the tree
          Beyond        \* bound: go on with a tree that has lost its order

VARIABLES btRoot,
          btRemoves     \* the tree is used through node.cpp

btVars == <<btRoot, btRemoves>>

Leaf(keys) == [keys |-> keys, children |-> <<>>]
IsLeaf(x) == x.children = <<>>
n(x) == Len(x.keys)
IsFull(x) == n(x) = 2 * MIN_DEGREE - 1

BtInit == btRoot = Leaf(<<>>) /\ btRemoves \in BOOLEAN

-----------------------------------------------------------------------------
\* The upper half of y becomes a new child behind it, its middle key goes up.
splitChild(x, i) ==
  LET y == x.children[i]
      Part(lo, hi) == [keys |-> SubSeq(y.keys, lo, hi - 1),
                       children |-> IF IsLeaf(y) THEN <<>> ELSE SubSeq(y.children, lo, hi)]
  IN  [keys |-> InsertAt(x.keys, i, y.keys[MIN_DEGREE]),
       children |-> InsertAt(ReplaceAt(x.children, i, Part(1, MIN_DEGREE)), i + 1,
                             Part(MIN_DEGREE + 1, 2 * MIN_DEGREE))]

\* The scan from the back: behind the last key that is not larger than k.
ScanBack(x, k) ==
  CHOOSE i \in 1 .. n(x) + 1 : /\ i = 1 \/ x.keys[i - 1] <= k
                               /\ \A j \in i .. n(x) : x.keys[j] > k

RECURSIVE insertNonFull(_, _)
insertNonFull(x, k) ==
  LET i == ScanBack(x, k)
      s == splitChild(x, i)
      j == IF s.keys[i] < k THEN i + 1 ELSE i
  IN  IF IsLeaf(x) THEN Leaf(InsertAt(x.keys, i, k))
      ELSE IF IsFull(x.children[i]) THEN [s EXCEPT !.children[j] = insertNonFull(@, k)]
      ELSE [x EXCEPT !.children[i] = insertNonFull(@, k)]

NeverGrow(x) == x
\* A full root gets a new root above it.
GrowRoot(x) == IF IsFull(x) THEN splitChild([keys |-> <<>>, children |-> <<x>>], 1) ELSE x
\* Below a new root a key goes to the left half unless it is larger than the key
\* between the halves, so that one equal to it goes left.
insert(k) ==
  LET s == GrowRoot(btRoot)
      i == IF s.keys[1] < k THEN 2 ELSE 1
  IN  IF s = btRoot THEN insertNonFull(btRoot, k)
      ELSE [s EXCEPT !.children[i] = insertNonFull(@, k)]

\* The scan from the front, and the search along it.
findKey(x, k) ==
  CHOOSE i \in 1 .. n(x) + 1 : /\ i = n(x) + 1 \/ x.keys[i] >= k
                               /\ \A j \in 1 .. i - 1 : x.keys[j] < k
RECURSIVE search(_, _)
search(x, k) ==
  LET i == findKey(x, k)
  IN  \/ i <= n(x) /\ x.keys[i] = k
      \/ ~IsLeaf(x) /\ search(x.children[i], k)

RECURSIVE traverse(_)
traverse(x) ==
  IF IsLeaf(x) THEN x.keys
  ELSE FlattenSeq([i \in 1 .. n(x) |-> Append(traverse(x.children[i]), x.keys[i])])
         \o traverse(x.children[n(x) + 1])

-----------------------------------------------------------------------------
\* Child i takes a key through the parent from the child before it ...
borrowFromPrev(x, i) ==
  LET child == x.children[i]
      sibling == x.children[i - 1]
      m == n(sibling)
  IN  [keys |-> ReplaceAt(x.keys, i - 1, sibling.keys[m]),
       children |-> [x.children EXCEPT
         ![i] = [keys |-> <<x.keys[i - 1]>> \o child.keys,
                 children |-> IF IsLeaf(child) THEN <<>>
                              ELSE <<sibling.children[m + 1]>> \o child.children],
         ![i - 1] = [keys |-> SubSeq(sibling.keys, 1, m - 1),
                     children |-> IF IsLeaf(sibling) THEN <<>> ELSE SubSeq(sibling.children, 1, m)]]]

\* ... or from the one behind it.
borrowFromNext(x, i) ==
  LET child == x.children[i]
      sibling == x.children[i + 1]
  IN  [keys |-> ReplaceAt(x.keys, i, sibling.keys[1]),
       children |-> [x.children EXCEPT
         ![i] = [keys |-> Append(child.keys, x.keys[i]),
                 children |-> IF IsLeaf(child) THEN <<>>
                              ELSE Append(child.children, sibling.children[1])],
         ![i + 1] = [keys |-> Tail(sibling.keys),
                     children |-> IF IsLeaf(sibling) THEN <<>> ELSE Tail(sibling.children)]]]

LoseParentKey(x, i) ==
  LET child == x.children[i]
      sibling == x.children[i + 1]
  IN  [keys |-> RemoveAt(x.keys, i),
       children |-> RemoveAt(ReplaceAt(x.children, i,
                               [keys |-> child.keys \o sibling.keys,
                                children |-> child.children \o sibling.children]), i + 1)]
\* Child i, key i and child i + 1 become one child.
merge(x, i) ==
  LET child == x.children[i]
      sibling == x.children[i + 1]
  IN  [keys |-> RemoveAt(x.keys, i),
       children |-> RemoveAt(ReplaceAt(x.children, i,
                               [keys |-> Append(child.keys, x.keys[i]) \o sibling.keys,
                                children |-> child.children \o sibling.children]), i + 1)]

Enough(x) == n(x) >= MIN_DEGREE

fill(x, i) ==
  IF i # 1 /\ Enough(x.children[i - 1]) THEN borrowFromPrev(x, i)
  ELSE IF i # n(x) + 1 /\ Enough(x.children[i + 1]) THEN borrowFromNext(x, i)
  ELSE merge(x, IF i # n(x) + 1 THEN i ELSE i - 1)

\* On the way down to the largest key getPred takes the last child but one.
RECURSIVE getPred(_)
getPred(x) == IF IsLeaf(x) THEN x.keys[n(x)] ELSE getPred(x.children[n(x)])
RECURSIVE getSucc(_)
getSucc(x) == IF IsLeaf(x) THEN x.keys[1] ELSE getSucc(x.children[1])

RECURSIVE remove(_, _)
removeFromNonLeaf(x, i) ==
  LET k == x.keys[i]
      pred == getPred(x.children[i])
      succ == getSucc(x.children[i + 1])
  IN  IF Enough(x.children[i])
      THEN [x EXCEPT !.keys[i] = pred, !.children[i] = remove(@, pred)]
      ELSE IF Enough(x.children[i + 1])
      THEN [x EXCEPT !.keys[i] = succ, !.children[i + 1] = remove(@, succ)]
      ELSE LET y == merge(x, i) IN [y EXCEPT !.children[i] = remove(@, k)]

remove(x, k) ==
  LET i == findKey(x, k)
      y == IF Enough(x.children[i]) THEN x ELSE fill(x, i)
      j == IF i = n(x) + 1 /\ i > n(y) + 1 THEN i - 1 ELSE i
  IN  IF i <= n(x) /\ x.keys[i] = k
      THEN IF IsLeaf(x) THEN Leaf(RemoveAt(x.keys, i)) ELSE removeFromNonLeaf(x, i)
      ELSE IF IsLeaf(x) THEN x ELSE [y EXCEPT !.children[j] = remove(@, k)]

ShrinkRoot(x) == IF n(x) = 0 /\ ~IsLeaf(x) THEN x.children[1] ELSE x

-----------------------------------------------------------------------------
Count(x) == Len(traverse(x))
Ordered(x) == LET s == traverse(x) IN \A i \in 1 .. Len(s) - 1 : s[i] <= s[i + 1]

Insert(k) ==
  /\ Count(btRoot) < MaxKeys
  /\ IF btRemoves THEN k \in BtKey \ ToSet(traverse(btRoot)) ELSE k \in IndexKey
  /\ btRoot' = insert(k)

RemoveKey(k) ==
  /\ btRemoves
  /\ btRoot' = ShrinkRoot(remove(btRoot, k))

BtNext ==
  /\ Beyond \/ Ordered(btRoot)
  /\ \/ \E k \in BtKey \cup IndexKey : Insert(k)
     \/ \E k \in BtKey : RemoveKey(k)
  /\ UNCHANGED btRemoves

-----------------------------------------------------------------------------
\* The leaves' depths, and the nodes below the root.
RECURSIVE Depths(_)
Depths(x) == IF IsLeaf(x) THEN {0} ELSE {d + 1 : d \in UNION {Depths(c) : c \in ToSet(x.children)}}
RECURSIVE Below(_)
Below(x) == ToSet(x.children) \cup UNION {Below(c) : c \in ToSet(x.children)}

NoneTwice(x) == Cardinality(ToSet(traverse(x))) = Count(x)
WellShaped(x) ==
  /\ Cardinality(Depths(x)) = 1
  /\ \A y \in Below(x) \cup {x} : IsLeaf(y) \/ Len(y.children) = n(y) + 1
  /\ n(x) < 2 * MIN_DEGREE
  /\ \A y \in Below(x) : n(y) \in MIN_DEGREE - 1 .. 2 * MIN_DEGREE - 1

\* Insertion adds its key and nothing else, keeps the tree ordered, its leaves at
\* one depth and its nodes within their limits, whatever the order of the keys
\* and however often one comes, and search finds exactly the keys in the tree.
InsertIsExact ==
  [][\A k \in BtKey \cup IndexKey : Insert(k) /\ Ordered(btRoot) =>
       /\ Ordered(btRoot') /\ WellShaped(btRoot')
       /\ \A j \in BtKey \cup IndexKey :
            /\ search(btRoot', j) = (j = k \/ j \in ToSet(traverse(btRoot)))
            /\ Len(SelectSeq(traverse(btRoot'), LAMBDA e : e = j))
                 = Len(SelectSeq(traverse(btRoot), LAMBDA e : e = j)) + (IF j = k THEN 1 ELSE 0)
    ]_btVars

\* Removal from an ordered tree without repeated keys takes out its key and
\* nothing else and keeps the shape; with at most two levels it also keeps the
\* order.  With more, getPred may put a key in the place of the removed one that
\* is not its predecessor.
RemoveIsExact ==
  [][\A k \in BtKey :
       RemoveKey(k) /\ Ordered(btRoot) /\ NoneTwice(btRoot) =>
       /\ NoneTwice(btRoot') /\ ToSet(traverse(btRoot')) = ToSet(traverse(btRoot)) \ {k}
       /\ WellShaped(btRoot')
       /\ Depths(btRoot) \subseteq {0, 1} => Ordered(btRoot')]_btVars

\* "Remove the key from the subtree rooted at this node": afterwards the key is
\* not in the tree.
RemoveRemoves ==
  [][\A k \in BtKey : RemoveKey(k) => k \notin ToSet(traverse(btRoot'))]_btVars
=============================================================================
