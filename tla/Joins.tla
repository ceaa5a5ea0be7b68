------------------------------- MODULE Joins -------------------------------
(***************************************************************************)
(* query_processor/executor/join_algorithms.cpp: the three joins as        *)
(* functions of the two tables.  A row is [id, value]; the value tells the *)
(* rows of a table apart.  mergeJoin sorts the tables it is given in place,*)
(* rows with one id in any order.                                          *)
(***************************************************************************)
EXTENDS Integers, Sequences
LOCAL INSTANCE SequencesExt

CONSTANTS RowId,
          MaxRows       \* bound: rows of a table

VARIABLES leftTable, rightTable

jnVars == <<leftTable, rightTable>>

JnInit == leftTable = <<>> /\ rightTable = <<>>

-----------------------------------------------------------------------------
Joined(l, r) == [id |-> l.id, leftValue |-> l.value, rightValue |-> r.value]

\* For each left row the right rows with its id.
nestedLoopJoin(left, right) ==
  FlattenSeq([i \in DOMAIN left |->
    LET matching == SelectSeq(right, LAMBDA r : r.id = left[i].id)
    IN  [j \in DOMAIN matching |-> Joined(left[i], matching[j])]])

\* The hash table keeps the last right row of an id.
hashTable(right) ==
  [d \in {right[j].id : j \in DOMAIN right} |->
     right[CHOOSE j \in DOMAIN right : /\ right[j].id = d
                                       /\ \A m \in DOMAIN right : right[m].id = d => m <= j]]
hashJoin(left, right) ==
  LET table == hashTable(right)
      found == SelectSeq(left, LAMBDA l : l.id \in DOMAIN table)
  IN  [i \in DOMAIN found |-> Joined(found[i], table[found[i].id])]

AdvanceBoth(left, right) == <<Tail(left), Tail(right)>>
\* What is left of the tables when the loop goes on: on equal ids both advance.
Advance(left, right) ==
  <<IF left[1].id <= right[1].id THEN Tail(left) ELSE left,
    IF left[1].id >= right[1].id THEN Tail(right) ELSE right>>
RECURSIVE Merge(_, _)
Merge(left, right) ==
  IF left = <<>> \/ right = <<>> THEN <<>>
  ELSE LET next == Advance(left, right)
           out == IF left[1].id = right[1].id THEN <<Joined(left[1], right[1])>> ELSE <<>>
       IN  out \o Merge(next[1], next[2])

SortedById(s) == \A i \in 1 .. Len(s) - 1 : s[i].id <= s[i + 1].id

\* std::sort: the rows of s in an order by id, any one.
Permuted(s) ==
  {[i \in DOMAIN s |-> s[p[i]]] :
     p \in {q \in [DOMAIN s -> DOMAIN s] : \A i, j \in DOMAIN s : q[i] = q[j] => i = j}}
Sorted(s) == {t \in Permuted(s) : SortedById(t)}

-----------------------------------------------------------------------------
\* The tables grow by a row ...
AddRow ==
  \E d \in RowId :
    \/ /\ Len(leftTable) < MaxRows
       /\ leftTable' = Append(leftTable, [id |-> d, value |-> Len(leftTable)])
       /\ UNCHANGED rightTable
    \/ /\ Len(rightTable) < MaxRows
       /\ rightTable' = Append(rightTable, [id |-> d, value |-> Len(rightTable)])
       /\ UNCHANGED leftTable

\* ... and mergeJoin leaves them sorted.
mergeJoin ==
  /\ leftTable' \in Sorted(leftTable)
  /\ rightTable' \in Sorted(rightTable)

JnNext == AddRow \/ mergeJoin

-----------------------------------------------------------------------------
UniqueIds(s) == \A i, j \in DOMAIN s : s[i].id = s[j].id => i = j
Ids(s) == {s[i].id : i \in DOMAIN s}
RowsOf(s) == {s[i] : i \in DOMAIN s}

\* The executor may choose any of the three: hashJoin returns what
\* nestedLoopJoin does when the right ids are unique, mergeJoin when both are; on
\* other tables they lose rows, but none invents one and none misses an id.
JoinsAgree ==
  LET nested == nestedLoopJoin(leftTable, rightTable)
      hash == hashJoin(leftTable, rightTable)
      merge == Merge(leftTable, rightTable)
  IN  /\ UniqueIds(rightTable) => hash = nested
      /\ RowsOf(hash) \subseteq RowsOf(nested) /\ Ids(hash) = Ids(nested)
      /\ SortedById(leftTable) /\ SortedById(rightTable) =>
           /\ UniqueIds(leftTable) /\ UniqueIds(rightTable) => merge = nested
           /\ RowsOf(merge) \subseteq RowsOf(nested) /\ Ids(merge) = Ids(nested)
=============================================================================
