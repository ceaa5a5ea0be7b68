------------------------ MODULE BufferManagerProofs ------------------------
(***************************************************************************)
(* The buffer pool's safety for any pages, threads and positive capacity:  *)
(* the list and the table agree, and no reported write is dropped without  *)
(* having been given to write_page.                                        *)
(***************************************************************************)
EXTENDS BufferManager, ListProofs

USE BufferManagerAssumption

\* Writes are numbered from 1 up, so that a later one is newer; a pointer is into
\* the pool unless its page was evicted.
VersionInv == \A p \in PageId : data[p] <= writes

HolderInv ==
  /\ \A c \in Client : held[c] # NoPage /\ c \notin detached => held[c] \in page_table
  /\ \A c \in unreported : held[c] # NoPage

DataInv == ReportedIsWritten /\ CleanMeansWritten /\ VersionInv

IInv ==
  /\ TypeOK
  /\ ListMatchesTable
  /\ HolderInv
  /\ DataInv

\* An empty pool, and nothing written.
LEMMA InitInv == Init => IInv
<1> SUFFICES ASSUME Init PROVE IInv
  OBVIOUS
<1>1. TypeOK
  BY DEF Init, TypeOK
<1>2. ListMatchesTable
  BY DEF Init, ListMatchesTable, Elements, Distinct
<1>3. ReportedIsWritten /\ CleanMeansWritten
  BY DEF Init, ReportedIsWritten, CleanMeansWritten
<1>4. VersionInv /\ HolderInv
  BY DEF Init, VersionInv, HolderInv
<1> QED
  BY <1>1, <1>2, <1>3, <1>4 DEF IInv, DataInv

\* A hit only reorders the list.
LEMMA HitStep ==
  ASSUME IInv, NEW c \in Client, NEW p \in PageId, fetch_page(c, p), FetchHit(c, p)
  PROVE  IInv'
<1>1. /\ p \in page_table /\ c \notin unreported
      /\ lru_list' = <<p>> \o Remove(lru_list, p)
      /\ page_table' = page_table /\ dirty' = dirty /\ data' = data /\ written' = written
      /\ detached' = detached \ {c} /\ held' = [held EXCEPT ![c] = p]
      /\ unreported' = unreported /\ writes' = writes /\ reported' = reported
  BY DEF fetch_page, FetchHit, Touch
<1> DEFINE R == Remove(lru_list, p)
<1>2. lru_list \in Seq(PageId) /\ Distinct(lru_list) /\ page_table = Elements(lru_list)
  BY DEF IInv, TypeOK, ListMatchesTable
<1>3. R \in Seq(PageId) /\ Distinct(R) /\ Elements(R) = Elements(lru_list) \ {p}
  BY <1>2, RemoveProperties
<1> HIDE DEF R
<1>4. /\ <<p>> \o R \in Seq(PageId) /\ Distinct(<<p>> \o R)
      /\ Elements(<<p>> \o R) = Elements(R) \cup {p}
  BY <1>3, PushFrontProperties
<1>5. lru_list' \in Seq(PageId) /\ Distinct(lru_list') /\ Elements(lru_list') = page_table
  BY <1>1, <1>2, <1>3, <1>4 DEF R
<1>6. Len(lru_list') = Len(lru_list)
  <2>1. Cardinality(Elements(lru_list)) = Len(lru_list)
    BY <1>2, DistinctLength
  <2>2. Cardinality(Elements(lru_list')) = Len(lru_list')
    BY <1>5, DistinctLength
  <2> QED
    BY <1>2, <1>5, <2>1, <2>2
<1>7. TypeOK'
  BY <1>1, <1>5 DEF IInv, TypeOK
<1>8. ListMatchesTable'
  BY <1>1, <1>5, <1>6 DEF IInv, ListMatchesTable
<1>9. HolderInv'
  BY <1>1 DEF IInv, TypeOK, HolderInv
<1>10. DataInv'
  <2>1. ReportedIsWritten' /\ VersionInv'
    BY <1>1 DEF IInv, DataInv, ReportedIsWritten, VersionInv
  <2>2. CleanMeansWritten'
    BY <1>1 DEF IInv, DataInv, TypeOK, CleanMeansWritten
  <2> QED
    BY <2>1, <2>2 DEF DataInv
<1> QED
  BY <1>7, <1>8, <1>9, <1>10 DEF IInv

\* A miss makes room, writing back what is dirty, and loads the page.
LEMMA MissStep ==
  ASSUME IInv, NEW c \in Client, NEW p \in PageId, fetch_page(c, p), FetchMiss(c, p)
  PROVE  IInv'
<1> DEFINE n == Len(lru_list) - Evictions(Cardinality(page_table))
           gone == {lru_list[i] : i \in n + 1 .. Len(lru_list)}
           P == SubSeq(lru_list, 1, n)
<1>1. /\ p \notin page_table /\ c \notin unreported
      /\ page_table' = (page_table \ gone) \cup {p}
      /\ lru_list' = <<p>> \o P
      /\ written' = [q \in PageId |-> IF q \in gone /\ dirty[q] THEN written[q] \cup {data[q]}
                                      ELSE written[q]]
      /\ dirty' = [q \in PageId |-> q \notin gone \cup {p} /\ dirty[q]]
      /\ data' = [q \in PageId |-> CASE q = p -> 0 [] q \in gone -> 0 [] OTHER -> data[q]]
      /\ detached' = (detached \cup {b \in Client : held[b] \in gone}) \ {c}
      /\ held' = [held EXCEPT ![c] = p]
      /\ unreported' = unreported /\ writes' = writes /\ reported' = reported
  BY DEF fetch_page, FetchMiss, WriteDirty, ReadPage
<1>2. lru_list \in Seq(PageId) /\ Distinct(lru_list) /\ page_table = Elements(lru_list)
  BY DEF IInv, TypeOK, ListMatchesTable
<1>3. Len(lru_list) \in Nat /\ Len(lru_list) <= capacity /\ DOMAIN lru_list = 1 .. Len(lru_list)
  BY <1>2, LenProperties DEF IInv, ListMatchesTable
<1>4. Cardinality(page_table) = Len(lru_list)
  BY <1>2, DistinctLength
<1>5. n \in 0 .. Len(lru_list) /\ n + 1 <= capacity
  BY <1>3, <1>4 DEF Evictions
<1>6. gone \in SUBSET page_table
  BY <1>2, <1>3, <1>5 DEF Elements
<1>7. /\ P \in Seq(PageId) /\ Len(P) = n /\ Distinct(P)
      /\ Elements(P) = Elements(lru_list) \ gone
  <2> HIDE DEF n
  <2> QED
    BY <1>2, <1>5, PrefixProperties
<1> HIDE DEF n, gone, P
<1>8. /\ <<p>> \o P \in Seq(PageId) /\ Len(<<p>> \o P) = Len(P) + 1
      /\ Distinct(<<p>> \o P) /\ Elements(<<p>> \o P) = Elements(P) \cup {p}
  <2>1. p \notin Elements(P)
    BY <1>1, <1>2, <1>7
  <2> QED
    BY <1>7, <2>1, PushFrontProperties
<1>9. ListMatchesTable'
  BY <1>1, <1>2, <1>5, <1>7, <1>8 DEF ListMatchesTable
<1>10. page_table \in SUBSET PageId
  BY DEF IInv, TypeOK
<1>11. /\ data'[p] = 0 /\ ~dirty'[p] /\ p \notin gone
       /\ \A q \in page_table \ gone :
            written'[q] = written[q] /\ data'[q] = data[q] /\ (dirty'[q] <=> dirty[q])
       /\ \A q \in gone : dirty[q] => data[q] \in written'[q]
       /\ \A q \in PageId : written[q] \subseteq written'[q]
       /\ \A q \in PageId : data'[q] = 0 \/ data'[q] = data[q]
  BY <1>1, <1>6, <1>10
<1>12. TypeOK'
  <2>1. written' \in [PageId -> SUBSET Nat]
    BY <1>1 DEF IInv, TypeOK
  <2>2. data' \in [PageId -> Nat]
    BY <1>1 DEF IInv, TypeOK
  <2>3. dirty' \in [PageId -> BOOLEAN]
    BY <1>1
  <2>4. /\ page_table' \subseteq PageId /\ lru_list' \in Seq(PageId)
        /\ held' \in [Client -> PageId \cup {NoPage}] /\ detached' \subseteq Client
    BY <1>1, <1>8, <1>10 DEF IInv, TypeOK
  <2> QED
    BY <1>1, <2>1, <2>2, <2>3, <2>4 DEF IInv, TypeOK
<1>14. HolderInv'
  BY <1>1 DEF IInv, TypeOK, HolderInv
<1>15. DataInv'
  <2> DataInv
    BY DEF IInv
  <2>1. ReportedIsWritten'
    <3> SUFFICES ASSUME NEW q \in PageId
                 PROVE  \/ reported[q] = 0
                        \/ \E v \in written'[q] : v >= reported[q]
                        \/ q \in page_table' /\ dirty'[q] /\ data'[q] >= reported[q]
      BY <1>1 DEF ReportedIsWritten
    <3>1. \/ reported[q] = 0
          \/ \E v \in written[q] : v >= reported[q]
          \/ q \in page_table /\ dirty[q] /\ data[q] >= reported[q]
      BY DEF DataInv, ReportedIsWritten
    <3>2. CASE \E v \in written[q] : v >= reported[q]
      BY <1>11, <3>2
    <3>3. CASE q \in page_table /\ dirty[q] /\ data[q] >= reported[q]
      <4>1. CASE q \in gone
        BY <1>11, <3>3, <4>1
      <4>2. CASE q \notin gone
        BY <1>1, <1>11, <3>3, <4>2
      <4> QED
        BY <4>1, <4>2
    <3> QED
      BY <3>1, <3>2, <3>3
  <2>2. VersionInv'
    <3>1. writes \in Nat /\ writes' = writes
      BY <1>1 DEF IInv, TypeOK
    <3> QED
      BY <1>11, <3>1 DEF DataInv, VersionInv
  <2>3. CleanMeansWritten'
    <3> SUFFICES ASSUME NEW q \in page_table', ~dirty'[q],
                        \A b \in unreported' : held'[b] # q \/ b \in detached'
                 PROVE  data'[q] = 0 \/ data'[q] \in written'[q]
      BY DEF CleanMeansWritten, ReadPage
    <3>1. CASE q = p
      BY <1>11, <3>1
    <3>2. CASE q # p
      <4>1. q \in page_table \ gone /\ ~dirty[q]
        BY <1>1, <1>11, <3>2
      <4>2. \A b \in unreported : held[b] # q \/ b \in detached
        BY <1>1, <4>1 DEF IInv, TypeOK
      <4>3. data[q] = 0 \/ data[q] \in written[q]
        BY <4>1, <4>2 DEF DataInv, CleanMeansWritten, ReadPage
      <4> QED
        BY <1>11, <4>1, <4>3
    <3> QED
      BY <3>1, <3>2
  <2> QED
    BY <2>1, <2>2, <2>3 DEF DataInv
<1> QED
  BY <1>9, <1>12, <1>14, <1>15 DEF IInv

\* A write through a pointer changes the object in the pool, or a dead one.
LEMMA WriteStep ==
  ASSUME IInv, NEW c \in Client, WriteData(c)
  PROVE  IInv'
<1> DEFINE p == held[c]
<1>1. /\ p # NoPage /\ c \notin unreported /\ unreported' = unreported \cup {c}
      /\ page_table' = page_table /\ lru_list' = lru_list /\ dirty' = dirty /\ written' = written
      /\ held' = held /\ detached' = detached /\ reported' = reported
      /\ \/ c \in detached /\ data' = data /\ writes' = writes
         \/ /\ c \notin detached
            /\ writes' = writes + 1
            /\ data' = [data EXCEPT ![p] = writes']
  BY DEF WriteData
<1>2. p \in PageId /\ (c \notin detached => p \in page_table)
  BY <1>1 DEF IInv, TypeOK, HolderInv
<1> HIDE DEF p
<1>3. /\ data \in [PageId -> Nat] /\ writes \in Nat
      /\ reported \in [PageId -> Nat] /\ page_table \subseteq PageId
      /\ \A q \in PageId : data[q] <= writes
  BY DEF IInv, TypeOK, DataInv, VersionInv
<1>4. /\ data' \in [PageId -> Nat] /\ writes' \in Nat
      /\ \A q \in PageId : data[q] <= data'[q] /\ data'[q] <= writes'
      /\ \A q \in PageId : data'[q] = data[q] \/ (q = p /\ c \notin detached)
  BY <1>1, <1>2, <1>3
<1>5. TypeOK'
  BY <1>1, <1>4 DEF IInv, TypeOK
<1>6. ListMatchesTable' /\ HolderInv'
  BY <1>1 DEF IInv, ListMatchesTable, HolderInv, p
<1>7. DataInv'
  <2> DataInv
    BY DEF IInv
  <2>1. ReportedIsWritten'
    <3> SUFFICES ASSUME NEW q \in PageId
                 PROVE  \/ reported[q] = 0
                        \/ \E v \in written[q] : v >= reported[q]
                        \/ q \in page_table /\ dirty[q] /\ data'[q] >= reported[q]
      BY <1>1 DEF ReportedIsWritten
    <3>1. \/ reported[q] = 0
          \/ \E v \in written[q] : v >= reported[q]
          \/ q \in page_table /\ dirty[q] /\ data[q] >= reported[q]
      BY DEF DataInv, ReportedIsWritten
    <3>2. data[q] >= reported[q] => data'[q] >= reported[q]
      BY <1>3, <1>4
    <3> QED
      BY <3>1, <3>2
  <2>2. VersionInv'
    BY <1>4 DEF VersionInv
  <2>3. CleanMeansWritten'
    <3> SUFFICES ASSUME NEW q \in page_table, ~dirty[q],
                        \A b \in unreported \cup {c} : held[b] # q \/ b \in detached
                 PROVE  data'[q] = 0 \/ data'[q] \in written[q]
      BY <1>1 DEF CleanMeansWritten, ReadPage
    <3>1. data'[q] = data[q]
      BY <1>3, <1>4 DEF p
    <3> QED
      BY <3>1 DEF DataInv, CleanMeansWritten, ReadPage
  <2> QED
    BY <2>1, <2>2, <2>3 DEF DataInv
<1> QED
  BY <1>5, <1>6, <1>7 DEF IInv

\* mark_dirty protects whatever object of the page is in the pool.
LEMMA MarkStep ==
  ASSUME IInv, NEW c \in Client, mark_dirty(c)
  PROVE  IInv'
<1> DEFINE p == held[c]
<1>1. /\ c \in unreported /\ unreported' = unreported \ {c}
      /\ page_table' = page_table /\ lru_list' = lru_list /\ data' = data /\ written' = written
      /\ held' = held /\ detached' = detached /\ writes' = writes
      /\ dirty' = [dirty EXCEPT ![p] = p \in page_table]
      /\ reported' = IF c \in detached THEN reported ELSE [reported EXCEPT ![p] = data[p]]
  BY DEF mark_dirty, SetDirty
<1>2. p \in PageId /\ (c \notin detached => p \in page_table)
  BY <1>1 DEF IInv, TypeOK, HolderInv
<1>3. /\ data \in [PageId -> Nat] /\ reported \in [PageId -> Nat]
      /\ dirty \in [PageId -> BOOLEAN] /\ page_table \subseteq PageId
  BY DEF IInv, TypeOK
<1> HIDE DEF p
<1>4. /\ dirty' \in [PageId -> BOOLEAN] /\ reported' \in [PageId -> Nat]
      /\ \A q \in page_table : ~dirty'[q] => q # p /\ ~dirty[q]
      /\ \A q \in PageId : reported'[q] = reported[q] \/ (q = p /\ q \in page_table /\ reported'[q] = data[q])
  <2>1. (p \in page_table) \in BOOLEAN
    OBVIOUS
  <2>2. dirty' \in [PageId -> BOOLEAN] /\ \A q \in PageId \ {p} : dirty'[q] = dirty[q]
    BY <1>1, <1>3, <2>1
  <2>3. dirty'[p] = (p \in page_table)
    BY <1>1, <1>2, <1>3
  <2>4. \A q \in page_table : ~dirty'[q] => q # p /\ ~dirty[q]
    BY <1>3, <2>2, <2>3
  <2>5. /\ reported' \in [PageId -> Nat]
        /\ \A q \in PageId : \/ reported'[q] = reported[q]
                             \/ q = p /\ q \in page_table /\ reported'[q] = data[q]
    BY <1>1, <1>2, <1>3
  <2> QED
    BY <2>2, <2>4, <2>5
<1>5. TypeOK'
  BY <1>1, <1>4 DEF IInv, TypeOK
<1>6. ListMatchesTable' /\ HolderInv'
  BY <1>1 DEF IInv, ListMatchesTable, HolderInv
<1>7. DataInv'
  <2> DataInv
    BY DEF IInv
  <2>1. ReportedIsWritten'
    <3> SUFFICES ASSUME NEW q \in PageId
                 PROVE  \/ reported'[q] = 0
                        \/ \E v \in written[q] : v >= reported'[q]
                        \/ q \in page_table /\ dirty'[q] /\ data[q] >= reported'[q]
      BY <1>1 DEF ReportedIsWritten
    <3>1. \/ reported[q] = 0
          \/ \E v \in written[q] : v >= reported[q]
          \/ q \in page_table /\ dirty[q] /\ data[q] >= reported[q]
      BY DEF DataInv, ReportedIsWritten
    <3>2. q \in page_table /\ (dirty[q] \/ q = p) => dirty'[q]
      BY <1>4
    <3>3. data[q] >= data[q]
      BY <1>3
    <3> QED
      BY <1>4, <3>1, <3>2, <3>3
  <2>2. VersionInv'
    BY <1>1 DEF DataInv, VersionInv
  <2>3. CleanMeansWritten'
    BY <1>1, <1>4 DEF DataInv, CleanMeansWritten, p
  <2> QED
    BY <2>1, <2>2, <2>3 DEF DataInv
<1> QED
  BY <1>5, <1>6, <1>7 DEF IInv

\* A flush gives write_page what the dirty pages have.
LEMMA FlushStep ==
  ASSUME IInv, NEW P \in SUBSET page_table, Flush(P)
  PROVE  IInv'
<1>1. /\ page_table' = page_table /\ lru_list' = lru_list /\ data' = data /\ held' = held
      /\ detached' = detached /\ unreported' = unreported /\ writes' = writes
      /\ reported' = reported
      /\ written' = [q \in PageId |-> IF q \in P /\ dirty[q] THEN written[q] \cup {data[q]}
                                      ELSE written[q]]
      /\ dirty' = [q \in PageId |-> q \notin P /\ dirty[q]]
  BY DEF Flush, WriteDirty, clientVars
<1>2. /\ written \in [PageId -> SUBSET Nat] /\ data \in [PageId -> Nat]
      /\ dirty \in [PageId -> BOOLEAN] /\ page_table \subseteq PageId
  BY DEF IInv, TypeOK
<1>3. /\ written' \in [PageId -> SUBSET Nat] /\ dirty' \in [PageId -> BOOLEAN]
      /\ \A q \in PageId : written[q] \subseteq written'[q]
      /\ \A q \in PageId : dirty[q] /\ ~dirty'[q] => data[q] \in written'[q]
  BY <1>1, <1>2
<1>4. TypeOK'
  BY <1>1, <1>3 DEF IInv, TypeOK
<1>5. ListMatchesTable' /\ HolderInv'
  BY <1>1 DEF IInv, ListMatchesTable, HolderInv
<1>6. DataInv'
  <2> DataInv
    BY DEF IInv
  <2>1. ReportedIsWritten'
    <3> SUFFICES ASSUME NEW q \in PageId
                 PROVE  \/ reported[q] = 0
                        \/ \E v \in written'[q] : v >= reported[q]
                        \/ q \in page_table /\ dirty'[q] /\ data[q] >= reported[q]
      BY <1>1 DEF ReportedIsWritten
    <3>1. \/ reported[q] = 0
          \/ \E v \in written[q] : v >= reported[q]
          \/ q \in page_table /\ dirty[q] /\ data[q] >= reported[q]
      BY DEF DataInv, ReportedIsWritten
    <3> QED
      BY <1>3, <3>1
  <2>2. VersionInv'
    BY <1>1 DEF DataInv, VersionInv
  <2>3. CleanMeansWritten'
    BY <1>1, <1>2, <1>3 DEF DataInv, CleanMeansWritten
  <2> QED
    BY <2>1, <2>2, <2>3 DEF DataInv
<1> QED
  BY <1>4, <1>5, <1>6 DEF IInv

\* Every step keeps the inductive invariant.
LEMMA NextInv == IInv /\ [Next]_vars => IInv'
<1> SUFFICES ASSUME IInv, [Next]_vars PROVE IInv'
  OBVIOUS
<1>1. ASSUME NEW c \in Client, NEW p \in PageId, fetch_page(c, p) PROVE IInv'
  <2>1. CASE FetchHit(c, p)
    BY <1>1, <2>1, HitStep
  <2>2. CASE FetchMiss(c, p)
    BY <1>1, <2>2, MissStep
  <2> QED
    BY <1>1, <2>1, <2>2 DEF fetch_page
<1>2. ASSUME NEW c \in Client, WriteData(c) \/ mark_dirty(c) PROVE IInv'
  BY <1>2, WriteStep, MarkStep
<1>3. ASSUME NEW p \in PageId, flush_page(p) PROVE IInv'
  BY <1>3, FlushStep DEF flush_page
<1>4. CASE flush_all_pages
  BY <1>4, FlushStep DEF flush_all_pages
<1>5. CASE UNCHANGED vars
  <2>1. /\ page_table' = page_table /\ lru_list' = lru_list /\ data' = data /\ held' = held
        /\ detached' = detached /\ unreported' = unreported /\ writes' = writes
        /\ reported' = reported /\ written' = written /\ dirty' = dirty
    BY <1>5 DEF vars, poolVars, clientVars
  <2>2. TypeOK' /\ ListMatchesTable'
    BY <2>1 DEF IInv, TypeOK, ListMatchesTable
  <2>3. HolderInv'
    BY <2>1 DEF IInv, HolderInv
  <2>4. DataInv'
    BY <2>1 DEF IInv, DataInv, ReportedIsWritten, CleanMeansWritten, VersionInv
  <2> QED
    BY <2>2, <2>3, <2>4 DEF IInv
<1> QED
  BY <1>1, <1>2, <1>3, <1>4, <1>5 DEF Next

\* The inductive invariant of the buffer pool.
THEOREM Invariance == Spec => []IInv
  BY InitInv, NextInv, PTL DEF Spec

\* The pool's members keep their types.
THEOREM TypeCorrect == Spec => []TypeOK
<1>1. IInv => TypeOK
  BY DEF IInv
<1> QED
  BY <1>1, Invariance, PTL

\* The list and the table agree and stay within the capacity.
THEOREM PoolBounded == Spec => []ListMatchesTable
<1>1. IInv => ListMatchesTable
  BY DEF IInv
<1> QED
  BY <1>1, Invariance, PTL

\* A write that was reported in time is given to write_page before it is given up.
THEOREM ReportsWritten == Spec => []ReportedIsWritten
<1>1. IInv => ReportedIsWritten
  BY DEF IInv, DataInv
<1> QED
  BY <1>1, Invariance, PTL

\* Dropping a clean page without a write under way drops nothing unwritten.
THEOREM CleanWritten == Spec => []CleanMeansWritten
<1>1. IInv => CleanMeansWritten
  BY DEF IInv, DataInv
<1> QED
  BY <1>1, Invariance, PTL
=============================================================================
