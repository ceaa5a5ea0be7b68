--------------------------- MODULE BufferManager ---------------------------
(***************************************************************************)
(* class BufferManager of storage/buffer_manager.cpp, and threads that use *)
(* it as test_buffer_manager does: fetch_page hands out a shared pointer,  *)
(* the thread writes through it without the manager's mutex and reports    *)
(* the write with mark_dirty.  Pages are not pinned: the object of an      *)
(* evicted page lives on in the hands of the threads that fetched it, and  *)
(* the next fetch makes another one.  A page's data is the number of the   *)
(* last write to it, 0 in a new object.  DiskStorage only prints: of       *)
(* write_page remains what it was given, and read_page leaves the new      *)
(* object as it is.                                                        *)
(***************************************************************************)
EXTENDS Lists

CONSTANTS PageId,
          Client,       \* threads
          NoPage,       \* a thread without a pointer
          capacity,
          MaxWrites     \* bound: writes to objects in the pool

ASSUME BufferManagerAssumption ==
  /\ NoPage \notin PageId
  /\ capacity \in Nat \ {0}
  /\ MaxWrites \in Nat

VARIABLES page_table,   \* the keys of page_table: the pages in the pool
          lru_list,     \* page ids, the most recently fetched first
          dirty, data,  \* the members of the Page objects in the pool
          written,      \* page id -> the data write_page was given for it
          held,         \* the page to whose object a thread has a pointer ...
          detached,     \* ... threads whose object is no longer in the pool
          unreported,   \* threads between a write and mark_dirty
          writes,       \* number of writes to objects in the pool
          reported      \* page id -> newest data reported while still in the pool

poolVars == <<page_table, lru_list, dirty, data, written>>
clientVars == <<held, detached, unreported, writes, reported>>
vars == <<poolVars, clientVars>>

TypeOK ==
  /\ page_table \subseteq PageId
  /\ lru_list \in Seq(PageId)
  /\ dirty \in [PageId -> BOOLEAN]
  /\ data \in [PageId -> Nat]
  /\ written \in [PageId -> SUBSET Nat]
  /\ held \in [Client -> PageId \cup {NoPage}]
  /\ detached \subseteq Client
  /\ unreported \subseteq Client
  /\ writes \in Nat
  /\ reported \in [PageId -> Nat]

Init ==
  /\ page_table = {}
  /\ lru_list = <<>>
  /\ dirty = [p \in PageId |-> FALSE]
  /\ data = [p \in PageId |-> 0]
  /\ written = [p \in PageId |-> {}]
  /\ held = [c \in Client |-> NoPage]
  /\ detached = {}
  /\ unreported = {}
  /\ writes = 0
  /\ reported = [p \in PageId |-> 0]

-----------------------------------------------------------------------------
(* Where a helper is preceded by variants of itself without a comment, these  *)
(* are slips it could be mistaken for, there to see that a property notices.  *)

EvictBeyond(n) == IF n > capacity THEN n - capacity ELSE 0
\* The turns of the loop of evict_page with n pages in the pool.
Evictions(n) == IF n >= capacity THEN n - capacity + 1 ELSE 0

\* A hit moves the page to the front.
Touch(p) == <<p>> \o Remove(lru_list, p)

\* The data of a new Page: read_page does not fill the buffer it is given.
ReadPage == 0

WriteNothing(P) == written
\* write_page for the dirty pages of P.
WriteDirty(P) ==
  [p \in PageId |-> IF p \in P /\ dirty[p] THEN written[p] \cup {data[p]} ELSE written[p]]

\* fetch_page of a page in the pool.
FetchHit(c, p) ==
  /\ p \in page_table
  /\ lru_list' = Touch(p)
  /\ UNCHANGED <<page_table, dirty, data, written>>
  /\ detached' = detached \ {c}

\* fetch_page of any other: evict_page from the back of the list, writing dirty
\* pages, then load the page into a new object.
FetchMiss(c, p) ==
  LET keep == Len(lru_list) - Evictions(Cardinality(page_table))
      evicted == {lru_list[i] : i \in keep + 1 .. Len(lru_list)}
  IN  /\ p \notin page_table
      /\ page_table' = (page_table \ evicted) \cup {p}
      /\ lru_list' = <<p>> \o SubSeq(lru_list, 1, keep)
      /\ written' = WriteDirty(evicted)
      /\ dirty' = [q \in PageId |-> q \notin evicted \cup {p} /\ dirty[q]]
      /\ data' = [q \in PageId |-> CASE q = p -> ReadPage
                                      [] q \in evicted -> 0
                                      [] OTHER -> data[q]]
      /\ detached' = (detached \cup {b \in Client : held[b] \in evicted}) \ {c}

\* A thread fetches a page and lets go of the pointer it had.
fetch_page(c, p) ==
  /\ c \notin unreported
  /\ FetchHit(c, p) \/ FetchMiss(c, p)
  /\ held' = [held EXCEPT ![c] = p]
  /\ UNCHANGED <<unreported, writes, reported>>

\* A thread writes into the object it has, as in page1->data[0] = 'A'.
WriteData(c) ==
  /\ held[c] # NoPage /\ c \notin unreported
  /\ unreported' = unreported \cup {c}
  /\ IF c \in detached THEN UNCHANGED <<data, writes>>
     ELSE /\ writes < MaxWrites
          /\ writes' = writes + 1
          /\ data' = [data EXCEPT ![held[c]] = writes']
  /\ UNCHANGED <<page_table, lru_list, dirty, written, held, detached, reported>>

SetDirtyNot(p) == dirty
SetDirty(p) == [dirty EXCEPT ![p] = p \in page_table]
\* mark_dirty marks the object that is now in the pool, if there is one.
mark_dirty(c) ==
  /\ c \in unreported
  /\ unreported' = unreported \ {c}
  /\ dirty' = SetDirty(held[c])
  /\ reported' = IF c \in detached THEN reported
                 ELSE [reported EXCEPT ![held[c]] = data[held[c]]]
  /\ UNCHANGED <<page_table, lru_list, data, written, held, detached, writes>>

\* Write back the dirty pages of P and mark them clean.
Flush(P) ==
  /\ written' = WriteDirty(P)
  /\ dirty' = [p \in PageId |-> p \notin P /\ dirty[p]]
  /\ UNCHANGED <<page_table, lru_list, data, clientVars>>

flush_page(p) == p \in page_table /\ Flush({p})
flush_all_pages == Flush(page_table)

Next ==
  \/ \E c \in Client : \/ \E p \in PageId : fetch_page(c, p)
                       \/ WriteData(c)
                       \/ mark_dirty(c)
  \/ \E p \in PageId : flush_page(p)
  \/ flush_all_pages

Spec == Init /\ [][Next]_vars

-----------------------------------------------------------------------------
\* The eviction list and the page table agree: the list has every page in the
\* pool once, and there are no more of them than the capacity.
ListMatchesTable ==
  /\ page_table = Elements(lru_list)
  /\ Distinct(lru_list)
  /\ Len(lru_list) <= capacity

\* A write whose mark_dirty found the page still in the pool reaches write_page
\* before the object with it is given up: until write_page was given it, or a
\* later one, the page is in the pool, is dirty and has it, through any fetches
\* and flushes of other threads.
ReportedIsWritten ==
  \A p \in PageId :
    \/ reported[p] = 0
    \/ \E v \in written[p] : v >= reported[p]
    \/ p \in page_table /\ dirty[p] /\ data[p] >= reported[p]

\* A clean page may be dropped without a write: it is as it was loaded, or
\* write_page was given what it has, unless some thread has written to it and not
\* yet come to mark_dirty.
CleanMeansWritten ==
  \A p \in page_table :
    ~dirty[p] /\ (\A c \in unreported : held[c] # p \/ c \in detached)
      => data[p] = ReadPage \/ data[p] \in written[p]

\* fetch_page "loads" a page that was evicted: the page in the pool has what was
\* reported on it and written back.
FetchLoadsPage == \A p \in page_table : reported[p] <= data[p]
=============================================================================
