------------------------- MODULE WriteThroughCache -------------------------
(***************************************************************************)
(* caching/write_through_cache.cpp.  Every call runs under cache_mutex_    *)
(* and is one step; put checks the capacity after it has inserted.  A get  *)
(* that finds its key only in storage calls put, which locks the mutex     *)
(* again: nothing happens afterwards.                                      *)
(***************************************************************************)
EXTENDS CacheConstants

CONSTANT MaxStored     \* bound: lines in storage.txt

VARIABLES wtList,       \* cache_list_: [key, value], the latest used first
          wtFile,       \* the lines of storage.txt: [key, value]
          wtHung        \* a get has locked the mutex twice

wtVars == <<wtList, wtFile, wtHung>>

WtInit == wtList = <<>> /\ wtFile = <<>> /\ wtHung = FALSE

WtCached(k) == \E i \in DOMAIN wtList : wtList[i].key = k
WtEntry(k) == wtList[CHOOSE i \in DOMAIN wtList : wtList[i].key = k]
WtOthers(k) == Keep(wtList, {i \in DOMAIN wtList : wtList[i].key # k})

\* The cache as a map.
wtContents == [k \in {wtList[i].key : i \in DOMAIN wtList} |-> WtEntry(k).value]

\* Storage::read: the first line with the key, or -1.
StorageRead(k) ==
  LET lines == {i \in DOMAIN wtFile : wtFile[i].key = k}
  IN  IF lines = {} THEN -1 ELSE wtFile[CHOOSE i \in lines : \A j \in lines : i <= j].value

wtGet(k) ==
  /\ ~wtHung
  /\ \/ /\ WtCached(k)
        /\ wtList' = <<WtEntry(k)>> \o WtOthers(k)
        /\ UNCHANGED wtHung
     \/ /\ ~WtCached(k) /\ StorageRead(k) # -1
        /\ wtHung' = TRUE
        /\ UNCHANGED wtList
  /\ UNCHANGED wtFile

\* Storage::write comes first; when it throws nothing has changed.
wtPut(k, v) ==
  LET list == <<[key |-> k, value |-> v]>> \o WtOthers(k)
  IN  /\ ~wtHung /\ Len(wtFile) < MaxStored
      /\ wtFile' = Append(wtFile, [key |-> k, value |-> v])
      /\ wtList' = SubSeq(list, 1, IF Len(list) > Capacity THEN Len(list) - 1 ELSE Len(list))
      /\ UNCHANGED wtHung

WtNext == \E k \in CacheKey : wtGet(k) \/ \E v \in CacheValue : wtPut(k, v)
=============================================================================
