------------------------------ MODULE LruCache ------------------------------
(***************************************************************************)
(* caching/lru_cache.cpp, for a positive capacity (with 0 the first put    *)
(* takes the back of an empty list).                                       *)
(***************************************************************************)
EXTENDS CacheConstants

VARIABLES lruList,      \* keys, the most recently used one first
          lruCache      \* key -> value

lruVars == <<lruList, lruCache>>

LruInit == lruList = <<>> /\ lruCache = <<>>

moveToFront(k) == <<k>> \o Remove(lruList, k)

lruGet(k) ==
  /\ k \in DOMAIN lruCache
  /\ lruList' = moveToFront(k)
  /\ UNCHANGED lruCache

lruUpdate(k, v) ==
  /\ k \in DOMAIN lruCache
  /\ lruCache' = [lruCache EXCEPT ![k] = v]
  /\ lruList' = moveToFront(k)

OneTooMany == Cardinality(DOMAIN lruCache) > Capacity
Full == Cardinality(DOMAIN lruCache) = Capacity

\* A new key: when the cache is full the key at the back goes first.
lruInsert(k, v) ==
  LET keptList == IF Full THEN SubSeq(lruList, 1, Len(lruList) - 1) ELSE lruList
      kept == IF Full THEN DOMAIN lruCache \ {lruList[Len(lruList)]} ELSE DOMAIN lruCache
  IN  /\ k \notin DOMAIN lruCache
      /\ lruList' = <<k>> \o keptList
      /\ lruCache' = [x \in kept \cup {k} |-> IF x = k THEN v ELSE lruCache[x]]

LruNext ==
  \E k \in CacheKey : lruGet(k) \/ \E v \in CacheValue : lruUpdate(k, v) \/ lruInsert(k, v)

LruSpec == LruInit /\ [][LruNext]_lruVars
=============================================================================
