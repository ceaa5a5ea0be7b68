--------------------------- MODULE LruCacheProofs ---------------------------
(***************************************************************************)
(* The LRU cache implements the bounded map of module Cache, for any keys, *)
(* values and positive capacity.                                           *)
(***************************************************************************)
EXTENDS LruCache, ListProofs

USE CapacityAssumption

Abs == INSTANCE Cache WITH contents <- lruCache

\* The list has the keys of the map, each once, and no more than fit.  A put
\* finds the key to drop at the back of the list, so that without this the map
\* would keep a key too many or lose the wrong one.
LruInv ==
  /\ lruList \in Seq(CacheKey)
  /\ Distinct(lruList)
  /\ Elements(lruList) = DOMAIN lruCache
  /\ lruCache = [x \in DOMAIN lruCache |-> lruCache[x]]
  /\ Len(lruList) <= Capacity

\* The instance counts as this module does.
LEMMA SameCardinality ==
  ASSUME NEW S
  PROVE  Abs!Cardinality(S) = Cardinality(S)
BY DEF Abs!Cardinality, Cardinality, Abs!IsFiniteSet, IsFiniteSet

\* The size of the map is the length of the list.
LEMMA SizeIsLength ==
  ASSUME LruInv
  PROVE  /\ IsFiniteSet(DOMAIN lruCache) /\ Cardinality(DOMAIN lruCache) = Len(lruList)
         /\ Len(lruList) \in Nat /\ DOMAIN lruList = 1 .. Len(lruList)
<1>1. lruList \in Seq(CacheKey) /\ Distinct(lruList) /\ Elements(lruList) = DOMAIN lruCache
  BY DEF LruInv
<1> QED
  BY <1>1, DistinctLength, LenProperties

\* get and the first branch of put: the key moves to the front.
LEMMA FrontStep ==
  ASSUME LruInv, NEW k \in CacheKey, k \in DOMAIN lruCache,
         lruList' = moveToFront(k),
         lruCache' = [x \in DOMAIN lruCache' |-> lruCache'[x]], DOMAIN lruCache' = DOMAIN lruCache
  PROVE  LruInv'
<1> DEFINE R == Remove(lruList, k)
<1>1. lruList \in Seq(CacheKey) /\ Distinct(lruList) /\ Elements(lruList) = DOMAIN lruCache
  BY DEF LruInv
<1>2. R \in Seq(CacheKey) /\ Distinct(R) /\ Elements(R) = Elements(lruList) \ {k}
  BY <1>1, RemoveProperties
<1>3. lruList' = <<k>> \o R
  BY DEF moveToFront
<1> HIDE DEF R
<1>4. k \notin Elements(R)
  BY <1>2
<1>5. /\ lruList' \in Seq(CacheKey) /\ Distinct(lruList')
      /\ Elements(lruList') = Elements(R) \cup {k}
  BY <1>2, <1>3, <1>4, PushFrontProperties
<1>6. Elements(lruList') = DOMAIN lruCache'
  BY <1>1, <1>2, <1>5
<1>7. Len(lruList') = Len(lruList)
  <2>1. Cardinality(Elements(lruList')) = Len(lruList')
    BY <1>5, DistinctLength
  <2>2. Cardinality(Elements(lruList)) = Len(lruList)
    BY <1>1, DistinctLength
  <2> QED
    BY <1>1, <1>6, <2>1, <2>2
<1> QED
  BY <1>5, <1>6, <1>7 DEF LruInv

\* A new key: what is dropped is one key of the map, and only from a full one.
LEMMA InsertStep ==
  ASSUME LruInv, NEW k \in CacheKey, NEW v \in CacheValue, lruInsert(k, v)
  PROVE  LruInv' /\ Abs!CachePut(k, v)
<1> DEFINE n == Len(lruList)
           dropped == IF Full THEN {lruList[n]} ELSE {}
           keptList == IF Full THEN SubSeq(lruList, 1, n - 1) ELSE lruList
           kept == DOMAIN lruCache \ dropped
<1>1. lruList \in Seq(CacheKey) /\ Distinct(lruList) /\ Elements(lruList) = DOMAIN lruCache
      /\ Len(lruList) <= Capacity
  BY DEF LruInv
<1>2. /\ Cardinality(DOMAIN lruCache) = n /\ n \in Nat /\ DOMAIN lruList = 1 .. n
  BY SizeIsLength
<1>3. Full <=> n = Capacity
  BY <1>2 DEF Full
<1>4. /\ k \notin DOMAIN lruCache /\ lruList' = <<k>> \o keptList
      /\ lruCache' = [x \in kept \cup {k} |-> IF x = k THEN v ELSE lruCache[x]]
  BY DEF lruInsert
<1>5. /\ keptList \in Seq(CacheKey) /\ Distinct(keptList) /\ Elements(keptList) = kept
      /\ Len(keptList) < Capacity /\ Len(keptList) \in Nat
  <2>1. CASE Full
    <3>1. n - 1 \in 0 .. n /\ n - 1 + 1 = n
      BY <1>2, <1>3, <2>1
    <3>2. /\ SubSeq(lruList, 1, n - 1) \in Seq(CacheKey) /\ Len(SubSeq(lruList, 1, n - 1)) = n - 1
          /\ Distinct(SubSeq(lruList, 1, n - 1))
          /\ Elements(SubSeq(lruList, 1, n - 1)) = Elements(lruList) \ {lruList[i] : i \in n - 1 + 1 .. n}
      BY <1>1, <3>1, PrefixProperties
    <3>3. {lruList[i] : i \in n - 1 + 1 .. n} = {lruList[n]}
      <4>1. n - 1 + 1 .. n = {n}
        BY <1>2, <3>1
      <4> QED BY <4>1
    <3> QED
      BY <1>1, <1>2, <1>3, <2>1, <3>1, <3>2, <3>3
  <2>2. CASE ~Full
    BY <1>1, <1>2, <1>3, <2>2
  <2> QED
    BY <2>1, <2>2
<1>6. /\ dropped \in SUBSET (DOMAIN lruCache \ {k})
      /\ Cardinality(dropped) = IF k \notin DOMAIN lruCache /\ Cardinality(DOMAIN lruCache) = Capacity
                                THEN 1 ELSE 0
  <2>1. CASE Full
    <3>1. n \in DOMAIN lruList
      BY <1>2, <1>3, <2>1
    <3>2. lruList[n] \in DOMAIN lruCache
      BY <1>1, <3>1 DEF Elements
    <3>3. Cardinality({lruList[n]}) = 1
      BY FS_Singleton
    <3> QED
      BY <1>2, <1>3, <1>4, <2>1, <3>2, <3>3
  <2>2. CASE ~Full
    BY <1>2, <1>3, <2>2, FS_EmptySet
  <2> QED
    BY <2>1, <2>2
<1> HIDE DEF dropped, keptList, n
<1>7. lruCache' = Abs!PutMap(k, v, dropped)
  BY <1>4 DEF Abs!PutMap
<1>8. Abs!CachePut(k, v)
  BY <1>6, <1>7, SameCardinality DEF Abs!CachePut
<1>9. k \notin Elements(keptList)
  BY <1>4, <1>5
<1>10. /\ lruList' \in Seq(CacheKey) /\ Distinct(lruList') /\ Len(lruList') = Len(keptList) + 1
       /\ Elements(lruList') = kept \cup {k}
  BY <1>4, <1>5, <1>9, PushFrontProperties
<1>11. DOMAIN lruCache' = kept \cup {k} /\ lruCache' = [x \in DOMAIN lruCache' |-> lruCache'[x]]
  BY <1>4
<1> QED
  BY <1>5, <1>8, <1>10, <1>11 DEF LruInv

\* Each step of the cache keeps the invariant and is a put of the map, or
\* changes nothing that the map shows.
LEMMA LruStep ==
  ASSUME LruInv, [LruNext]_lruVars
  PROVE  LruInv' /\ [Abs!CacheNext]_lruCache
<1>1. CASE UNCHANGED lruVars
  <2>1. lruList' = lruList /\ lruCache' = lruCache
    BY <1>1 DEF lruVars
  <2> QED
    BY <2>1 DEF LruInv
<1>2. ASSUME NEW k \in CacheKey, lruGet(k) PROVE LruInv' /\ lruCache' = lruCache
  <2>1. k \in DOMAIN lruCache /\ lruList' = moveToFront(k) /\ lruCache' = lruCache
    BY <1>2 DEF lruGet
  <2>2. lruCache' = [x \in DOMAIN lruCache' |-> lruCache'[x]]
    BY <2>1 DEF LruInv
  <2> QED
    BY <2>1, <2>2, FrontStep
<1>3. ASSUME NEW k \in CacheKey, NEW v \in CacheValue, lruUpdate(k, v)
      PROVE  LruInv' /\ Abs!CachePut(k, v)
  <2>1. k \in DOMAIN lruCache /\ lruList' = moveToFront(k) /\ lruCache' = [lruCache EXCEPT ![k] = v]
    BY <1>3 DEF lruUpdate
  <2>2. DOMAIN lruCache' = DOMAIN lruCache /\ lruCache' = [x \in DOMAIN lruCache' |-> lruCache'[x]]
    BY <2>1
  <2>3. LruInv'
    BY <2>1, <2>2, FrontStep
  <2>4. lruCache' = Abs!PutMap(k, v, {})
    BY <2>1 DEF Abs!PutMap
  <2>5. Cardinality({}) = IF k \notin DOMAIN lruCache /\ Cardinality(DOMAIN lruCache) = Capacity
                          THEN 1 ELSE 0
    BY <2>1, FS_EmptySet
  <2> QED
    BY <2>3, <2>4, <2>5, SameCardinality DEF Abs!CachePut
<1>4. CASE LruNext
  BY <1>2, <1>3, <1>4, InsertStep DEF LruNext, Abs!CacheNext
<1> QED
  BY <1>1, <1>4

\* The cache of lru_cache.cpp is a bounded map: put sets its key and costs at most
\* one other key its place, only when it has to; get changes no value.
THEOREM LruImplementsCache == LruSpec => Abs!CacheSpec
<1>1. LruInit => LruInv /\ Abs!CacheInit
  <2> SUFFICES ASSUME LruInit PROVE LruInv /\ Abs!CacheInit
    OBVIOUS
  <2>1. lruList = <<>> /\ lruCache = <<>>
    BY DEF LruInit
  <2> QED
    BY <2>1 DEF LruInv, Abs!CacheInit, Elements, Distinct
<1>2. LruInv /\ [LruNext]_lruVars => LruInv' /\ [Abs!CacheNext]_lruCache
  BY LruStep
<1> QED
  BY <1>1, <1>2, PTL DEF LruSpec, Abs!CacheSpec
=============================================================================
