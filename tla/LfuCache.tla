------------------------------ MODULE LfuCache ------------------------------
(***************************************************************************)
(* caching/lfu_cache.cpp for a positive capacity (with 0 every call        *)
(* returns at once).  A node is its key; where it is in freqList tells its *)
(* frequency.                                                              *)
(***************************************************************************)
EXTENDS CacheConstants

CONSTANT MaxFreq        \* bound: uses of a key

VARIABLES freqList,     \* frequency -> its keys, the latest first; none is empty
          lfuValue,     \* key -> value, for the keys in keyNode
          minFreq

lfuVars == <<freqList, lfuValue, minFreq>>

LfuInit == freqList = <<>> /\ lfuValue = <<>> /\ minFreq = 0

-----------------------------------------------------------------------------
freq(k) == CHOOSE f \in DOMAIN freqList : k \in Elements(freqList[f])
ListAt(lists, f) == IF f \in DOMAIN lists THEN lists[f] ELSE <<>>
\* The lists with s for f; an empty one is erased.
SetList(lists, f, s) ==
  [g \in IF s = <<>> THEN DOMAIN lists \ {f} ELSE DOMAIN lists \cup {f} |->
     IF g = f THEN s ELSE lists[g]]
PushFront(lists, f, k) == SetList(lists, f, <<k>> \o ListAt(lists, f))

AlwaysNext(f, left) == f + 1
NextMin(f, left) == IF minFreq = f /\ left = <<>> THEN f + 1 ELSE minFreq
updateFrequency(k) ==
  LET f == freq(k)
      left == Remove(freqList[f], k)
  IN  /\ f < MaxFreq
      /\ minFreq' = NextMin(f, left)
      /\ freqList' = PushFront(SetList(freqList, f, left), f + 1, k)

lfuGet(k) ==
  /\ k \in DOMAIN lfuValue
  /\ updateFrequency(k)
  /\ UNCHANGED lfuValue

lfuUpdate(k, v) ==
  /\ k \in DOMAIN lfuValue
  /\ lfuValue' = [lfuValue EXCEPT ![k] = v]
  /\ updateFrequency(k)

\* A new key: when the cache is full the oldest one of the list of minFreq goes.
lfuInsert(k, v) ==
  LET full == Cardinality(DOMAIN lfuValue) = Capacity
      least == freqList[minFreq]
      n == Len(least)
      lists == IF full THEN SetList(freqList, minFreq, SubSeq(least, 1, n - 1)) ELSE freqList
      kept == DOMAIN lfuValue \ (IF full THEN {least[n]} ELSE {})
  IN  /\ k \notin DOMAIN lfuValue
      /\ freqList' = PushFront(lists, 1, k)
      /\ minFreq' = 1
      /\ lfuValue' = [x \in kept \cup {k} |-> IF x = k THEN v ELSE lfuValue[x]]

LfuNext ==
  \E k \in CacheKey : lfuGet(k) \/ \E v \in CacheValue : lfuUpdate(k, v) \/ lfuInsert(k, v)

-----------------------------------------------------------------------------
\* A key is evicted only if none was used less often since it was inserted, and
\* among those used as often none was used longer ago.
LfuEvictsLeastUsed ==
  [][\A k \in DOMAIN lfuValue \ DOMAIN lfuValue' : \A j \in DOMAIN lfuValue \ {k} :
       \/ freq(k) < freq(j)
       \/ freq(k) = freq(j) /\ freqList[freq(k)][Len(freqList[freq(k)])] = k]_lfuVars
=============================================================================
