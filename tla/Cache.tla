------------------------------- MODULE Cache -------------------------------
(***************************************************************************)
(* What the caches of caching/ promise: a map of bounded size.  A put sets *)
(* the value of its key; it may cost one other key its place, and only     *)
(* when the key is new and the cache is full.  A get changes no value.     *)
(***************************************************************************)
EXTENDS CacheConstants

VARIABLE contents       \* key -> value of the keys in the cache

CacheInit == contents = <<>>

\* The map that results when dropped, a set of keys, makes room for k.
PutMap(k, v, dropped) ==
  [x \in (DOMAIN contents \ dropped) \cup {k} |-> IF x = k THEN v ELSE contents[x]]

CachePut(k, v) ==
  \E dropped \in SUBSET (DOMAIN contents \ {k}) :
    /\ Cardinality(dropped) =
         IF k \notin DOMAIN contents /\ Cardinality(DOMAIN contents) = Capacity THEN 1 ELSE 0
    /\ contents' = PutMap(k, v, dropped)

CacheNext == \E k \in CacheKey, v \in CacheValue : CachePut(k, v)

CacheSpec == CacheInit /\ [][CacheNext]_contents
=============================================================================
