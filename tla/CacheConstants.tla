--------------------------- MODULE CacheConstants ---------------------------
(***************************************************************************)
(* What the cache modules have in common.  The capacity is positive: the   *)
(* LRU and the write-back cache take the back of an empty list otherwise.  *)
(***************************************************************************)
EXTENDS Lists

CONSTANTS CacheKey, CacheValue, Capacity

ASSUME CapacityAssumption == Capacity \in Nat \ {0}
=============================================================================
