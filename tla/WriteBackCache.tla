--------------------------- MODULE WriteBackCache ---------------------------
(***************************************************************************)
(* caching/write_back_cache.cpp for a positive capacity.  write_to_storage *)
(* only announces the block; wbStorage is the storage it stands for.       *)
(***************************************************************************)
EXTENDS CacheConstants

VARIABLES cache_list,   \* blocks [key, value, dirty], the latest used first
          wbStorage,    \* key -> the value last written to storage, or -1
          wbLast        \* key -> the value last written, and whether the block was
                        \* already in the cache then

wbVars == <<cache_list, wbStorage, wbLast>>

WbInit ==
  /\ cache_list = <<>>
  /\ wbStorage = [k \in CacheKey |-> -1]
  /\ wbLast = [k \in CacheKey |-> [value |-> -1, update |-> FALSE]]

-----------------------------------------------------------------------------
InCache(k) == \E i \in DOMAIN cache_list : cache_list[i].key = k
Others(k) == Keep(cache_list, {i \in DOMAIN cache_list : cache_list[i].key # k})
Block(k) == cache_list[CHOOSE i \in DOMAIN cache_list : cache_list[i].key = k]

\* The cache as a map.
wbContents == [k \in {cache_list[i].key : i \in DOMAIN cache_list} |-> Block(k).value]

wbRead(k) ==
  /\ InCache(k)
  /\ cache_list' = <<Block(k)>> \o Others(k)
  /\ UNCHANGED <<wbStorage, wbLast>>

wbUpdate(k, v) ==
  /\ InCache(k)
  /\ cache_list' = <<[key |-> k, value |-> v, dirty |-> TRUE]>> \o Others(k)
  /\ wbLast' = [wbLast EXCEPT ![k] = [value |-> v, update |-> TRUE]]
  /\ UNCHANGED wbStorage

\* The storage after the dirty ones of these blocks were written to it.
DropDirty(blocks) == wbStorage
write_to_storage(blocks) ==
  [k \in CacheKey |-> IF \E i \in DOMAIN blocks : blocks[i].key = k /\ blocks[i].dirty
                      THEN blocks[CHOOSE i \in DOMAIN blocks : blocks[i].key = k].value
                      ELSE wbStorage[k]]

\* A new block is clean.  With a full cache evict comes first.
wbInsert(k, v) ==
  LET n == Len(cache_list)
      full == n >= Capacity
  IN  /\ ~InCache(k)
      /\ cache_list' = <<[key |-> k, value |-> v, dirty |-> FALSE]>>
                         \o SubSeq(cache_list, 1, IF full THEN n - 1 ELSE n)
      /\ wbStorage' = IF full THEN write_to_storage(SubSeq(cache_list, n, n)) ELSE wbStorage
      /\ wbLast' = [wbLast EXCEPT ![k] = [value |-> v, update |-> FALSE]]

wbFlush ==
  /\ wbStorage' = write_to_storage(cache_list)
  /\ cache_list' = [i \in DOMAIN cache_list |-> [cache_list[i] EXCEPT !.dirty = FALSE]]
  /\ UNCHANGED wbLast

WbNext ==
  \/ \E k \in CacheKey : wbRead(k) \/ \E v \in CacheValue : wbUpdate(k, v) \/ wbInsert(k, v)
  \/ wbFlush

-----------------------------------------------------------------------------
\* The value last written to a key is in the cache or in storage, through
\* evictions and flushes in any order, unless that write had put the block into
\* the cache: such a block is taken for clean and its eviction loses the value.
UpdatesSurvive ==
  \A k \in CacheKey : wbLast[k].update =>
    \/ InCache(k) /\ Block(k).value = wbLast[k].value
    \/ wbStorage[k] = wbLast[k].value
=============================================================================
