---------------------------- MODULE MCStructures ----------------------------
(***************************************************************************)
(* The buffer pool, the caches, the indexes, the hash ring, the range      *)
(* shards and the joins, model-checked in one run: they share no state,    *)
(* part says which one a behaviour is about.                               *)
(***************************************************************************)
EXTENDS BufferManager, LruCache, LfuCache, WriteBackCache, WriteThroughCache, BTree, HashIndex,
        Trie, ConsistentHashing, RangeSharding, Joins, TLC

VARIABLE part

MCHash == <<0, 1, 2, 5>>
\* Points of two nodes in turn around the ring, and of one that shares a point.
MCPoints == <<{1, 4}, {2, 6}, {4, 8}>>
\* Ranges side by side, and one that overlaps both.
MCRange == {[min_range |-> 0, max_range |-> 1], [min_range |-> 2, max_range |-> 3],
            [min_range |-> 1, max_range |-> 2]}
MCWord == {<<>>} \cup UNION {[1 .. i -> {1, 2}] : i \in 1 .. 2} \cup {<<1, 1, 1>>, <<1, 2, 1>>, <<1, 2, 2>>}

\* Nothing tells one page id, or one thread, of the buffer pool from another.
PoolSymmetry == Permutations(PageId) \cup Permutations(Client)

cacheVars == <<lruVars, lfuVars, wbVars, wtVars>>
indexVars == <<btVars, hiVars, trVars>>
placeVars == <<chVars, rsVars, jnVars>>
mcVars == <<vars, cacheVars, indexVars, placeVars, part>>

MCInit ==
  /\ Init
  /\ LruInit /\ LfuInit /\ WbInit /\ WtInit
  /\ BtInit /\ HiInit /\ TrInit
  /\ ChInit /\ RsInit /\ JnInit
  /\ part \in {"pool", "lru", "lfu", "write-back", "write-through", "b-tree", "hash", "trie",
              "ring", "range", "joins"}
  /\ part # "b-tree" => ~btRemoves

CacheStep ==
  \/ part = "lru" /\ LruNext /\ UNCHANGED <<lfuVars, wbVars, wtVars>>
  \/ part = "lfu" /\ LfuNext /\ UNCHANGED <<lruVars, wbVars, wtVars>>
  \/ part = "write-back" /\ WbNext /\ UNCHANGED <<lruVars, lfuVars, wtVars>>
  \/ part = "write-through" /\ WtNext /\ UNCHANGED <<lruVars, lfuVars, wbVars>>

IndexStep ==
  \/ part = "b-tree" /\ BtNext /\ UNCHANGED <<hiVars, trVars>>
  \/ part = "hash" /\ HiNext /\ UNCHANGED <<btVars, trVars>>
  \/ part = "trie" /\ TrNext /\ UNCHANGED <<btVars, hiVars>>

PlaceStep ==
  \/ part = "ring" /\ ChNext /\ UNCHANGED <<rsVars, jnVars>>
  \/ part = "range" /\ RsNext /\ UNCHANGED <<chVars, jnVars>>
  \/ part = "joins" /\ JnNext /\ UNCHANGED <<chVars, rsVars>>

MCNext ==
  /\ UNCHANGED part
  /\ \/ part = "pool" /\ Next /\ UNCHANGED <<cacheVars, indexVars, placeVars>>
     \/ CacheStep /\ UNCHANGED <<vars, indexVars, placeVars>>
     \/ IndexStep /\ UNCHANGED <<vars, cacheVars, placeVars>>
     \/ PlaceStep /\ UNCHANGED <<vars, cacheVars, indexVars>>

MCSpec == MCInit /\ [][MCNext]_mcVars

\* The map a cache stands for.
cacheContents == CASE part = "lru" -> lruCache
                   [] part = "lfu" -> lfuValue
                   [] part = "write-back" -> wbContents
                   [] OTHER -> wtContents

Abs == INSTANCE Cache WITH contents <- cacheContents

\* Each of the four caches is a bounded map: get and flush change no value, put
\* sets its key and costs at most one other key its place, only when it has to.
ImplementsCache == Abs!CacheSpec
=============================================================================
