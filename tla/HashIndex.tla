----------------------------- MODULE HashIndex -----------------------------
(***************************************************************************)
(* indexing/hash_index/hash_index.cpp.  insert, find and remove work on    *)
(* one bucket under its mutex and are one step; resize takes no lock and   *)
(* is called while nothing else is under way.  A bucket is a map: the      *)
(* order in its list is not observable.  The vector of mutexes keeps its   *)
(* first size, so that after a growth an operation may lock memory past    *)
(* its end: it goes on as if nothing were wrong, or the process is lost.   *)
(***************************************************************************)
EXTENDS Integers

CONSTANTS HiKey, HiValue,
          hashFunc,     \* key -> natural number
          Sizes,        \* the bucket counts used, the first one included
          FirstSize     \* numBuckets at construction

VARIABLES buckets,      \* the buckets 0 .. numBuckets - 1
          numBuckets,
          hiLost,       \* the process was lost
          hiMap         \* what was inserted and not removed: key -> value

hiVars == <<buckets, numBuckets, hiLost, hiMap>>

HiInit ==
  /\ buckets = [i \in 0 .. FirstSize - 1 |-> <<>>] /\ numBuckets = FirstSize
  /\ hiLost = FALSE /\ hiMap = <<>>

-----------------------------------------------------------------------------
HiSet(map, k, v) == [x \in DOMAIN map \cup {k} |-> IF x = k THEN v ELSE map[x]]
HiDrop(map, k) == [x \in DOMAIN map \ {k} |-> map[x]]
BucketOf(k) == hashFunc[k] % numBuckets

\* An operation on bucket i sets it to b, or locks what is not a mutex.
OnBucket(i, b) ==
  /\ ~hiLost
  /\ \/ buckets' = [buckets EXCEPT ![i] = b] /\ UNCHANGED hiLost
     \/ i >= FirstSize /\ hiLost' = TRUE /\ UNCHANGED buckets
  /\ UNCHANGED numBuckets

hiInsert(k, v) ==
  /\ OnBucket(BucketOf(k), HiSet(buckets[BucketOf(k)], k, v))
  /\ hiMap' = HiSet(hiMap, k, v)

hiRemove(k) ==
  /\ OnBucket(BucketOf(k), HiDrop(buckets[BucketOf(k)], k))
  /\ hiMap' = HiDrop(hiMap, k)

OldPlace(k, size) == hashFunc[k] % numBuckets
NewPlace(k, size) == hashFunc[k] % size
\* All entries go to the bucket their hash has with the new size.
resize(size) ==
  LET keys == UNION {DOMAIN buckets[i] : i \in 0 .. numBuckets - 1}
      entry(k) == buckets[CHOOSE i \in 0 .. numBuckets - 1 : k \in DOMAIN buckets[i]][k]
  IN  /\ ~hiLost
      /\ buckets' = [j \in 0 .. size - 1 |-> [k \in {x \in keys : NewPlace(x, size) = j} |-> entry(k)]]
      /\ numBuckets' = size
      /\ UNCHANGED <<hiLost, hiMap>>

HiNext ==
  \/ \E k \in HiKey : (\E v \in HiValue : hiInsert(k, v)) \/ hiRemove(k)
  \/ \E size \in Sizes : resize(size)

-----------------------------------------------------------------------------
\* As long as the process lives, find returns the value last inserted for a key
\* and finds no key that was removed, however often and to whatever size the
\* index was resized, and no bucket keeps an entry that find cannot reach.
FindIsExact ==
  ~hiLost =>
    /\ \A k \in HiKey : LET b == buckets[BucketOf(k)]
                        IN  /\ k \in DOMAIN b <=> k \in DOMAIN hiMap
                            /\ k \in DOMAIN b => b[k] = hiMap[k]
    /\ \A i \in 0 .. numBuckets - 1 : \A k \in DOMAIN buckets[i] : BucketOf(k) = i
=============================================================================
