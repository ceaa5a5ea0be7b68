---------------------------- MODULE RangeSharding ----------------------------
(***************************************************************************)
(* distributed_systems/sharding/range_sharding.cpp.  Ranges may overlap    *)
(* and may be added at any time.                                           *)
(***************************************************************************)
EXTENDS Integers, Sequences

CONSTANTS RsKey, RsValue,
          RsRange,      \* the ranges asked for: [min_range, max_range]
          MaxShards     \* bound: shards added

VARIABLES shards,       \* [range, storage]; storage is a map
          rsMap         \* what was accepted and not removed: key -> value

rsVars == <<shards, rsMap>>

RsInit == shards = <<>> /\ rsMap = <<>>

-----------------------------------------------------------------------------
RsSet(map, k, v) == [x \in DOMAIN map \cup {k} |-> IF x = k THEN v ELSE map[x]]
RsDrop(map, k) == [x \in DOMAIN map \ {k} |-> map[x]]

can_accept(shard, k) == k >= shard.range.min_range /\ k <= shard.range.max_range
Accepting(k) == {i \in DOMAIN shards : can_accept(shards[i], k)}
\* The loops of insert, retrieve and remove stop at the first shard that accepts.
ShardOf(k) == CHOOSE i \in Accepting(k) : \A j \in Accepting(k) : i <= j

AddedFirst(shard) == <<shard>> \o shards
AddedLast(shard) == Append(shards, shard)
add_shard(r) ==
  /\ Len(shards) < MaxShards
  /\ shards' = AddedLast([range |-> r, storage |-> <<>>])
  /\ UNCHANGED rsMap

\* A key that no shard accepts is reported and dropped.
rsInsert(k, v) ==
  /\ Accepting(k) # {}
  /\ shards' = [shards EXCEPT ![ShardOf(k)].storage = RsSet(@, k, v)]
  /\ rsMap' = RsSet(rsMap, k, v)

rsRemove(k) ==
  /\ Accepting(k) # {}
  /\ shards' = [shards EXCEPT ![ShardOf(k)].storage = RsDrop(@, k)]
  /\ rsMap' = RsDrop(rsMap, k)

RsNext ==
  \/ \E r \in RsRange : add_shard(r)
  \/ \E k \in RsKey : (\E v \in RsValue : rsInsert(k, v)) \/ rsRemove(k)

-----------------------------------------------------------------------------
\* Shards that overlap and that are added after keys were stored hide none of
\* them and bring no removed one back: retrieve looks where insert has put a key,
\* and no other shard has it.
RetrieveIsExact ==
  \A k \in RsKey :
    IF k \in DOMAIN rsMap
    THEN /\ {i \in DOMAIN shards : k \in DOMAIN shards[i].storage} = {ShardOf(k)}
         /\ shards[ShardOf(k)].storage[k] = rsMap[k]
    ELSE \A i \in DOMAIN shards : k \notin DOMAIN shards[i].storage
=============================================================================
