-------------------------- MODULE TimestampOrdering --------------------------
(***************************************************************************)
(* transactions/concurrency_control/timestamp_ordering.cpp.  Every method  *)
(* runs under mtx and is one step.  The caller supplies the timestamps.  A *)
(* read or a write that comes too late calls abort_transaction, which      *)
(* locks mtx a second time: the call never returns and no other one gets   *)
(* in, so that nothing happens afterwards.  Values are left out: what a    *)
(* read returns is the last write in toHistory.                            *)
(***************************************************************************)
EXTENDS Integers, Sequences

CONSTANTS ToTxn, ToItem, Timestamp,
          MaxHistory    \* bound: reads and writes that succeeded

ASSUME TimestampAssumption == Timestamp \subseteq Nat

VARIABLES data_items,   \* item -> [read_ts, write_ts] of the items that exist
          toActive,     \* transaction -> start_ts of the active ones
          toHung,       \* a call holds mtx for ever
          toHistory     \* reads and writes that returned true: [op, item, ts]

toVars == <<data_items, toActive, toHung, toHistory>>

ToInit == data_items = <<>> /\ toActive = <<>> /\ toHung = FALSE /\ toHistory = <<>>

-----------------------------------------------------------------------------
At(f, x, v) == [y \in DOMAIN f \cup {x} |-> IF y = x THEN v ELSE f[y]]
Without(f, x) == [y \in DOMAIN f \ {x} |-> f[y]]
Larger(a, b) == IF a < b THEN b ELSE a

Executed(op, d, ts) ==
  /\ Len(toHistory) < MaxHistory
  /\ toHistory' = Append(toHistory, [op |-> op, item |-> d, ts |-> ts])
  /\ UNCHANGED toHung

\* abort_transaction called with mtx held.
AbortLocked == toHung' = TRUE /\ UNCHANGED toHistory

\* A transaction that is active keeps its timestamp.
to_begin_transaction(x, ts) ==
  /\ ~toHung /\ x \notin DOMAIN toActive
  /\ toActive' = At(toActive, x, ts)
  /\ UNCHANGED <<data_items, toHung, toHistory>>

to_read(x, d) ==
  /\ ~toHung /\ x \in DOMAIN toActive /\ d \in DOMAIN data_items
  /\ \/ /\ toActive[x] < data_items[d].write_ts
        /\ AbortLocked
        /\ UNCHANGED data_items
     \/ /\ toActive[x] >= data_items[d].write_ts
        /\ data_items' = [data_items EXCEPT ![d].read_ts = Larger(@, toActive[x])]
        /\ Executed("read", d, toActive[x])
  /\ UNCHANGED toActive

IgnoreReads(ts, item) == ts < item.write_ts
LateWrite(ts, item) == ts < item.read_ts \/ ts < item.write_ts
\* The first write of an item creates it.
to_write(x, d) ==
  /\ ~toHung /\ x \in DOMAIN toActive
  /\ LET item == IF d \in DOMAIN data_items THEN data_items[d] ELSE [read_ts |-> 0, write_ts |-> 0]
     IN  \/ /\ LateWrite(toActive[x], item)
            /\ AbortLocked
            /\ data_items' = At(data_items, d, item)
         \/ /\ ~LateWrite(toActive[x], item)
            /\ data_items' =
                 At(data_items, d, [item EXCEPT !.write_ts = Larger(@, toActive[x])])
            /\ Executed("write", d, toActive[x])
  /\ UNCHANGED toActive

\* commit_transaction, and abort_transaction called from outside: neither
\* touches the items.
EndTransaction(x) ==
  /\ ~toHung /\ x \in DOMAIN toActive
  /\ toActive' = Without(toActive, x)
  /\ UNCHANGED <<data_items, toHung, toHistory>>

ToNext ==
  \E x \in ToTxn : \/ \E ts \in Timestamp : to_begin_transaction(x, ts)
                   \/ \E d \in ToItem : to_read(x, d) \/ to_write(x, d)
                   \/ EndTransaction(x)

ToSpec == ToInit /\ [][ToNext]_toVars

-----------------------------------------------------------------------------
\* Conflicting operations that were carried out, on whatever interleaving of
\* transactions that come, end and start again with other timestamps, were
\* carried out in the order of their transactions' timestamps.  Those of equal
\* timestamps may come in any order: nothing makes timestamps unique.
TimestampOrder ==
  \A i, j \in DOMAIN toHistory :
    /\ i < j
    /\ toHistory[i].item = toHistory[j].item
    /\ "write" \in {toHistory[i].op, toHistory[j].op}
    => toHistory[i].ts <= toHistory[j].ts
=============================================================================
