---------------------- MODULE TimestampOrderingProofs ----------------------
(***************************************************************************)
(* Timestamp ordering orders conflicting operations, for any number of     *)
(* transactions and items, any timestamps and histories of any length.     *)
(***************************************************************************)
EXTENDS TimestampOrdering, SequenceTheorems, TLAPS

USE TimestampAssumption

Item == [read_ts : Nat, write_ts : Nat]
Step == [op : {"read", "write"}, item : ToItem, ts : Nat]

ToTypeOK ==
  /\ \A d \in DOMAIN data_items : data_items[d] \in Item
  /\ \A x \in DOMAIN toActive : toActive[x] \in Nat
  /\ toHistory \in Seq(Step)

\* The two timestamps of an item bound those of the reads and the writes of it:
\* comparing with them is comparing with the whole history.
StampsBound ==
  \A i \in DOMAIN toHistory :
    LET h == toHistory[i]
    IN  /\ h.item \in DOMAIN data_items
        /\ h.op = "read" => h.ts <= data_items[h.item].read_ts
        /\ h.op = "write" => h.ts <= data_items[h.item].write_ts

ToIInv == ToTypeOK /\ StampsBound /\ TimestampOrder

\* An operation at time ts on item d is added to the history: the item's stamps
\* may only grow, the operation's own stamp reaches ts, and no conflicting
\* operation has a stamp above ts.
LEMMA ExecutedStep ==
  ASSUME ToIInv, NEW op \in {"read", "write"}, NEW d \in ToItem, NEW ts \in Nat, NEW new \in Item,
         Executed(op, d, ts), toActive' = toActive,
         data_items' = At(data_items, d, new),
         d \in DOMAIN data_items => /\ data_items[d].read_ts <= new.read_ts
                                    /\ data_items[d].write_ts <= new.write_ts
                                    /\ data_items[d].write_ts <= ts
                                    /\ op = "write" => data_items[d].read_ts <= ts,
         op = "read" => ts <= new.read_ts,
         op = "write" => ts <= new.write_ts
  PROVE  ToIInv'
<1> DEFINE e == [op |-> op, item |-> d, ts |-> ts]
           N == Len(toHistory)
<1>1. toHistory \in Seq(Step) /\ e \in Step /\ toHistory' = Append(toHistory, e)
  BY DEF ToIInv, ToTypeOK, Step, Executed
<1>2. /\ toHistory' \in Seq(Step) /\ N \in Nat
      /\ DOMAIN toHistory = 1 .. N /\ DOMAIN toHistory' = 1 .. N + 1
      /\ \A i \in 1 .. N : toHistory'[i] = toHistory[i]
      /\ toHistory'[N + 1] = e
  BY <1>1, AppendProperties, LenProperties
<1>3. \A i \in 1 .. N : toHistory[i] \in Step
  BY <1>1, <1>2, ElementOfSeq
<1>4. DOMAIN data_items' = DOMAIN data_items \cup {d} /\ data_items'[d] = new
      /\ \A y \in DOMAIN data_items : y # d => data_items'[y] = data_items[y]
  BY DEF At
<1>5. ToTypeOK'
  BY <1>2, <1>4 DEF ToIInv, ToTypeOK
<1>6. \A y \in DOMAIN data_items : /\ data_items[y].read_ts <= data_items'[y].read_ts
                                   /\ data_items[y].write_ts <= data_items'[y].write_ts
                                   /\ data_items[y].read_ts \in Nat /\ data_items[y].write_ts \in Nat
                                   /\ data_items'[y].read_ts \in Nat /\ data_items'[y].write_ts \in Nat
  <2> SUFFICES ASSUME NEW y \in DOMAIN data_items
               PROVE  /\ data_items[y].read_ts <= data_items'[y].read_ts
                      /\ data_items[y].write_ts <= data_items'[y].write_ts
                      /\ data_items[y].read_ts \in Nat /\ data_items[y].write_ts \in Nat
                      /\ data_items'[y].read_ts \in Nat /\ data_items'[y].write_ts \in Nat
    OBVIOUS
  <2>1. data_items[y] \in Item
    BY DEF ToIInv, ToTypeOK
  <2>2. CASE y = d
    BY <1>4, <2>1, <2>2 DEF Item
  <2>3. CASE y # d
    BY <1>4, <2>1, <2>3 DEF Item
  <2> QED
    BY <2>2, <2>3
<1>7. StampsBound'
  <2> SUFFICES ASSUME NEW i \in 1 .. N + 1
               PROVE  /\ toHistory'[i].item \in DOMAIN data_items'
                      /\ toHistory'[i].op = "read" => toHistory'[i].ts <= data_items'[toHistory'[i].item].read_ts
                      /\ toHistory'[i].op = "write" => toHistory'[i].ts <= data_items'[toHistory'[i].item].write_ts
    BY <1>2 DEF StampsBound
  <2>1. CASE i \in 1 .. N
    <3> DEFINE h == toHistory[i]
    <3>1. /\ h \in Step /\ h.item \in DOMAIN data_items
          /\ h.op = "read" => h.ts <= data_items[h.item].read_ts
          /\ h.op = "write" => h.ts <= data_items[h.item].write_ts
      BY <1>2, <1>3, <2>1 DEF ToIInv, StampsBound
    <3>2. h.ts \in Nat
      BY <3>1 DEF Step
    <3> HIDE DEF h
    <3>3. toHistory'[i] = h
      BY <1>2, <2>1 DEF h
    <3> QED
      BY <1>4, <1>6, <3>1, <3>2, <3>3, SMTT(30)
  <2>2. CASE i = N + 1
    BY <1>2, <1>4, <2>2
  <2> QED
    BY <1>2, <2>1, <2>2
<1>8. TimestampOrder'
  <2> SUFFICES ASSUME NEW i \in 1 .. N + 1, NEW j \in 1 .. N + 1,
                      i < j, toHistory'[i].item = toHistory'[j].item,
                      "write" \in {toHistory'[i].op, toHistory'[j].op}
               PROVE  toHistory'[i].ts <= toHistory'[j].ts
    BY <1>2 DEF TimestampOrder
  <2>1. i \in 1 .. N
    BY <1>2
  <2>2. CASE j \in 1 .. N
    BY <1>2, <2>1, <2>2 DEF ToIInv, TimestampOrder
  <2>3. CASE j = N + 1
    <3> DEFINE h == toHistory[i]
    <3>1. /\ h \in Step /\ h.item \in DOMAIN data_items
          /\ h.op = "read" => h.ts <= data_items[h.item].read_ts
          /\ h.op = "write" => h.ts <= data_items[h.item].write_ts
      BY <1>2, <1>3, <2>1 DEF ToIInv, StampsBound
    <3>2. h.ts \in Nat /\ h.op \in {"read", "write"}
      BY <3>1 DEF Step
    <3> HIDE DEF h
    <3>3. toHistory'[i] = h /\ toHistory'[j] = e
      BY <1>2, <2>1, <2>3 DEF h
    <3>4. h.item = d /\ "write" \in {h.op, op}
      BY <3>3
    <3>5. d \in DOMAIN data_items /\ data_items[d].read_ts \in Nat /\ data_items[d].write_ts \in Nat
      BY <1>6, <3>1, <3>4
    <3>6. h.ts <= ts
      <4>1. CASE h.op = "write"
        BY <3>1, <3>2, <3>4, <3>5, <4>1
      <4>2. CASE h.op = "read"
        BY <3>1, <3>2, <3>4, <3>5, <4>2
      <4> QED
        BY <3>2, <4>1, <4>2
    <3> QED
      BY <3>3, <3>6
  <2> QED
    BY <1>2, <2>2, <2>3
<1> QED
  BY <1>5, <1>7, <1>8 DEF ToIInv

\* A read.
LEMMA ReadStep ==
  ASSUME ToIInv, NEW x \in ToTxn, NEW d \in ToItem, to_read(x, d)
  PROVE  ToIInv'
<1> DEFINE ts == toActive[x]
           old == data_items[d]
           new == [old EXCEPT !.read_ts = Larger(old.read_ts, ts)]
<1>1. d \in DOMAIN data_items /\ toActive' = toActive
  BY DEF to_read
<1>2. ts \in Nat /\ old \in Item
  BY <1>1 DEF to_read, ToIInv, ToTypeOK
<1>3. CASE ts < old.write_ts /\ AbortLocked /\ data_items' = data_items
  BY <1>1, <1>3 DEF AbortLocked, ToIInv, ToTypeOK, StampsBound, TimestampOrder
<1>4. CASE /\ ts >= old.write_ts /\ Executed("read", d, ts)
           /\ data_items' = [data_items EXCEPT ![d].read_ts = Larger(@, ts)]
  <2>1. /\ new \in Item /\ old.read_ts <= new.read_ts /\ old.write_ts <= new.write_ts
        /\ old.write_ts <= ts /\ ts <= new.read_ts
    BY <1>2, <1>4 DEF Larger, Item
  <2>2. data_items' = At(data_items, d, new)
    BY <1>1, <1>4 DEF At
  <2> HIDE DEF new
  <2> QED
    BY <1>1, <1>2, <1>4, <2>1, <2>2, ExecutedStep
<1> QED
  BY <1>3, <1>4 DEF to_read

\* A write, the one that creates its item included.
LEMMA WriteStep ==
  ASSUME ToIInv, NEW x \in ToTxn, NEW d \in ToItem, to_write(x, d)
  PROVE  ToIInv'
<1> DEFINE ts == toActive[x]
           old == IF d \in DOMAIN data_items THEN data_items[d] ELSE [read_ts |-> 0, write_ts |-> 0]
           new == [old EXCEPT !.write_ts = Larger(@, ts)]
<1>1. toActive' = toActive
  BY DEF to_write
<1>2. ts \in Nat /\ old \in Item
  BY DEF to_write, ToIInv, ToTypeOK, Item
<1>3. \/ LateWrite(ts, old) /\ AbortLocked /\ data_items' = At(data_items, d, old)
      \/ ~LateWrite(ts, old) /\ data_items' = At(data_items, d, new) /\ Executed("write", d, ts)
  BY DEF to_write
<1>4. d \in DOMAIN data_items => old = data_items[d]
  OBVIOUS
<1>5. /\ new \in Item /\ old.read_ts <= new.read_ts /\ old.write_ts <= new.write_ts /\ ts <= new.write_ts
  BY <1>2 DEF Larger, Item
<1>6. ~LateWrite(ts, old) => old.read_ts <= ts /\ old.write_ts <= ts
  BY <1>2 DEF LateWrite, Item
<1> HIDE DEF old, new
<1>7. CASE AbortLocked /\ data_items' = At(data_items, d, old)
  <2>1. toHistory' = toHistory
    BY <1>7 DEF AbortLocked
  <2>2. DOMAIN data_items' = DOMAIN data_items \cup {d} /\ data_items'[d] \in Item
        /\ \A y \in DOMAIN data_items : data_items'[y] = data_items[y]
    BY <1>2, <1>4, <1>7 DEF At
  <2>3. ToTypeOK'
    BY <1>1, <2>1, <2>2 DEF ToIInv, ToTypeOK
  <2>4. StampsBound'
    BY <2>1, <2>2 DEF ToIInv, StampsBound
  <2>5. TimestampOrder'
    BY <2>1 DEF ToIInv, TimestampOrder
  <2> QED
    BY <2>3, <2>4, <2>5 DEF ToIInv
<1>8. CASE ~LateWrite(ts, old) /\ data_items' = At(data_items, d, new) /\ Executed("write", d, ts)
  BY <1>1, <1>2, <1>4, <1>5, <1>6, <1>8, ExecutedStep
<1> QED
  BY <1>3, <1>7, <1>8

\* Conflicting operations are carried out in the order of their timestamps.
THEOREM ConflictsOrdered == ToSpec => []TimestampOrder
<1>1. ToInit => ToIInv
  BY DEF ToInit, ToIInv, ToTypeOK, StampsBound, TimestampOrder
<1>2. ToIInv /\ [ToNext]_toVars => ToIInv'
  <2> SUFFICES ASSUME ToIInv, [ToNext]_toVars PROVE ToIInv'
    OBVIOUS
  <2>1. CASE UNCHANGED toVars
    <3>1. data_items' = data_items /\ toActive' = toActive /\ toHistory' = toHistory
      BY <2>1 DEF toVars
    <3> QED
      BY <3>1 DEF ToIInv, ToTypeOK, StampsBound, TimestampOrder
  <2>2. ASSUME NEW x \in ToTxn, NEW ts \in Timestamp, to_begin_transaction(x, ts) PROVE ToIInv'
    <3>1. data_items' = data_items /\ toActive' = At(toActive, x, ts) /\ toHistory' = toHistory
      BY <2>2 DEF to_begin_transaction
    <3>2. \A y \in DOMAIN toActive' : toActive'[y] \in Nat
      BY <3>1 DEF At, ToIInv, ToTypeOK
    <3> QED
      BY <3>1, <3>2 DEF ToIInv, ToTypeOK, StampsBound, TimestampOrder
  <2>3. ASSUME NEW x \in ToTxn, EndTransaction(x) PROVE ToIInv'
    <3>1. data_items' = data_items /\ toActive' = Without(toActive, x) /\ toHistory' = toHistory
      BY <2>3 DEF EndTransaction
    <3>2. \A y \in DOMAIN toActive' : toActive'[y] \in Nat
      BY <3>1 DEF Without, ToIInv, ToTypeOK
    <3> QED
      BY <3>1, <3>2 DEF ToIInv, ToTypeOK, StampsBound, TimestampOrder
  <2> QED
    BY <2>1, <2>2, <2>3, ReadStep, WriteStep DEF ToNext
<1>3. ToIInv => TimestampOrder
  BY DEF ToIInv
<1> QED
  BY <1>1, <1>2, <1>3, PTL DEF ToSpec
=============================================================================
