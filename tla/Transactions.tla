---------------------------- MODULE Transactions ----------------------------
(***************************************************************************)
(* transactions/transactions.cpp: TransactionManager with its              *)
(* ConcurrencyControl.  Every public method runs under tx_mutex and is one *)
(* step.  A commit that fails calls abortTransaction, which locks tx_mutex *)
(* a second time: nothing happens afterwards.  The write set is a member   *)
(* the file uses and does not declare; it is chosen when a transaction     *)
(* begins.                                                                 *)
(***************************************************************************)
EXTENDS Integers, Sequences

CONSTANTS Resource,
          MaxWriteSet,  \* bound: length of a write set
          MaxTx         \* bound: transactions begun

VARIABLES active_transactions,  \* id -> write set
          next_id,
          locked_resources,
          tmLog,                \* what went to the log: [type, tx]
          tmHung                \* the write set whose commit failed, if one did

tmVars == <<active_transactions, next_id, locked_resources, tmLog, tmHung>>

TmInit ==
  /\ active_transactions = <<>> /\ next_id = 0 /\ locked_resources = {}
  /\ tmLog = <<>> /\ tmHung = {}

WriteSets == UNION {[1 .. n -> Resource] : n \in 0 .. MaxWriteSet}

-----------------------------------------------------------------------------
Members(ws) == {ws[i] : i \in DOMAIN ws}
KeepLast(locked, ws) == locked \ Members(SubSeq(ws, 1, Len(ws) - 1))
releaseLocks(locked, ws) == locked \ Members(ws)
\* lockResource for one after the other fails at one that is locked already, by
\* an earlier place of the same write set or by somebody else.
AllLocked(ws) ==
  \A i \in DOMAIN ws : ws[i] \notin locked_resources /\ \A j \in 1 .. i - 1 : ws[j] # ws[i]

cleanupTransaction(x) == [y \in DOMAIN active_transactions \ {x} |-> active_transactions[y]]

tmBegin(ws) ==
  /\ tmHung = {} /\ next_id < MaxTx
  /\ next_id' = next_id + 1
  /\ active_transactions' = [y \in DOMAIN active_transactions \cup {next_id + 1} |->
                               IF y = next_id + 1 THEN ws ELSE active_transactions[y]]
  /\ tmLog' = Append(tmLog, [type |-> "begin", tx |-> next_id + 1])
  /\ UNCHANGED <<locked_resources, tmHung>>

commitTransactionTm(x) ==
  LET ws == active_transactions[x] IN
  /\ tmHung = {}
  /\ \/ /\ AllLocked(ws)
        /\ locked_resources' = releaseLocks(locked_resources \cup Members(ws), ws)
        /\ tmLog' = Append(tmLog, [type |-> "commit", tx |-> x])
        /\ active_transactions' = cleanupTransaction(x)
        /\ UNCHANGED tmHung
     \/ /\ ~AllLocked(ws)
        /\ locked_resources' = releaseLocks(locked_resources, ws)
        /\ tmHung' = {ws}
        /\ UNCHANGED <<tmLog, active_transactions>>
  /\ UNCHANGED next_id

abortTransactionTm(x) ==
  /\ tmHung = {}
  /\ tmLog' = Append(tmLog, [type |-> "abort", tx |-> x])
  /\ locked_resources' = releaseLocks(locked_resources, active_transactions[x])
  /\ active_transactions' = cleanupTransaction(x)
  /\ UNCHANGED <<next_id, tmHung>>

\* The transaction stays in the table.
rollbackTransaction(x) ==
  /\ tmHung = {} /\ Len(tmLog) < 3 * MaxTx
  /\ tmLog' = Append(tmLog, [type |-> "rollback", tx |-> x])
  /\ locked_resources' = releaseLocks(locked_resources, active_transactions[x])
  /\ UNCHANGED <<active_transactions, next_id, tmHung>>

TmNext ==
  \/ \E ws \in WriteSets : tmBegin(ws)
  \/ \E x \in DOMAIN active_transactions :
       commitTransactionTm(x) \/ abortTransactionTm(x) \/ rollbackTransaction(x)

-----------------------------------------------------------------------------
\* A commit fails, and blocks the manager, only because of the write set itself,
\* when that names a resource twice: no call before it, failed, rolled back or
\* repeated, leaves a lock behind.
FailsOnlyOnDuplicates ==
  \A ws \in tmHung : \E i, j \in DOMAIN ws : i # j /\ ws[i] = ws[j]
=============================================================================
