--------------------------- MODULE IsolationLevels ---------------------------
(***************************************************************************)
(* transactions/isolation_levels.cpp: the Database and its Transactions,   *)
(* whose calls come from one thread, interleaved in any way.  A            *)
(* transaction writes its own serial number, so that a value tells who     *)
(* wrote it; 0 is what the constructor put there.                          *)
(***************************************************************************)
EXTENDS Integers, Sequences

CONSTANTS IsId, IsKey,  \* transaction ids and keys
          IsPresent,    \* the keys the constructor puts into the data
          MaxSerial,    \* bound: transactions begun
          MaxAccesses   \* bound: reads and writes of a transaction

Level == {"READ_UNCOMMITTED", "READ_COMMITTED", "REPEATABLE_READ", "SERIALIZABLE"}
WriteThrough == {"READ_UNCOMMITTED", "READ_COMMITTED"}

VARIABLES isData,       \* key -> value of the keys present
          isTxns,       \* the vector active_transactions; two may have one id
          isSerial,     \* transactions begun so far
          isCommitted,  \* serials whose commit returned
          isThrough     \* serials of transactions that write to the data at once

isVars == <<isData, isTxns, isSerial, isCommitted, isThrough>>

IsInit ==
  /\ isData = [k \in IsPresent |-> 0] /\ isTxns = <<>> /\ isSerial = 0
  /\ isCommitted = {} /\ isThrough = {0}

-----------------------------------------------------------------------------
\* get_transaction: the first one with the id; without one it throws.
get_transaction(id) ==
  CHOOSE i \in DOMAIN isTxns :
    isTxns[i].id = id /\ \A j \in 1 .. i - 1 : isTxns[j].id # id
Known(id) == \E i \in DOMAIN isTxns : isTxns[i].id = id

is_begin_transaction(id, level) ==
  /\ isSerial < MaxSerial
  /\ isSerial' = isSerial + 1
  /\ isTxns' = Append(isTxns, [id |-> id, level |-> level, serial |-> isSerial + 1,
                               local |-> <<>>, accesses |-> <<>>])
  /\ isThrough' = IF level \in WriteThrough THEN isThrough \cup {isSerial + 1} ELSE isThrough
  /\ UNCHANGED <<isData, isCommitted>>

AlwaysGlobal(txn, k) == isData[k]
\* What read returns: the two upper levels keep a copy of what they have read.
ReadValue(txn, k) == IF k \in DOMAIN txn.local THEN txn.local[k] ELSE isData[k]

SetAt(map, k, v) == [y \in DOMAIN map \cup {k} |-> IF y = k THEN v ELSE map[y]]

\* A key that is not there makes at() throw.
is_read(id, k) ==
  /\ Known(id)
  /\ LET i == get_transaction(id)
         v == ReadValue(isTxns[i], k)
     IN  /\ k \in DOMAIN isData \cup DOMAIN isTxns[i].local
         /\ Len(isTxns[i].accesses) < MaxAccesses
         /\ isTxns' =
              [isTxns EXCEPT ![i].accesses = Append(@, [op |-> "read", key |-> k, value |-> v]),
                             ![i].local = IF isTxns[i].level \in WriteThrough THEN @
                                          ELSE SetAt(@, k, v)]
  /\ UNCHANGED <<isData, isSerial, isCommitted, isThrough>>

AllAtOnce(txn) == TRUE
ToGlobal(txn) == txn.level \in WriteThrough
is_write(id, k) ==
  /\ Known(id)
  /\ LET i == get_transaction(id)
         txn == isTxns[i]
         done == Append(txn.accesses, [op |-> "write", key |-> k, value |-> txn.serial])
     IN  /\ Len(txn.accesses) < MaxAccesses
         /\ IF ToGlobal(txn)
            THEN /\ isData' = SetAt(isData, k, txn.serial)
                 /\ isTxns' = [isTxns EXCEPT ![i].accesses = done]
            ELSE /\ isTxns' = [isTxns EXCEPT ![i].accesses = done,
                                             ![i].local = SetAt(@, k, txn.serial)]
                 /\ UNCHANGED isData
  /\ UNCHANGED <<isSerial, isCommitted, isThrough>>

\* remove_transaction: all with the id, the one that was looked up or not.
remove_transaction(id) == SelectSeq(isTxns, LAMBDA t : t.id # id)

\* All of local_data is copied, what was only read too.
is_commit_transaction(id) ==
  /\ Known(id)
  /\ LET txn == isTxns[get_transaction(id)]
     IN  /\ isData' = [k \in DOMAIN isData \cup DOMAIN txn.local |->
                         IF k \in DOMAIN txn.local THEN txn.local[k] ELSE isData[k]]
         /\ isCommitted' = isCommitted \cup {txn.serial}
  /\ isTxns' = remove_transaction(id)
  /\ UNCHANGED <<isSerial, isThrough>>

is_rollback_transaction(id) ==
  /\ Known(id)
  /\ isTxns' = remove_transaction(id)
  /\ UNCHANGED <<isData, isSerial, isCommitted, isThrough>>

IsNext ==
  \E id \in IsId : \/ \E level \in Level : is_begin_transaction(id, level)
                   \/ \E k \in IsKey : is_read(id, k) \/ is_write(id, k)
                   \/ is_commit_transaction(id)
                   \/ is_rollback_transaction(id)

-----------------------------------------------------------------------------
\* Under REPEATABLE_READ and SERIALIZABLE a read returns what the transaction
\* last read from the key or wrote to it, whatever the others write and commit
\* in the meantime.
RepeatableReads ==
  \A n \in DOMAIN isTxns : isTxns[n].level \notin WriteThrough =>
    LET a == isTxns[n].accesses
    IN  \A i, j \in DOMAIN a :
          /\ i < j /\ a[i].key = a[j].key /\ a[j].op = "read"
          /\ \A m \in i + 1 .. j - 1 : a[m].key # a[i].key
          => a[i].value = a[j].value

\* What a transaction under REPEATABLE_READ or SERIALIZABLE has written is seen
\* by others only after its commit: a rollback, of it or of another transaction
\* with its id, leaves no trace in the data or in what anyone has read.
UncommittedUnseen ==
  LET visible == isCommitted \cup isThrough
  IN  /\ \A k \in DOMAIN isData : isData[k] \in visible
      /\ \A n \in DOMAIN isTxns : \A i \in DOMAIN isTxns[n].accesses :
           isTxns[n].accesses[i].value \in visible \cup {isTxns[n].serial}
=============================================================================
