--------------------------- MODULE LogFileManager ---------------------------
(***************************************************************************)
(* storage/disk_storage/log_file_manager.cpp: client threads that begin    *)
(* transactions, log records and end transactions, the flusher thread, and *)
(* main, which starts and stops the flusher.  logRecord writes with        *)
(* std::endl, so that the record is in the file and in pendingLogs_ when   *)
(* it returns; both get the same records in the same critical section and  *)
(* lfmLog stands for both.  commitTransaction, abortTransaction and        *)
(* checkpoint lock logMutex_ and call logRecord, which locks it again: the *)
(* thread stays there and keeps the mutex.                                 *)
(***************************************************************************)
EXTENDS Integers, Sequences, FiniteSets

CONSTANTS LfmThread,    \* client threads
          NoThread,
          MaxLog        \* bound: records in the log

VARIABLES lfmLog,       \* the records: [tx, type]
          nextTxId,
          txMutex,      \* the thread that has txMutex_
          lfmTxId,      \* thread -> the id it has drawn and not logged yet, or 0
          lfmHung,      \* the thread that locked logMutex_ twice
          flusher,      \* the flusher thread: where it is in its loop
          stopFlushing

lfmVars == <<lfmLog, nextTxId, txMutex, lfmTxId, lfmHung, flusher, stopFlushing>>

LfmInit ==
  /\ lfmLog = <<>> /\ nextTxId = 1 /\ txMutex = NoThread
  /\ lfmTxId = [c \in LfmThread |-> 0]
  /\ lfmHung = NoThread /\ flusher = "idle" /\ stopFlushing = FALSE

logMutexFree == lfmHung = NoThread
Idle(c) == lfmTxId[c] = 0 /\ lfmHung # c

-----------------------------------------------------------------------------
GivesBack(c) == NoThread
HoldsTxMutex(c) == c
\* beginTransaction draws an id under txMutex_ ...
beginTransaction(c) ==
  /\ Idle(c) /\ txMutex = NoThread
  /\ txMutex' = HoldsTxMutex(c)
  /\ lfmTxId' = [lfmTxId EXCEPT ![c] = nextTxId]
  /\ nextTxId' = nextTxId + 1
  /\ UNCHANGED <<lfmLog, lfmHung, flusher, stopFlushing>>

\* ... and logs the begin record before it gives txMutex_ back.
LogBegin(c) ==
  /\ lfmTxId[c] # 0 /\ logMutexFree /\ Len(lfmLog) < MaxLog
  /\ lfmLog' = Append(lfmLog, [tx |-> lfmTxId[c], type |-> "Begin"])
  /\ lfmTxId' = [lfmTxId EXCEPT ![c] = 0]
  /\ txMutex' = NoThread
  /\ UNCHANGED <<nextTxId, lfmHung, flusher, stopFlushing>>

\* logRecord for a transaction that has begun.
logRecord(c, x) ==
  /\ Idle(c) /\ logMutexFree /\ Len(lfmLog) < MaxLog
  /\ lfmLog' = Append(lfmLog, [tx |-> x, type |-> "Data"])
  /\ UNCHANGED <<nextTxId, txMutex, lfmTxId, lfmHung, flusher, stopFlushing>>

\* commit, abort and checkpoint.
commitTransaction(c) ==
  /\ Idle(c) /\ logMutexFree
  /\ lfmHung' = c
  /\ UNCHANGED <<lfmLog, nextTxId, txMutex, lfmTxId, flusher, stopFlushing>>

start ==
  /\ flusher = "idle"
  /\ flusher' = "sleep"
  /\ UNCHANGED <<lfmLog, nextTxId, txMutex, lfmTxId, lfmHung, stopFlushing>>

\* stop sets the flag; it then joins the thread.
stop ==
  /\ flusher # "idle" /\ ~stopFlushing
  /\ stopFlushing' = TRUE
  /\ UNCHANGED <<lfmLog, nextTxId, txMutex, lfmTxId, lfmHung, flusher>>

NeverLeave == FALSE
MustLeave == stopFlushing
\* The loop of the flusher: sleep, look at the flag, flush.
flushLogsPeriodically ==
  /\ \/ flusher = "sleep" /\ flusher' = IF MustLeave THEN "ended" ELSE "flush"
     \/ flusher = "flush" /\ logMutexFree /\ flusher' = "sleep"
  /\ UNCHANGED <<lfmLog, nextTxId, txMutex, lfmTxId, lfmHung, stopFlushing>>

LfmClient(c) ==
  \/ beginTransaction(c)
  \/ LogBegin(c)
  \/ \E x \in 1 .. nextTxId - 1 : logRecord(c, x)
  \/ commitTransaction(c)

LfmNext ==
  \/ \E c \in LfmThread : LfmClient(c)
  \/ start
  \/ stop
  \/ flushLogsPeriodically

-----------------------------------------------------------------------------
\* Begin records stand in the log in the order of the transaction ids, with no
\* id left out, although threads draw ids and write records concurrently.
BeginsInOrder ==
  LET begins == SelectSeq(lfmLog, LAMBDA r : r.type = "Begin")
  IN  \A i \in DOMAIN begins : begins[i].tx = i

\* The flusher ends after stop, so that the join returns, unless a commit, an
\* abort or a checkpoint has locked logMutex_ for good.
FlusherStops == stopFlushing ~> (flusher = "ended" \/ ~logMutexFree)
=============================================================================
