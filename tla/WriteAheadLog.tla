--------------------------- MODULE WriteAheadLog ---------------------------
(***************************************************************************)
(* The program of transactions/logging/write_ahead_log.cpp: main starts a  *)
(* thread per transaction, each thread writes its records through WriteLog *)
(* and when all have been joined RecoverFromLogs reads, replays and removes*)
(* the log.  The process may be killed at any point and started again on   *)
(* the file it left.  WriteLog closes the file before it returns, so that  *)
(* a record that was written survives the process.  The file may not open, *)
(* each time anew: WriteLog then returns as if it had written the record,  *)
(* and ReadLogs as if the log were empty.                                  *)
(***************************************************************************)
EXTENDS Integers, Sequences, FiniteSets

CONSTANTS WalTxn,       \* transaction ids: one thread each
          NUpdates,     \* the updates SimulateTransaction logs (5 in the source)
          MaxRuns,      \* bound: how often the program is started
          MaxDropped    \* bound: how often the file does not open for a write

ASSUME NUpdatesAssumption == NUpdates \in Nat

VARIABLES walFile,      \* the records in the file; empty when it was removed
          walStep,      \* transaction -> records its thread has written
          walPhase,     \* where main is
          walLogs,      \* the vector ReadLogs returned to RecoverFromLogs ...
          walPos,       \* ... and the record it is at
          walRun,       \* how often the program was started
          walUnread,    \* ReadLogs could not open the file
          walCommitted, \* <<transaction, run>> that reported its commit
          walReplayed,  \* ... that a recovery has gone over
          walDropped,   \* <<transaction, run, k>> of the records WriteLog dropped
          walRemoved    \* <<transaction, run>> with a commit removed unread

historyVars == <<walCommitted, walReplayed, walDropped, walRemoved>>
walVars == <<walFile, walStep, walPhase, walLogs, walPos, walRun, walUnread, historyVars>>

WalInit ==
  /\ walFile = <<>> /\ walLogs = <<>> /\ walPos = 1
  /\ walStep = [t \in WalTxn |-> 0]
  /\ walPhase = "simulate" /\ walRun = 1 /\ walUnread = FALSE
  /\ walCommitted = {} /\ walReplayed = {} /\ walDropped = {} /\ walRemoved = {}

-----------------------------------------------------------------------------
\* The k-th record of a transaction: begin, one update per page, commit.  The
\* time stamp is told apart only by the run it was taken in.
LogRecord(t, k) ==
  [type |-> CASE k = 0 -> "BEGIN" [] k = NUpdates + 1 -> "COMMIT" [] OTHER -> "UPDATE",
   tx |-> t, page |-> IF k \in 1 .. NUpdates THEN k - 1 ELSE -1, timestamp |-> walRun]

\* The parser reads the time stamp and drops it: the record is stamped anew.
ParseLogRecord(r) == [r EXCEPT !.timestamp = walRun]

\* The commit of <<transaction, run>> is in the file.
InLog(c) ==
  \E i \in DOMAIN walFile : /\ walFile[i].type = "COMMIT"
                            /\ walFile[i].tx = c[1] /\ walFile[i].timestamp = c[2]

Truncated(r) == <<r>>
\* The file after a write with std::ios::app.
Appended(r) == Append(walFile, r)

\* The k-th record of t is written, or dropped when the file does not open.
WriteLog(t, k) ==
  \/ /\ walFile' = Appended(LogRecord(t, k))
     /\ UNCHANGED walDropped
  \/ /\ Cardinality(walDropped) < MaxDropped
     /\ walDropped' = walDropped \cup {<<t, walRun, k>>}
     /\ UNCHANGED walFile

\* A thread writes its next record; behind the last one it reports the commit.
SimulateTransaction(t) ==
  /\ walPhase = "simulate" /\ walStep[t] < NUpdates + 2
  /\ WriteLog(t, walStep[t])
  /\ walStep' = [walStep EXCEPT ![t] = @ + 1]
  /\ walCommitted' = IF walStep[t] = NUpdates + 1 THEN walCommitted \cup {<<t, walRun>>}
                     ELSE walCommitted
  /\ UNCHANGED <<walPhase, walLogs, walPos, walRun, walUnread, walReplayed, walRemoved>>

\* RecoverFromLogs, after the threads have been joined: ReadLogs, which returns
\* an empty vector for a file it cannot open ...
ReadLogs ==
  /\ walPhase = "simulate" /\ \A t \in WalTxn : walStep[t] = NUpdates + 2
  /\ \/ /\ walLogs' = [i \in DOMAIN walFile |-> ParseLogRecord(walFile[i])]
        /\ walUnread' = FALSE
     \/ walLogs' = <<>> /\ walUnread' = TRUE
  /\ walPos' = 1
  /\ walPhase' = "replay"
  /\ UNCHANGED <<walFile, walStep, walRun, historyVars>>

\* ... the loop, which names what it replays and changes nothing ...
Replay ==
  /\ walPhase = "replay" /\ walPos <= Len(walLogs)
  /\ walPos' = walPos + 1
  /\ walReplayed' = IF walLogs[walPos].type = "COMMIT"
                    THEN walReplayed \cup {<<walFile[walPos].tx, walFile[walPos].timestamp>>}
                    ELSE walReplayed
  /\ UNCHANGED <<walFile, walStep, walPhase, walLogs, walRun, walUnread,
                 walCommitted, walDropped, walRemoved>>

ClearAnyTime == TRUE
ReplayDone == walPos > Len(walLogs)
\* ... and ClearLogs, which removes the file, read or not; main returns.
ClearLogs ==
  /\ walPhase = "replay" /\ ReplayDone
  /\ walFile' = <<>>
  /\ walPhase' = "ended"
  /\ walRemoved' = IF walUnread THEN walRemoved \cup {c \in walCommitted : InLog(c)} ELSE walRemoved
  /\ UNCHANGED <<walStep, walLogs, walPos, walRun, walUnread, walCommitted, walReplayed, walDropped>>

\* The process is killed, or ends because removing the file throws.
WalCrash ==
  /\ walPhase \in {"simulate", "replay"}
  /\ walPhase' = "down"
  /\ UNCHANGED <<walFile, walStep, walLogs, walPos, walRun, walUnread, historyVars>>

\* main: the constructor finds the file or creates it, the threads start over
\* with the same transaction ids.
WalMain ==
  /\ walPhase \in {"down", "ended"} /\ walRun < MaxRuns
  /\ walRun' = walRun + 1
  /\ walPhase' = "simulate"
  /\ walStep' = [t \in WalTxn |-> 0]
  /\ walLogs' = <<>> /\ walPos' = 1 /\ walUnread' = FALSE
  /\ UNCHANGED <<walFile, historyVars>>

WalNext ==
  \/ \E t \in WalTxn : SimulateTransaction(t)
  \/ ReadLogs
  \/ Replay
  \/ ClearLogs
  \/ WalCrash
  \/ WalMain

WalSpec == WalInit /\ [][WalNext]_walVars

-----------------------------------------------------------------------------
\* In front of a commit record are its transaction's begin and all of its updates
\* in page order, except those WriteLog dropped, and none of them twice: writers
\* of other transactions, a crash in the middle of an earlier run with the same
\* id and a removal of the file do not come between.
CommitsAreComplete ==
  \A i \in DOMAIN walFile : walFile[i].type = "COMMIT" =>
    LET t == walFile[i].tx
        own == SelectSeq(SubSeq(walFile, 1, i - 1), LAMBDA r : r.tx = t)
        kept == {k \in 0 .. NUpdates : <<t, walFile[i].timestamp, k>> \notin walDropped}
        start == Len(own) - Cardinality(kept)
    IN  /\ start >= 0
        /\ \A k \in kept :
             LET r == own[start + Cardinality({j \in kept : j <= k})]
             IN  /\ r.type = (IF k = 0 THEN "BEGIN" ELSE "UPDATE")
                 /\ r.page = k - 1 /\ r.timestamp = walFile[i].timestamp

\* A reported commit is in the log until a recovery has gone over it, whenever
\* the process is killed, during the recovery too.  Only a file that does not
\* open costs a commit: WriteLog drops its record, or a recovery that could not
\* read the file removes it.
CommitsReachRecovery ==
  \A c \in walCommitted \ (walReplayed \cup walRemoved) :
    <<c[1], c[2], NUpdates + 1>> \in walDropped \/ InLog(c)

\* "Write-ahead logging (WAL) for transaction durability": a reported commit is in
\* the log until a recovery has gone over it.
CommitsDurable == \A c \in walCommitted \ walReplayed : InLog(c)
=============================================================================
