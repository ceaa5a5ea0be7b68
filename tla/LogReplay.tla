----------------------------- MODULE LogReplay -----------------------------
(***************************************************************************)
(* transactions/recovery/log_replay.cpp: readLogsFromFile parses the log   *)
(* file into records, replayLogs goes over them.  An entry of the file is  *)
(* a transaction id and a type, and how operator>> can read it; table and  *)
(* data, which are not numbers, play no other part.                        *)
(***************************************************************************)
EXTENDS Integers, Sequences

CONSTANTS RpTxn,        \* transaction ids
          MaxEntries    \* bound: entries in the file

DataType == {"INSERT", "DELETE", "UPDATE"}
\* An entry is whole, or its last fields are short of one, or operator>> fails in
\* it (its id or type is missing, or there is a blank in the data).  The type may
\* be no LogType.
Entry == [txID : RpTxn, logType : DataType \cup {"COMMIT", "ABORT", "unknown"},
          form : {"whole", "short"}]
Broken == [txID |-> 0, logType |-> "unknown", form |-> "broken"]

VARIABLES rpFile,          \* the entries of the file
          rpPos,           \* the record replayLogs is at
          rpTransactions,  \* id -> state of the transactions met so far
          rpApplied,       \* positions of the records applied
          rpOutcome        \* "replaying", "done", "error" when it threw, "no log"

rpVars == <<rpFile, rpPos, rpTransactions, rpApplied, rpOutcome>>

RpInit ==
  /\ rpFile \in UNION {[1 .. n -> Entry \cup {Broken}] : n \in 0 .. MaxEntries}
  /\ rpPos = 1 /\ rpTransactions = <<>> /\ rpApplied = <<>> /\ rpOutcome = "replaying"

\* The stream fails in a broken entry and the rest of the file is dropped.  A
\* short one takes its last field, the lsn, from the id of the entry behind it, if
\* there is one, and the stream fails in what is left of that.
readLogsFromFile ==
  LET odd == {i \in DOMAIN rpFile : rpFile[i].form # "whole"}
      i == CHOOSE k \in odd : \A j \in odd : k <= j
      completed == rpFile[i].form = "short" /\ i < Len(rpFile)
  IN  IF odd = {} THEN rpFile
      ELSE SubSeq(rpFile, 1, IF completed THEN i ELSE i - 1)

\* The table of transactions with x in state s.
Put(x, s) == [y \in DOMAIN rpTransactions \cup {x} |-> IF y = x THEN s ELSE rpTransactions[y]]

FirstDecision(x, s) ==
  IF x \in DOMAIN rpTransactions /\ rpTransactions[x] # "ACTIVE" THEN rpTransactions ELSE Put(x, s)
\* processCommit, processAbort: the transaction is in the table by now.
Process(x, s) == Put(x, s)

\* One turn of the loop of replayLogs.
ReplayOne ==
  /\ rpOutcome = "replaying" /\ rpPos <= Len(readLogsFromFile)
  /\ LET log == readLogsFromFile[rpPos]
         known == IF log.txID \in DOMAIN rpTransactions THEN rpTransactions
                  ELSE Put(log.txID, "ACTIVE")
     IN  \/ /\ log.logType \in DataType
            /\ rpTransactions' = known
            /\ rpApplied' = Append(rpApplied, rpPos)
            /\ rpPos' = rpPos + 1
            /\ UNCHANGED rpOutcome
         \/ /\ log.logType \in {"COMMIT", "ABORT"}
            /\ rpTransactions' =
                 Process(log.txID, IF log.logType = "COMMIT" THEN "COMMITTED" ELSE "ABORTED")
            /\ rpPos' = rpPos + 1
            /\ UNCHANGED <<rpApplied, rpOutcome>>
         \/ /\ log.logType = "unknown"
            /\ rpTransactions' = known
            /\ rpOutcome' = "error"
            /\ UNCHANGED <<rpPos, rpApplied>>
  /\ UNCHANGED rpFile

ReplayEnds ==
  /\ rpOutcome = "replaying" /\ rpPos > Len(readLogsFromFile)
  /\ rpOutcome' = "done"
  /\ UNCHANGED <<rpFile, rpPos, rpTransactions, rpApplied>>

\* The file does not open: main catches the exception and nothing is replayed.
OpenFails ==
  /\ rpOutcome = "replaying" /\ rpPos = 1
  /\ rpOutcome' = "no log"
  /\ UNCHANGED <<rpFile, rpPos, rpTransactions, rpApplied>>

RpNext == OpenFails \/ ReplayOne \/ ReplayEnds

-----------------------------------------------------------------------------
\* However far a replay has come, also when it threw at a record of no known type:
\* every transaction with a record so far is in the table, with the last decision
\* on it so far, whatever came before and in between, and the data records of all
\* of them were applied, of those that aborted or never ended too, in the order
\* of the file.
LastDecisionCounts ==
  LET logs == SubSeq(readLogsFromFile, 1, IF rpOutcome = "error" THEN rpPos ELSE rpPos - 1)
      decisions(x) == {i \in DOMAIN logs : logs[i].txID = x /\ logs[i].logType \in {"COMMIT", "ABORT"}}
      last(x) == {i \in decisions(x) : \A j \in decisions(x) : j <= i}
  IN  /\ DOMAIN rpTransactions = {logs[i].txID : i \in DOMAIN logs}
      /\ \A x \in DOMAIN rpTransactions :
           rpTransactions[x] = IF last(x) = {} THEN "ACTIVE"
                               ELSE IF \E i \in last(x) : logs[i].logType = "COMMIT"
                                    THEN "COMMITTED" ELSE "ABORTED"
      /\ \A i, j \in DOMAIN rpApplied : i < j => rpApplied[i] < rpApplied[j]
      /\ {rpApplied[i] : i \in DOMAIN rpApplied} = {i \in DOMAIN logs : logs[i].logType \in DataType}
=============================================================================
