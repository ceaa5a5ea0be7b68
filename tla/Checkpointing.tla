--------------------------- MODULE Checkpointing ---------------------------
(***************************************************************************)
(* transactions/recovery/checkpointing.cpp: the transaction manager, its   *)
(* log and recovery, in a process that may be killed and started again.    *)
(* The log is a stream: what was written waits in its buffer, and the file *)
(* gets it in pieces that need not end at the end of a line.  What matters *)
(* of a line is the id after "Transaction " and which of the words that    *)
(* recovery looks for are in it; an operation is the set of the words its  *)
(* text holds.                                                             *)
(***************************************************************************)
EXTENDS Integers, Sequences

CONSTANTS CkOp,         \* operations: sets of "committed", "aborted"
          MaxTxns,      \* bound: transactions per process
          MaxOps,       \* bound: id -> operations of the transaction
          MaxProcesses  \* bound: starts of the process

NoId == -1              \* the id of a line cut off before its id

VARIABLES ckTxns,       \* transactions, by id: ids are given out from 1 up
          ckBuffer,     \* lines that have not reached the file
          ckFile,       \* the lines of wal.log
          ckOpen,       \* the last of them is cut off: no newline follows it
          ckCheckpoint, \* what this process's last create_checkpoint wrote
          ckEnded,      \* ids the client has committed or aborted
          ckProcess,    \* how often the process was started
          ckRecovered,  \* recover has run in this process
          ckForeign,    \* ids earlier processes left in wal.log
          ckPast        \* ids whose commit returned in an earlier process

logVars == <<ckBuffer, ckFile, ckOpen>>
processVars == <<ckProcess, ckRecovered, ckForeign, ckPast>>
ckVars == <<ckTxns, logVars, ckCheckpoint, ckEnded, processVars>>

CkInit ==
  /\ ckTxns = <<>> /\ ckBuffer = <<>> /\ ckFile = <<>> /\ ckOpen = FALSE
  /\ ckCheckpoint = <<>> /\ ckProcess = 1 /\ ckRecovered = FALSE
  /\ ckEnded = {} /\ ckForeign = {} /\ ckPast = {}

-----------------------------------------------------------------------------
Line(id, words) == [id |-> id, words |-> words]

\* What can be left of a line that is cut off: nothing behind "Transaction ",
\* the id, or all but the newline.
Fragments(line) == {Line(NoId, {}), Line(line.id, {}), line}

\* The file after lines were added.  If it ended with a cut-off line the first
\* one joins that: the id found there is the first one, the words of both count.
Add(lines) ==
  LET n == Len(ckFile) IN
  IF ckOpen /\ lines # <<>>
  THEN SubSeq(ckFile, 1, n - 1)
         \o <<Line(ckFile[n].id, ckFile[n].words \cup Head(lines).words)>> \o Tail(lines)
  ELSE ckFile \o lines

\* What recover makes of a line.
Decision(line) == CASE "committed" \in line.words -> "COMMITTED"
                    [] "aborted" \in line.words -> "ABORTED"
                    [] OTHER -> "NONE"

begin_transaction ==
  /\ Len(ckTxns) < MaxTxns
  /\ ckTxns' = Append(ckTxns, [state |-> "ACTIVE", operations |-> <<>>])
  /\ UNCHANGED <<logVars, ckCheckpoint, ckEnded, processVars>>

\* Through the reference begin_transaction returned.
add_operation(id, op) ==
  /\ Len(ckTxns[id].operations) < MaxOps[id]
  /\ ckTxns' = [ckTxns EXCEPT ![id].operations = Append(@, op)]
  /\ UNCHANGED <<logVars, ckCheckpoint, ckEnded, processVars>>

log_transaction(id) ==
  [i \in DOMAIN ckTxns[id].operations |-> Line(id, ckTxns[id].operations[i])]

\* The state changes first, whatever it was, then the lines go to the stream.
commit_transaction(id) ==
  /\ ckTxns' = [ckTxns EXCEPT ![id].state = "COMMITTED"]
  /\ ckBuffer' = ckBuffer \o log_transaction(id) \o <<Line(id, {"committed"})>>
  /\ ckEnded' = ckEnded \cup {id}
  /\ UNCHANGED <<ckFile, ckOpen, ckCheckpoint, processVars>>

LogAbortAndOperations(id) == log_transaction(id) \o <<Line(id, {"aborted"})>>
log_abort(id) == <<Line(id, {"aborted"})>>
abort_transaction(id) ==
  /\ ckTxns' = [ckTxns EXCEPT ![id].state = "ABORTED"]
  /\ ckBuffer' = ckBuffer \o log_abort(id)
  /\ ckEnded' = ckEnded \cup {id}
  /\ UNCHANGED <<ckFile, ckOpen, ckCheckpoint, processVars>>

\* Whatever is not committed is written as active.
create_checkpoint ==
  /\ ckCheckpoint' = [id \in DOMAIN ckTxns |->
                        IF ckTxns[id].state = "COMMITTED" THEN "committed" ELSE "active"]
  /\ UNCHANGED <<ckTxns, logVars, ckEnded, processVars>>

\* The stream passes on the first n lines of its buffer.
Drain(n) ==
  /\ ckFile' = Add(SubSeq(ckBuffer, 1, n))
  /\ ckBuffer' = SubSeq(ckBuffer, n + 1, Len(ckBuffer))
  /\ ckOpen' = FALSE
  /\ UNCHANGED <<ckTxns, ckCheckpoint, ckEnded, processVars>>

\* The process ends with these lines added to the file, the last one cut off if
\* open.  The next one starts with an empty table and ids from 1.
EndProcess(lines, open) ==
  /\ ckProcess < MaxProcesses
  /\ ckProcess' = ckProcess + 1
  /\ ckFile' = Add(lines)
  /\ ckOpen' = IF lines = <<>> THEN ckOpen ELSE open
  /\ ckTxns' = <<>> /\ ckBuffer' = <<>> /\ ckCheckpoint' = <<>> /\ ckEnded' = {}
  /\ ckRecovered' = FALSE
  /\ ckForeign' = {ckFile'[i].id : i \in DOMAIN ckFile'}
  /\ ckPast' = ckPast \cup {id \in DOMAIN ckTxns : ckTxns[id].state = "COMMITTED"}

\* The process is killed when n lines of the buffer, and perhaps the beginning
\* of the next, have reached the file.
Crash(n) ==
  LET whole == SubSeq(ckBuffer, 1, n)
  IN  \/ EndProcess(whole, FALSE)
      \/ /\ n < Len(ckBuffer)
         /\ \E f \in Fragments(ckBuffer[n + 1]) : EndProcess(Append(whole, f), TRUE)

\* The process returns from main: the destructors close the streams.
Exit == EndProcess(ckBuffer, FALSE)

\* The lines that name a decision, and the state of a transaction after them.
Decisive == {i \in DOMAIN ckFile : Decision(ckFile[i]) # "NONE"}
LastDecision(id) ==
  LET own == {i \in Decisive : ckFile[i].id = id}
  IN  IF own = {} THEN ckTxns[id].state
      ELSE Decision(ckFile[CHOOSE i \in own : \A j \in own : j <= i])

\* recover: the last decision on a transaction in the table counts, those on
\* others are passed over.  A decision without an id makes stoi throw, which
\* nobody catches: the process dies with what is in its buffers.
recover ==
  IF \E i \in Decisive : ckFile[i].id = NoId
  THEN EndProcess(<<>>, FALSE)
  ELSE /\ ckTxns' = [id \in DOMAIN ckTxns |-> [ckTxns[id] EXCEPT !.state = LastDecision(id)]]
       /\ ckRecovered' = TRUE
       /\ UNCHANGED <<logVars, ckCheckpoint, ckEnded, ckProcess, ckForeign, ckPast>>

\* The operations are called as simulate_transactions does: a transaction is left
\* alone once it was committed or aborted.
CkNext ==
  \/ begin_transaction
  \/ \E id \in DOMAIN ckTxns \ ckEnded : \/ \E op \in CkOp : add_operation(id, op)
                                         \/ commit_transaction(id)
                                         \/ abort_transaction(id)
  \/ create_checkpoint
  \/ \E n \in 1 .. Len(ckBuffer) : Drain(n)
  \/ \E n \in 0 .. Len(ckBuffer) : Crash(n)
  \/ Exit
  \/ recover

-----------------------------------------------------------------------------
\* recover changes no transaction of the running process, however much of the
\* log is still in the stream's buffer, with two exceptions: an earlier process
\* has left its id in the log, or its own operations hold the word "aborted".
RecoverKeepsDecisions ==
  [][recover => \A id \in DOMAIN ckTxns' :
       \/ ckTxns'[id].state = ckTxns[id].state
       \/ id \in ckForeign
       \/ \E i \in DOMAIN ckTxns[id].operations : "aborted" \in ckTxns[id].operations[i]]_ckVars

\* Recovery restores what was committed before a failure: once recover has run,
\* the transactions whose commit returned earlier are committed.
CommittedSurvives ==
  ckRecovered => \A id \in ckPast : id \in DOMAIN ckTxns /\ ckTxns[id].state = "COMMITTED"
=============================================================================
