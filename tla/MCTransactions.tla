--------------------------- MODULE MCTransactions ---------------------------
(***************************************************************************)
(* Timestamp ordering, the isolation levels, the transaction manager and   *)
(* the four programs that keep a log, model-checked in one run: they share *)
(* no state, part says which one a behaviour is about.                     *)
(***************************************************************************)
EXTENDS TimestampOrdering, IsolationLevels, Transactions,
        WriteAheadLog, Checkpointing, LogReplay, LogFileManager

VARIABLE part

MCOp == {{"committed"}, {"aborted"}}
MCOps == <<1, 0>>

controlVars == <<toVars, isVars, tmVars>>
logsVars == <<walVars, ckVars, rpVars, lfmVars>>
vars == <<controlVars, logsVars, part>>

Init ==
  /\ ToInit /\ IsInit /\ TmInit
  /\ WalInit /\ CkInit /\ LfmInit /\ RpInit
  /\ part \in {"timestamps", "isolation", "manager", "wal", "checkpointing", "replay", "file manager"}
  /\ part # "replay" => rpFile = <<>>

Control ==
  \/ part = "timestamps" /\ ToNext /\ UNCHANGED <<isVars, tmVars>>
  \/ part = "isolation" /\ IsNext /\ UNCHANGED <<toVars, tmVars>>
  \/ part = "manager" /\ TmNext /\ UNCHANGED <<toVars, isVars>>

Log ==
  \/ part = "wal" /\ WalNext /\ UNCHANGED <<ckVars, rpVars, lfmVars>>
  \/ part = "checkpointing" /\ CkNext /\ UNCHANGED <<walVars, rpVars, lfmVars>>
  \/ part = "replay" /\ RpNext /\ UNCHANGED <<walVars, ckVars, lfmVars>>
  \/ part = "file manager" /\ LfmNext /\ UNCHANGED <<walVars, ckVars, rpVars>>

Next ==
  /\ UNCHANGED part
  /\ \/ Control /\ UNCHANGED logsVars
     \/ Log /\ UNCHANGED controlVars

\* The flusher's loop keeps running: it waits on a timer and for logMutex_.
Spec == Init /\ [][Next]_vars
             /\ WF_vars(part = "file manager" /\ flushLogsPeriodically
                          /\ UNCHANGED <<controlVars, walVars, ckVars, rpVars, part>>)
=============================================================================
