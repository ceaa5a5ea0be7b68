------------------------ MODULE WriteAheadLogProofs ------------------------
(***************************************************************************)
(* A commit that was reported is not lost before a recovery has seen it    *)
(* unless the file did not open, for any transactions, any number of       *)
(* updates and however often the program is killed and started again.      *)
(***************************************************************************)
EXTENDS WriteAheadLog, SequenceTheorems, TLAPS

USE NUpdatesAssumption

Record == [type : {"BEGIN", "UPDATE", "COMMIT"}, tx : WalTxn, page : Int, timestamp : Nat]

WalTypeOK ==
  /\ walFile \in Seq(Record)
  /\ walLogs \in Seq(Record)
  /\ walStep \in [WalTxn -> Nat]
  /\ walPhase \in {"simulate", "replay", "ended", "down"}
  /\ walPos \in Nat
  /\ walRun \in Nat
  /\ walCommitted \in SUBSET (WalTxn \X Nat)

\* The file does not change while it is replayed, so that the vector agrees with
\* it if it could be read; the commits before the loop's position are in
\* walReplayed.
ReplayInv ==
  walPhase = "replay" /\ ~walUnread =>
    /\ Len(walLogs) = Len(walFile)
    /\ \A i \in 1 .. Len(walFile) : walLogs[i].type = walFile[i].type
    /\ \A i \in 1 .. Len(walFile) :
         i < walPos /\ walFile[i].type = "COMMIT" => <<walFile[i].tx, walFile[i].timestamp>> \in walReplayed

WalIInv == WalTypeOK /\ ReplayInv /\ CommitsReachRecovery

\* Each record the threads write is one of the three kinds.
LEMMA LogRecordType ==
  ASSUME NEW t \in WalTxn, NEW k \in Nat, walRun \in Nat
  PROVE  LogRecord(t, k) \in Record /\ (k = NUpdates + 1 => LogRecord(t, k).type = "COMMIT")
         /\ LogRecord(t, k).tx = t /\ LogRecord(t, k).timestamp = walRun
<1> DEFINE ty == CASE k = 0 -> "BEGIN" [] k = NUpdates + 1 -> "COMMIT" [] OTHER -> "UPDATE"
           pg == IF k \in 1 .. NUpdates THEN k - 1 ELSE -1
<1>1. ty \in {"BEGIN", "UPDATE", "COMMIT"}
  <2>1. CASE k = 0
    <3>1. ~(k = NUpdates + 1)
      BY <2>1
    <3> QED BY <2>1, <3>1
  <2>2. CASE k = NUpdates + 1
    <3>1. ~(k = 0)
      BY <2>2
    <3> QED BY <2>2, <3>1
  <2>3. CASE k # 0 /\ k # NUpdates + 1
    BY <2>3
  <2> QED BY <2>1, <2>2, <2>3
<1>2. k = NUpdates + 1 => ty = "COMMIT"
  <2>1. k = NUpdates + 1 => k # 0
    OBVIOUS
  <2> QED BY <2>1
<1>3. pg \in Int
  OBVIOUS
<1> HIDE DEF ty, pg
<1>4. LogRecord(t, k) = [type |-> ty, tx |-> t, page |-> pg, timestamp |-> walRun]
  BY DEF LogRecord, ty, pg
<1> QED
  BY <1>1, <1>2, <1>3, <1>4 DEF Record

\* A thread's record goes to the end of the file, or nowhere: what is there stays.
LEMMA SimulateStep ==
  ASSUME WalIInv, NEW t \in WalTxn, SimulateTransaction(t)
  PROVE  WalIInv'
<1> DEFINE k == walStep[t]
           r == LogRecord(t, k)
<1>1. /\ walPhase = "simulate" /\ walStep' = [walStep EXCEPT ![t] = @ + 1]
      /\ walCommitted' = IF k = NUpdates + 1 THEN walCommitted \cup {<<t, walRun>>}
                         ELSE walCommitted
      /\ walPhase' = walPhase /\ walLogs' = walLogs /\ walPos' = walPos /\ walRun' = walRun
      /\ walReplayed' = walReplayed /\ walRemoved' = walRemoved
      /\ \/ walFile' = Append(walFile, r) /\ walDropped' = walDropped
         \/ walFile' = walFile /\ walDropped' = walDropped \cup {<<t, walRun, k>>}
  BY DEF SimulateTransaction, WriteLog, Appended
<1>2. walFile \in Seq(Record) /\ k \in Nat /\ walRun \in Nat
  BY DEF WalIInv, WalTypeOK
<1>3. /\ r \in Record /\ r.tx = t /\ r.timestamp = walRun
      /\ k = NUpdates + 1 => r.type = "COMMIT"
  BY <1>2, LogRecordType
<1> HIDE DEF r
<1>4. /\ Append(walFile, r) \in Seq(Record) /\ Len(Append(walFile, r)) = Len(walFile) + 1
      /\ \A i \in 1 .. Len(walFile) : Append(walFile, r)[i] = walFile[i]
      /\ Append(walFile, r)[Len(walFile) + 1] = r
      /\ DOMAIN walFile = 1 .. Len(walFile) /\ DOMAIN Append(walFile, r) = 1 .. Len(walFile) + 1
      /\ Len(walFile) \in Nat
  BY <1>2, <1>3, AppendProperties, LenProperties
<1>5. WalTypeOK'
  <2>1. walFile' \in Seq(Record)
    BY <1>1, <1>2, <1>4
  <2> QED
    BY <1>1, <1>2, <2>1 DEF WalIInv, WalTypeOK
<1>6. ReplayInv'
  BY <1>1 DEF ReplayInv
<1>7. ASSUME NEW c, InLog(c) PROVE InLog(c)'
  <2>1. PICK i \in DOMAIN walFile : /\ walFile[i].type = "COMMIT"
              /\ walFile[i].tx = c[1] /\ walFile[i].timestamp = c[2]
    BY <1>7 DEF InLog
  <2>2. i \in DOMAIN walFile' /\ walFile'[i] = walFile[i]
    BY <1>1, <1>4, <2>1
  <2> QED
    BY <2>1, <2>2 DEF InLog
<1>8. ASSUME NEW c, c = <<t, walRun>>, k = NUpdates + 1
      PROVE  <<c[1], c[2], NUpdates + 1>> \in walDropped' \/ InLog(c)'
  <2>1. CASE walFile' = Append(walFile, r)
    <3>1. Len(walFile) + 1 \in DOMAIN walFile' /\ walFile'[Len(walFile) + 1] = r
      BY <1>4, <2>1
    <3> QED
      BY <1>3, <1>8, <3>1 DEF InLog
  <2>2. CASE walDropped' = walDropped \cup {<<t, walRun, k>>}
    BY <1>8, <2>2
  <2> QED
    BY <1>1, <2>1, <2>2
<1>9. CommitsReachRecovery'
  <2> SUFFICES ASSUME NEW c \in walCommitted', c \notin walReplayed' \cup walRemoved'
               PROVE  <<c[1], c[2], NUpdates + 1>> \in walDropped' \/ InLog(c)'
    BY DEF CommitsReachRecovery
  <2>1. CASE c \in walCommitted
    <3>1. <<c[1], c[2], NUpdates + 1>> \in walDropped \/ InLog(c)
      BY <1>1, <2>1 DEF WalIInv, CommitsReachRecovery
    <3> QED
      BY <1>1, <1>7, <3>1
  <2>2. CASE c \notin walCommitted
    <3>1. c = <<t, walRun>> /\ k = NUpdates + 1
      BY <1>1, <2>2
    <3> QED
      BY <1>8, <3>1
  <2> QED
    BY <2>1, <2>2
<1> QED
  BY <1>5, <1>6, <1>9 DEF WalIInv

\* ReadLogs keeps the type of every record, or returns none.
LEMMA ReadStep ==
  ASSUME WalIInv, ReadLogs
  PROVE  WalIInv'
<1>1. /\ \/ /\ walLogs' = [i \in DOMAIN walFile |-> ParseLogRecord(walFile[i])]
            /\ walUnread' = FALSE
         \/ walLogs' = <<>> /\ walUnread' = TRUE
      /\ walPos' = 1 /\ walPhase' = "replay"
      /\ walFile' = walFile /\ walStep' = walStep /\ walRun' = walRun
      /\ walCommitted' = walCommitted /\ walReplayed' = walReplayed
      /\ walDropped' = walDropped /\ walRemoved' = walRemoved
  BY DEF ReadLogs, historyVars
<1>2. walFile \in Seq(Record) /\ walRun \in Nat
  BY DEF WalIInv, WalTypeOK
<1>3. \A r \in Record : ParseLogRecord(r) \in Record /\ ParseLogRecord(r).type = r.type
  BY <1>2 DEF ParseLogRecord, Record
<1>4. /\ Len(walFile) \in Nat /\ DOMAIN walFile = 1 .. Len(walFile)
      /\ \A i \in 1 .. Len(walFile) : walFile[i] \in Record
  BY <1>2, LenProperties, ElementOfSeq
<1>5. /\ walLogs' \in Seq(Record)
      /\ ~walUnread' => /\ Len(walLogs') = Len(walFile)
                        /\ \A i \in 1 .. Len(walFile) : walLogs'[i].type = walFile[i].type
  <2>1. CASE walLogs' = [i \in DOMAIN walFile |-> ParseLogRecord(walFile[i])]
    BY <1>3, <1>4, <2>1
  <2>2. CASE walLogs' = <<>> /\ walUnread' = TRUE
    BY <2>2
  <2> QED
    BY <1>1, <2>1, <2>2
<1>6. WalTypeOK'
  BY <1>1, <1>5 DEF WalIInv, WalTypeOK
<1>7. ReplayInv'
  BY <1>1, <1>4, <1>5 DEF ReplayInv
<1>8. CommitsReachRecovery'
  BY <1>1 DEF WalIInv, CommitsReachRecovery, InLog
<1> QED
  BY <1>6, <1>7, <1>8 DEF WalIInv

\* The loop goes over the records in their order.
LEMMA ReplayStep ==
  ASSUME WalIInv, Replay
  PROVE  WalIInv'
<1> DEFINE c == <<walFile[walPos].tx, walFile[walPos].timestamp>>
<1>1. /\ walPhase = "replay" /\ walPos <= Len(walLogs) /\ walPos' = walPos + 1
      /\ walReplayed' = IF walLogs[walPos].type = "COMMIT" THEN walReplayed \cup {c} ELSE walReplayed
      /\ walFile' = walFile /\ walStep' = walStep /\ walPhase' = walPhase /\ walLogs' = walLogs
      /\ walRun' = walRun /\ walCommitted' = walCommitted /\ walUnread' = walUnread
      /\ walDropped' = walDropped /\ walRemoved' = walRemoved
  BY DEF Replay
<1>2. WalTypeOK'
  BY <1>1 DEF WalIInv, WalTypeOK
<1>3. ReplayInv'
  <2> SUFFICES ASSUME ~walUnread PROVE ReplayInv'
    BY <1>1 DEF ReplayInv
  <2>1. /\ Len(walLogs) = Len(walFile)
        /\ \A i \in 1 .. Len(walFile) : walLogs[i].type = walFile[i].type
        /\ \A i \in 1 .. Len(walFile) : i < walPos /\ walFile[i].type = "COMMIT"
             => <<walFile[i].tx, walFile[i].timestamp>> \in walReplayed
    BY <1>1 DEF WalIInv, ReplayInv
  <2>2. ASSUME NEW i \in 1 .. Len(walFile), i < walPos + 1, walFile[i].type = "COMMIT"
        PROVE  <<walFile[i].tx, walFile[i].timestamp>> \in walReplayed'
    <3>1. walPos \in Nat /\ Len(walFile) \in Nat
      BY LenProperties DEF WalIInv, WalTypeOK
    <3>2. CASE i < walPos
      BY <1>1, <2>1, <2>2, <3>2
    <3>3. CASE i = walPos
      BY <1>1, <2>1, <2>2, <3>3
    <3> QED
      BY <2>2, <3>1, <3>2, <3>3
  <2> QED
    BY <1>1, <2>1, <2>2 DEF ReplayInv
<1>4. CommitsReachRecovery'
  BY <1>1 DEF WalIInv, CommitsReachRecovery, InLog
<1> QED
  BY <1>2, <1>3, <1>4 DEF WalIInv

\* The file is removed when every commit in it has been gone over, or unread.
LEMMA ClearStep ==
  ASSUME WalIInv, ClearLogs
  PROVE  WalIInv'
<1>1. /\ walPhase = "replay" /\ walPos > Len(walLogs) /\ walFile' = <<>> /\ walPhase' = "ended"
      /\ walStep' = walStep /\ walLogs' = walLogs /\ walPos' = walPos /\ walRun' = walRun
      /\ walCommitted' = walCommitted /\ walReplayed' = walReplayed /\ walDropped' = walDropped
      /\ walRemoved' = IF walUnread THEN walRemoved \cup {c \in walCommitted : InLog(c)} ELSE walRemoved
  BY DEF ClearLogs, ReplayDone
<1>2. WalTypeOK'
  BY <1>1 DEF WalIInv, WalTypeOK
<1>3. ReplayInv'
  BY <1>1 DEF ReplayInv
<1>4. ASSUME NEW c \in walCommitted, InLog(c) PROVE c \in walReplayed \/ c \in walRemoved'
  <2>1. CASE walUnread
    BY <1>1, <1>4, <2>1
  <2>2. CASE ~walUnread
    <3>1. PICK i \in DOMAIN walFile : /\ walFile[i].type = "COMMIT"
                /\ walFile[i].tx = c[1] /\ walFile[i].timestamp = c[2]
      BY <1>4 DEF InLog
    <3>2. i \in 1 .. Len(walFile) /\ Len(walFile) \in Nat /\ walPos \in Nat
      BY <3>1, LenProperties DEF WalIInv, WalTypeOK
    <3>3. i < walPos
      BY <1>1, <2>2, <3>2 DEF WalIInv, ReplayInv
    <3>4. <<walFile[i].tx, walFile[i].timestamp>> \in walReplayed
      BY <1>1, <2>2, <3>1, <3>2, <3>3 DEF WalIInv, ReplayInv
    <3>5. c = <<c[1], c[2]>>
      BY DEF WalIInv, WalTypeOK
    <3> QED
      BY <3>1, <3>4, <3>5
  <2> QED
    BY <2>1, <2>2
<1>5. CommitsReachRecovery'
  <2> SUFFICES ASSUME NEW c \in walCommitted, c \notin walReplayed \cup walRemoved'
               PROVE  <<c[1], c[2], NUpdates + 1>> \in walDropped
    BY <1>1 DEF CommitsReachRecovery
  <2>1. c \notin walRemoved
    BY <1>1
  <2>2. <<c[1], c[2], NUpdates + 1>> \in walDropped \/ InLog(c)
    BY <2>1 DEF WalIInv, CommitsReachRecovery
  <2> QED
    BY <1>4, <2>2
<1> QED
  BY <1>2, <1>3, <1>5 DEF WalIInv

\* A kill and a start leave the file.
LEMMA RestartStep ==
  ASSUME WalIInv, WalCrash \/ WalMain
  PROVE  WalIInv'
<1>1. /\ walPhase' # "replay" /\ walFile' = walFile
      /\ walCommitted' = walCommitted /\ walReplayed' = walReplayed
      /\ walDropped' = walDropped /\ walRemoved' = walRemoved
  BY DEF WalCrash, WalMain, historyVars
<1>2. WalTypeOK'
  <2>1. CASE WalCrash
    BY <2>1 DEF WalIInv, WalTypeOK, WalCrash, historyVars
  <2>2. CASE WalMain
    BY <2>2 DEF WalIInv, WalTypeOK, WalMain, historyVars
  <2> QED
    BY <2>1, <2>2
<1>3. ReplayInv'
  BY <1>1 DEF ReplayInv
<1>4. CommitsReachRecovery'
  BY <1>1 DEF WalIInv, CommitsReachRecovery, InLog
<1> QED
  BY <1>2, <1>3, <1>4 DEF WalIInv

\* A reported commit is in the file until the loop of RecoverFromLogs has gone
\* over it, through any kills and restarts, unless WriteLog or ReadLogs could not
\* open the file.
THEOREM CommitsNotLost == WalSpec => []CommitsReachRecovery
<1>1. WalInit => WalIInv
  <2> SUFFICES ASSUME WalInit PROVE WalIInv
    OBVIOUS
  <2>1. WalTypeOK
    BY DEF WalInit, WalTypeOK
  <2>2. ReplayInv
    BY DEF WalInit, ReplayInv
  <2>3. CommitsReachRecovery
    BY DEF WalInit, CommitsReachRecovery
  <2> QED
    BY <2>1, <2>2, <2>3 DEF WalIInv
<1>2. WalIInv /\ [WalNext]_walVars => WalIInv'
  <2> SUFFICES ASSUME WalIInv, [WalNext]_walVars PROVE WalIInv'
    OBVIOUS
  <2>1. CASE UNCHANGED walVars
    <3>1. /\ walFile' = walFile /\ walStep' = walStep /\ walPhase' = walPhase /\ walLogs' = walLogs
          /\ walPos' = walPos /\ walRun' = walRun /\ walCommitted' = walCommitted
          /\ walUnread' = walUnread /\ walReplayed' = walReplayed
          /\ walDropped' = walDropped /\ walRemoved' = walRemoved
      BY <2>1 DEF walVars, historyVars
    <3> QED
      BY <3>1 DEF WalIInv, WalTypeOK, ReplayInv, CommitsReachRecovery, InLog
  <2>2. CASE WalNext
    BY <2>2, SimulateStep, ReadStep, ReplayStep, ClearStep, RestartStep DEF WalNext
  <2> QED
    BY <2>1, <2>2
<1>3. WalIInv => CommitsReachRecovery
  BY DEF WalIInv
<1> QED
  BY <1>1, <1>2, <1>3, PTL DEF WalSpec
=============================================================================
