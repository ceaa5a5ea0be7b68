SPECIFICATION Spec
CONSTANTS
  ToTxn = {1, 2}
  ToItem = {1, 2}
  Timestamp = {1, 2, 3}
  MaxHistory = 4
  IsId = {1, 2}
  IsKey = {1, 2}
  IsPresent = {1}
  MaxSerial = 2
  MaxAccesses = 3
  Resource = {1, 2}
  MaxWriteSet = 2
  MaxTx = 2
  WalTxn = {1, 2}
  NUpdates = 1
  MaxRuns = 2
  MaxDropped = 1
  CkOp <- MCOp
  MaxTxns = 2
  MaxOps <- MCOps
  MaxProcesses = 2
  RpTxn = {1, 2}
  MaxEntries = 3
  LfmThread = {c1, c2}
  NoThread = NoThread
  MaxLog = 4
INVARIANTS
  TimestampOrder
  RepeatableReads
  UncommittedUnseen
  FailsOnlyOnDuplicates
  CommitsAreComplete
  CommitsReachRecovery
  LastDecisionCounts
  BeginsInOrder
PROPERTIES
  RecoverKeepsDecisions
  FlusherStops
\* The programs end, a thread that locks its own mutex again stays where it is, and
\* the bounds end the rest.
CHECK_DEADLOCK FALSE
