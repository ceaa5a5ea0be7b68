SPECIFICATION Spec
CONSTANTS
  ToTxn = {1}
  ToItem = {1}
  Timestamp = {1}
  MaxHistory = 0
  IsId = {1}
  IsKey = {1}
  IsPresent = {1}
  MaxSerial = 0
  MaxAccesses = 0
  Resource = {1}
  MaxWriteSet = 0
  MaxTx = 0
  WalTxn = {1}
  NUpdates = 1
  MaxRuns = 1
  MaxDropped = 1
  CkOp <- MCOp
  MaxTxns = 2
  MaxOps <- MCOps
  MaxProcesses = 2
  RpTxn = {1}
  MaxEntries = 0
  LfmThread = {c1}
  NoThread = NoThread
  MaxLog = 0
INVARIANT CommittedSurvives
CHECK_DEADLOCK FALSE
