SPECIFICATION WalSpec
CONSTANTS
  WalTxn = {1}
  NUpdates = 1
  MaxRuns = 1
  MaxDropped = 1
INVARIANT CommitsDurable
CHECK_DEADLOCK FALSE
