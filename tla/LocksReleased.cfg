CONSTANTS
  Txn = {t1}
  Resource = {r1}
  NoResource = NoResource
  Free = Free
  t1 = t1
  r1 = r1
  Modes <- MCModes
  MaxRequests <- MCMaxRequests
SPECIFICATION Spec
PROPERTY LocksReleased
CHECK_DEADLOCK FALSE
