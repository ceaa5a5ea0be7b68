CONSTANTS
  r1 = r1
  t1 = t1
  Txn = {t1, t2, t3}
  Resource = {r1, r2}
  NoResource = NoResource
  Free = Free
  Modes <- MCModes
  MaxRequests <- MCMaxRequests
SPECIFICATION Spec
\* Transactions end, deadlock or hang.
CHECK_DEADLOCK FALSE
INVARIANT ExclusiveMeansAlone
