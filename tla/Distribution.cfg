SPECIFICATION MCSpec
CONSTANTS
  N = 4
  Worker = {w1, w2, w3}
  S = 3
  NSlaves = 3
  MsWriter = {w1, w2}
  MaxWrites = 3
  Master = {1, 2, 3}
  MmKey = {1, 2}
  Peers <- MCPeers
  MaxClock = 3
  MaxMmWrites = 3
INVARIANTS
  ExactlyOnce
  AllProcessedOnExit
  NoLostWakeup
  RoundRobin
  MessagesKept
  QuietNodesAgree
PROPERTIES
  PoolTerminates
  MessageApplied
  WriteReturns
\* Slaves stop, and masters that write at the same time may wait for each other.
CHECK_DEADLOCK FALSE
