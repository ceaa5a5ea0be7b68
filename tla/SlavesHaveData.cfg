SPECIFICATION MsSpec
CONSTANTS
  NSlaves = 3
  MsWriter = {w1}
  MaxWrites = 3
INVARIANT SlavesHaveData
CHECK_DEADLOCK FALSE
