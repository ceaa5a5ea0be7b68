SPECIFICATION MCSpec
CONSTANTS
  PageId = {p1, p2, p3}
  Client = {c1, c2}
  NoPage = NoPage
  capacity = 2
  MaxWrites = 2
  CacheKey = {1, 2, 3}
  CacheValue = {1, 2}
  Capacity = 2
  MaxFreq = 3
  MaxStored = 4
  MIN_DEGREE = 2
  BtKey = {1, 2, 3, 4, 5, 6, 7, 8, 9, 10}
  IndexKey = {1, 2, 3}
  MaxKeys = 10
  Beyond = FALSE
  HiKey = {1, 2, 3, 4}
  HiValue = {1, 2}
  hashFunc <- MCHash
  Sizes = {1, 2, 3}
  FirstSize = 2
  Word <- MCWord
  ChNode = {1, 2, 3}
  Points <- MCPoints
  KeyHash = {1, 2, 3, 5, 7, 9}
  MaxNodes = 3
  MaxIndex = 2
  RsKey = {1, 2, 4}
  RsValue = {1, 2}
  RsRange <- MCRange
  MaxShards = 3
  RowId = {1, 2, 3}
  MaxRows = 3
SYMMETRY PoolSymmetry
INVARIANTS
  ListMatchesTable
  ReportedIsWritten
  CleanMeansWritten
  UpdatesSurvive
  FindIsExact
  TrieIsTight
  RetrieveIsExact
  JoinsAgree
PROPERTIES
  ImplementsCache
  LfuEvictsLeastUsed
  InsertIsExact
  RemoveIsExact
  OnlyItsKeysMove
\* A get of the write-through cache may lock its mutex twice.
CHECK_DEADLOCK FALSE
