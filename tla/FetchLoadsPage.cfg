CONSTANTS
  PageId = {p1, p2, p3}
  Client = {c1, c2}
  NoPage = NoPage
  capacity = 2
  MaxWrites = 2
SPECIFICATION Spec
INVARIANT FetchLoadsPage
