SPECIFICATION FairSpec
CONSTANTS
  Limit = 2
  Poll = {p1, p2}
  StoreMax = 2
  MaxSeq = 4
  MaxUpsets = 1
INVARIANTS
  TypeOK
  LogContiguous
  CursorCoversOneProcess
PROPERTY
  PageCatchesUp
