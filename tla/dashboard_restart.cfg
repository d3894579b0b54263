SPECIFICATION Spec
CONSTANTS
  Limit = 3
  Poll = {p1, p2}
  StoreMax = 3
  MaxSeq = 3
  MaxUpsets = 1
INVARIANT
  CursorCovers
