SPECIFICATION Spec
CONSTANTS
  Limit = 2
  Req = {r1, r2}
  MaxCalls = 1
  MaxFrames = 2
  MaxSeq = 3
SYMMETRY Symmetry
INVARIANTS
  TypeOK
  JevTotalsAgree
  OpenEventHasOwner
  EventMatchesDelivery
PROPERTY
  ImplementsLog
CHECK_DEADLOCK FALSE
