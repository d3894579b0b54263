SPECIFICATION Spec
CONSTANTS
  Id = {a, b}
  References = {b}
  PreserveRecent = 1
  LiveAbove = 4
  MaxMsgs = 5
  MaxCalls = 2
INVARIANTS
  TypeOK
  PairsWhole
  BoundariesKept
  ThinkingAccompanied
  LossIsJustified
  PassesShrink
CHECK_DEADLOCK FALSE
