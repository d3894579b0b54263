SPECIFICATION LockSpec
CONSTANTS
  None = None
  Proc = {1, 2, 3}
  PidOf <- mcNumbers
PROPERTY
  SweepsOnlyOrphans
CHECK_DEADLOCK FALSE
