SPECIFICATION Spec
CONSTANTS
  Call = {c1, c2}
  Old = {h1}
  Exec = {c1}
  Spawn = {c2}
  Obs = {o1, o2}
  NoId = NoId
  Unnamed = Unnamed
  None = None
PROPERTY
  LegacyNeedsOnePending
