SPECIFICATION FairSpec
CONSTANTS
  Conv = {k1, k2, k3}
  NoKey = NoKey
  Req = {r1, r2}
  EntryId = {e1, e2, e3, e4}
  NoEntry = NoEntry
  MaxStore = 1
  Trigger = 1
  AtLeast = 1
  Ctx = {0, 1}
  Clearable = {0, 1}
INVARIANTS
  TypeOK
  QueueMatchesStore
  AskingHasAsker
  AskedOncePerStay
  EditHasDecision
PROPERTIES
  ImplementsDecision
  AskerIsForwarded
