SPECIFICATION FairSpec
CONSTANTS
  d1 = d1
  d2 = d2
  Device = {d1, d2}
  NoDevice = NoDevice
  FactoryId = FactoryId
  None = None
  Model <- Models
  Entries = 1
  Events = 5
  LineMax = 2
CHECK_DEADLOCK FALSE
INVARIANT TypeOK
INVARIANT OwnShortId
INVARIANT FileAgrees
INVARIANT NothingToLose
INVARIANT JoinsAreReported
PROPERTY KeepsPromise
PROPERTY ThrowsOnlyOfUnknown
PROPERTY ZigJoinReturns
