SPECIFICATION FairSpec
CONSTANTS
  d1 = d1
  d2 = d2
  Device = {d1, d2}
  NoDevice = NoDevice
  NotifyTimeout = 1
  OtaTimeout <- Timeouts
  Updates = 2
  Requests = 2
INVARIANT TypeOK
INVARIANT UpdateHasTimer
INVARIANT EndedIsReported
PROPERTY UpdateEnds
