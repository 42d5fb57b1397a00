SPECIFICATION FairSpec
CONSTANTS
  Tag = {a, b}
  NoTag = NoTag
  Calls = 2
CHECK_DEADLOCK FALSE
INVARIANT TypeOK
INVARIANT NoLostWakeup
INVARIANT PresentHasType
INVARIANT DepartureAwaited
PROPERTY OnlyEnterEndsPoll
PROPERTY PeerLossEndsWait
PROPERTY ExitHeeded
