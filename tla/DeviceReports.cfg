SPECIFICATION FairSpec
CONSTANTS
  d1 = d1
  d2 = d2
  Device = {d1, d2}
  Configurations <- Configs
  Seqs = {0, 1, 2}
  Items <- SomeItems
  Bursts = 2
CHECK_DEADLOCK FALSE
INVARIANT TypeOK
INVARIANT PartsBelong
INVARIANT FieldsWereSent
PROPERTY WholeIsReported
PROPERTY MessagesHandled
