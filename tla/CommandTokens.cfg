SPECIFICATION Spec
CONSTANTS
  d1 = d1
  d2 = d2
  Device = {d1, d2}
  Configurations <- Configs
  Numbers = 2
  Commands = 2
  Others = 1
  Events = 2
CHECK_DEADLOCK FALSE
INVARIANT TokenOnce
INVARIANT AnswersItsCommand
