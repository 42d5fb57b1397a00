SPECIFICATION Spec
CONSTANTS
  c1 = c1
  c2 = c2
  c3 = c3
  Cmd = {c1, c2}
  NULL = NULL
  Caller = {t1, t2}
  TypeOf <- OnOff
  Oversize = {}
  NumSeqs = 1
  MallocFails = TRUE
  MAX_ACK_TIMEOU = 1
  RETRANS_TIMEOU = 1
  MAX_MSG_TIMEOU = 2
  MAX_RETRANS_TIME = 1
  MAX_RESEND_BUFFER = 1
  UINT8 = 256
INVARIANT QueueCounterExact
PROPERTY Lifecycle
