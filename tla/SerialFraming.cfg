SPECIFICATION Spec
CONSTANTS
  Message <- Messages
  MaxMessageLen = 2
  BufferSize = 40
  ReceBufferLength = 24
  Sends = 3
  Losses = 1
INVARIANT TypeOK
INVARIANT DeliveredIsSent
PROPERTY WholeFramesPass
CHECK_DEADLOCK FALSE
