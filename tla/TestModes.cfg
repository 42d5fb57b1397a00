SPECIFICATION FairSpec
CONSTANTS
  Starts = 3
  Updates = 2
CHECK_DEADLOCK FALSE
INVARIANT TypeOK
INVARIANT AtMostOneReader
INVARIANT ProMarkerEarned
PROPERTY ReaderStops
