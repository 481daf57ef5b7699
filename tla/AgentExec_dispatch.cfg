CONSTANTS
  Lines = 3
  Long <- TooLong
  Buffer = 1
  Threshold = 1
  Timeouts = {0, 2}
SPECIFICATION FairSpec
INVARIANTS OutputIsWhole
PROPERTIES TerminalRecordStays RunReturns
CHECK_DEADLOCK FALSE
