SPECIFICATION LineSpec
CONSTANTS
  Limit = 1
  MaxBytes = 6
INVARIANTS ReadsTheLines
PROPERTIES EveryLineIsRead
CHECK_DEADLOCK FALSE
