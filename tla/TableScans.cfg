SPECIFICATION TableSpec
CONSTANTS
  Keys = {1, 2, 3, 4, 5}
  NotFound = NotFound
  ValsOf <- ShortAndLong
  KeyLen <- EqualKeys
  ValLen <- NamedLen
  PageSize = 129
  MaxPages = 4
INVARIANTS
  ScansMeetRows
\* a file with all its pages ends all
CHECK_DEADLOCK FALSE
