SPECIFICATION TableSpec
CONSTANTS
  Keys = {1, 2, 3, 4, 5}
  NotFound = NotFound
  ValsOf <- ShortValue
  KeyLen <- EqualKeys
  ValLen <- NamedLen
  PageSize = 105
  MaxPages = 4
PROPERTY
  TableIsMap
\* a file with all its pages ends all
CHECK_DEADLOCK FALSE
