SPECIFICATION PoolSpec
CONSTANTS
  Pages = {p1, p2, p3}
  Images = {a, b}
  LinkImage = LinkImage
  NoImage = NoImage
  NoPage = NoPage
  TxnIDs = {0}
  NoTxn = NoTxn
  Capacity = 2
  MaxLog = 2
  MaxPin = 2
  Freeable = {p1, p2, p3}
SYMMETRY Symmetry
INVARIANTS
  LruConsistent
  ImagesTrackDisk
  LogExplainsDisk
PROPERTIES
  PinnedStays
  WriteAhead
\* a full log ends all
CHECK_DEADLOCK FALSE
