SPECIFICATION Spec
CONSTANTS
  Pages = {p1, p2}
  Images = {a, b}
  LinkImage = LinkImage
  NoImage = NoImage
  NoPage = NoPage
  NoTxn = NoTxn
  Capacity = 1
  MaxPin = 1
  Autocommit = TRUE
  TxnIDs = {0, 1}
  MaxLog = 3
  Freeable = {p1}
  MaxCrashes = 2
SYMMETRY Symmetry
INVARIANTS
  SessionTracksDisk
  ComesUp
PROPERTIES
  RecoveryRestores
  RollbackRestores
\* a record cut in its header, or a full log, ends all
CHECK_DEADLOCK FALSE
