SPECIFICATION Spec
CONSTANTS
  NKeys = 8
  Keys <- FirstKeys
  NotFound = NotFound
  ValsOf <- NoBytes
  KeyLen <- EqualKeys
  ValLen <- NamedLen
  PageSize = 113
INVARIANTS
  ScansAreComplete
  PagesAccounted
  
PROPERTIES
  ImplementsMap
  
VIEW Canonical
