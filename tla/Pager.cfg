SPECIFICATION Spec
CONSTANTS
  MaxPages = 4
  Node = Node
  Absent = Absent
  NoHeader = NoHeader
INVARIANTS
  
  
  
  CatalogReopens
