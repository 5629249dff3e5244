SPECIFICATION Spec
CONSTANTS
  Names = {1, 2, 3}
  MaxPages = 3
VIEW StateView
INVARIANTS
  MapsSound
PROPERTIES
  DropTakesIndexes
