SPECIFICATION Spec
CONSTANTS
  A = A
  B = B
  C = C
  Tables = {A, B, C}
  Columns = {"id", "a", "b", "x"}
  Vals = {1, 2}
  Null = Null
  BadRow = BadRow
  Schemas <- AllSchemas
  MaxRows = 2
  Indexable = {"x"}
  Capacity <- OneC
  MaxDepth = 4
VIEW RowsView
CONSTRAINT UntilFailure
INVARIANTS
  
  LookupsAgree
PROPERTIES
  DeleteExact
  UpdateExact
CHECK_DEADLOCK FALSE
