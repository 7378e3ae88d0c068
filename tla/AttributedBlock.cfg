SPECIFICATION ASpec
CONSTANTS
  Names = {n1, n2}
  None = None
  Invalid = Invalid
  Spanned = Spanned
  Inputs <- AllInputs
  Tables <- SmallTables
INVARIANTS
  TypeOK
  MetadataKept
  CellsInOrder
  ColumnsFit
CHECK_DEADLOCK FALSE
