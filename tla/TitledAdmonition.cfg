SPECIFICATION ASpec
CONSTANTS
  Names = {n1, n2}
  None = None
  Invalid = Invalid
  Spanned = Spanned
  Inputs <- TitledExamples
  Tables <- SmallTables
INVARIANTS
  TitleAttached
CHECK_DEADLOCK FALSE
