SPECIFICATION Spec
CONSTANT Families <- AllFamilies
INVARIANTS
  TypeOK
  UnderItsParent
  RenderedAsWritten
  StyleOfNearestCell
  ReadsBack
CHECK_DEADLOCK FALSE
