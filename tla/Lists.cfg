SPECIFICATION Spec
CONSTANTS
  m1 = m1
  m2 = m2
  None = None
  Markers = {m1, m2}
  Sources <- AllSources
INVARIANTS
  TypeOK
  NestedUnderNearest
  AttachedInOrder
CHECK_DEADLOCK FALSE
