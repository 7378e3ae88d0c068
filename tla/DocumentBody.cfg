SPECIFICATION Spec
CONSTANTS
  Levels = {0, 1, 2, 3}
  Variants = {"ordered", "unordered"}
  Bodies <- AllBodies
CHECK_DEADLOCK FALSE
INVARIANTS
  TypeOK
  MergedExactly
  NearestOuter
  ReadingOrder
