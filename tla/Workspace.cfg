SPECIFICATION Spec
CONSTANTS
  Files = {a, b, c}
  Anchors = {s}
  Root = Root
  Absent = Absent
  NoFile = NoFile
  Gone = Gone
  Broken = Broken
  MaxBuilds = 2
SYMMETRY AnyFile
CHECK_DEADLOCK FALSE
INVARIANTS
  TypeOK
  GraphsFit
  LiveFirst
PROPERTIES
  WarnedThisBuild
