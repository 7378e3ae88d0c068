SPECIFICATION Spec
CONSTANTS
  a = a
  b = b
  x = x
  y = y
  Dash = Dash
  Dots = Dots
  Bars = Bars
  Eqs = Eqs
  Root = Root
  None = None
  All = All
  Missing = Missing
  Escaping = Escaping
  Malformed = Malformed
  Files = {a}
  Names = {x, y}
  Delims = {Dash, Dots, Bars, Eqs}
  VerbatimDelims = {Dash, Dots}
  Table = Bars
  Trees <- StrictTrees
  LaterTrees <- RepeatTrees
  InitialAttributes = {y}
  Strict = TRUE
  PreprocessDirectives = TRUE
  MaxCalls = 2
CHECK_DEADLOCK FALSE
INVARIANTS
  LineMapNearby
PROPERTIES
  RegionsMeetBlocks
  OnlyActiveText
