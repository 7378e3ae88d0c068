SPECIFICATION Spec
CONSTANTS
  a = a
  b = b
  x = x
  y = y
  Dash = Dash
  Dots = Dots
  Bars = Bars
  Eqs = Eqs
  Root = Root
  None = None
  All = All
  Missing = Missing
  Escaping = Escaping
  Malformed = Malformed
  Files = {a}
  Names = {x, y}
  Delims = {Dash, Dots, Bars, Eqs}
  VerbatimDelims = {Dash, Dots}
  Table = Bars
  Trees <- GluedTrees
  LaterTrees <- GluedTrees
  InitialAttributes = {}
  Strict = FALSE
  PreprocessDirectives = TRUE
  MaxCalls = 1
CHECK_DEADLOCK FALSE
INVARIANTS
  LineMapTrue
