SPECIFICATION Spec
CONSTANTS
  p = p
  q = q
  None = None
  Callers = {p, q}
  Requests <- TheRequests
  FaultsOf <- TheFaults
  CellsOf <- TheCells
  NoSchemes = "none"
  Anchored = {"page", "note"}
  Attributed = {"page", "note"}
  WantsDocinfo = {"note"}
  MaxEntries = 1
  MaxCalls = 2
  MaxEvents = 2
SYMMETRY Alike
CHECK_DEADLOCK FALSE
INVARIANTS
  TypeOK
  CachePristine
  
PROPERTIES
  
  OwnUnlessKept
