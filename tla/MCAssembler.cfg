CONSTANTS
  Keys = {1, 2, 3, 4, 5, 6}
  Null = Null
  Used = {2, 4}
  Gaps = {126, 250, 251, 505}
  Kinds = {"data", "absolute", "short", "branch", "index", "relative", "movem", "btst"}
  Budget = 6
SPECIFICATION Spec
INVARIANTS Balanced PointersRelocated LabelsReached
PROPERTY SymbolsKept
CHECK_DEADLOCK FALSE
