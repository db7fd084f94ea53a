CONSTANTS
  Half = 8
  MaxWords = 2
  LowPairs = {0, 9, 50, 99}
  Sizes = {8, 16, 32}
  Starts <- MCStarts
  Lists <- MCLists
  SubAt = 40
  MaxOpen = 3
  MaxSteps = 5
INIT MCInit
NEXT MCNext
INVARIANTS ChainExact ConditionsHold DivisionExact ManyAsOne SameByAnotherWay
PROPERTIES UnwindsExactly
CHECK_DEADLOCK FALSE
