SPECIFICATION FairSpec
CONSTANTS
  FrameMs = 4
  TickMod = 59
  MaxGap = 8
  MaxStart = 13
INVARIANTS TimeKept LagBound
PROPERTY KeepsUp
