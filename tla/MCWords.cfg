SPECIFICATION Spec
CONSTANTS
  Mnemonics <- MCMnemonics
  WrittenSrc <- MCWrittenSrc
  WrittenDst <- MCWrittenDst
  Masks = {0, 1, 2, 3, 4, 5, 6, 7, 8, 9, 10, 11, 12, 13, 14, 15}
INVARIANTS
  OneMeaning
  SharedFunctions
  ListedAsExecuted
  RoundTrip
  EmitsMeant
CHECK_DEADLOCK FALSE
