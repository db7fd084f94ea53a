SPECIFICATION Spec
CONSTANTS
  jameson = jameson
  saves = saves
  MaxFileHandles = 2
  Streams = {f}
  NoStream = NoStream
  HostFiles = {1, 2, 3}
  Directories = {3}
  StNames = {jameson, saves}
  StName <- MCStName
  Fits <- MCFits
  Own <- MCOwn
  MaxLen = 1
  MaxDtas = 2
  NoList = NoList
  MaxEntries = 3
INVARIANTS StreamsKept HandlesReturned ListingFaithful NothingFails SaveIsKept
