SPECIFICATION FairSpec
CONSTANTS
  MaxInterrupts = 2
  HandlerFn <- MCHandlerFn
  NoFn = NoFn
  vbl = vbl
  ShortMod = 32
  NoInterrupt = 999
  InsnCycles = 4
  PendingDelay = 12
  PollPeriod = 9
  BufSize = 2
  SetupLen = 4
  VblLen = 1
  GuestInsns = {}
  SrMasks = {}
  Shortcuts = {"quit"}
PROPERTIES VblKeepsComing InputServed
