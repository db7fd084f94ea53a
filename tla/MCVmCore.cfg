SPECIFICATION Spec
CONSTANTS
  MaxInterrupts = 2
  HandlerFn <- MCHandlerFn
  NoFn = NoFn
  vbl = vbl
  ShortMod = 32
  NoInterrupt = 999
  InsnCycles = 4
  PendingDelay = 12
  PollPeriod = 7
  BufSize = 2
  SetupLen = 4
  VblLen = 1
  GuestInsns = {"sr", "stop", "reset"}
  SrMasks = {0, 4, 7}
  Shortcuts = {"reset", "quit", "dialog"}
INVARIANTS RetryKept RequestSeen Nesting
PROPERTIES KeepsTime VblAccounted
