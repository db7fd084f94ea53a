SPECIFICATION MCSpec
CONSTANTS
  a = a
  left = left
  right = right
  ctrl = ctrl
  caps = caps
  pad = pad
  codeA = codeA
  codeCtrl = codeCtrl
  codeCaps = codeCaps
  codePad = codePad
  codeCursor = codeCursor
  F12 = F12
  NumLock = NumLock
  NoKey = NoKey
  Unmapped = Unmapped
  Keys = {a, ctrl, caps, pad}
  CtrlKeys = {ctrl}
  CapsLock = caps
  FnKeys = {F12}
  DialogKey = F12
  ResetKey = a
  Codes = {codeA, codeCtrl, codeCaps, codePad, codeCursor}
  ScanCode <- MCScanCode
  CapsCode = codeCaps
  Buttons = {left, right}
  KeyBufSize = 3
  MouseBufSize = 3
  MaxMotion = 1
INVARIANT NoStuckKey
PROPERTIES BuffersInOrder ButtonsAgree
