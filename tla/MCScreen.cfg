SPECIFICATION Spec
INVARIANTS
  FramesFollow
  MouseAgrees
  SoundAgrees
CHECK_DEADLOCK FALSE
