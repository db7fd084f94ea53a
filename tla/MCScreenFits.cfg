SPECIFICATION Spec
INVARIANT PictureFits
CHECK_DEADLOCK FALSE
