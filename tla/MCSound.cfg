CONSTANTS
  MAX_SAMPLES = 3
  MAX_CHANNELS = 2
  SND_FREQ = 2
  Hyperspace = 1
  Noise = 2
  Formats = {"AUDIO_S16", "AUDIO_U8", "other"}
  Lengths = {2, 4}
  Frames = 2
  NULL = NULL
SPECIFICATION Spec
INVARIANTS
  ReadsInside
  ReadsInOrder
PROPERTY HeardToTheEnd
