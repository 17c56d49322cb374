SPECIFICATION Spec
CONSTANTS
  Pcm <- MCPopulated
  Substreams <- MCSubstreams
  MAX_PCM_STREAMS = 3
  NULL = NULL
  Drv = Drv
  NoDriver = NoDriver
INVARIANT ListedStreamsExist
