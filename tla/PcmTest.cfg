SPECIFICATION Spec
CONSTANTS
  Pcm <- MCPcm
  Substreams <- MCSubstreams
  MAX_PCM_STREAMS = 2
  NULL = NULL
  Drv = Drv
  NoDriver = NoDriver
INVARIANTS TypeOK PowerHeldForOpen CallbacksFindChipUp OpenCanBeEnded
