SPECIFICATION Spec
CONSTANTS
  MaxConns = 6
  MaxRouteDepth = 3
  MaxPinOptions = 2
  Source <- MCSource
  Index <- MCIndex
  PinOption <- MCPinOption
  PinFile <- MCPinFile
  Verb <- MCVerb
INVARIANT TypeOK
INVARIANT RightCodec
INVARIANT ReadBack
INVARIANT InitPinsOverride
INVARIANT RoutesFound
CHECK_DEADLOCK FALSE
