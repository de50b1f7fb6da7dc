\* A Face that sends, connects, closes and reconnects; no pause().
CONSTANTS
  e0 = e0
  g0 = g0
  Empty <- MCEmpty
  Garbage <- MCGarbage
  MaxBuf = 3
  PktLens <- MCPktLens
  MaxSends = 3
  MaxConnects = 1
  MaxPauses = 0
  NetErrors = TRUE
SPECIFICATION Spec
INVARIANT TypeOK AtMostOneWrite WireInOrder FramingPreserved NoUndefinedBehaviour
PROPERTY SendProgress
