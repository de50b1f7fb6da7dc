\* The receive callback or the application calls pause() and resume().
CONSTANTS
  e0 = e0
  g0 = g0
  Empty <- MCEmpty
  Garbage <- MCGarbage
  MaxBuf = 3
  PktLens <- MCPktLens
  MaxSends = 3
  MaxConnects = 1
  MaxPauses = 2
  NetErrors = TRUE
SPECIFICATION Spec
INVARIANT AtMostOneWrite WireInOrder
