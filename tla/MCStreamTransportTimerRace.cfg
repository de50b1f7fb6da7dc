\* The connect completes and the 4 s timer expires before the io thread runs either handler.
CONSTANTS
  e0 = e0
  g0 = g0
  Empty <- MCEmpty
  Garbage <- MCGarbage
  MaxBuf = 2
  PktLens <- MCPktLens1
  MaxSends = 1
  MaxConnects = 1
  MaxPauses = 0
  NetErrors = FALSE
SPECIFICATION Spec
INVARIANT TimeoutOnlyWhileConnecting
