\* As MCInternalTransport.cfg, checking for use after free.
CONSTANTS
  MaxSends = 3
SPECIFICATION Spec
INVARIANT NoUseAfterFree
\* with every packet sent, the forwarder closed and the client gone, the
\* pair has nothing left to do
CHECK_DEADLOCK FALSE
