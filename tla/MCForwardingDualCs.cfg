CONSTANTS
  a = a
  b = b
  c = c
  n1 = n1
  n2 = n2
  Own = Own
  NoToken = NoToken
  Faces <- MCFaces
  AdHoc <- MCAdHoc
  NextHops <- MCNextHops
  Nonces <- MCNonces
  TokenOnOriginal = TRUE
  Admit = TRUE
  AdmitUnsolicited = FALSE
  MaxInterests = 3
  MaxData = 2
  MaxNacks = 1

SPECIFICATION Spec
INVARIANT EchoesDownstreamToken
CHECK_DEADLOCK FALSE
