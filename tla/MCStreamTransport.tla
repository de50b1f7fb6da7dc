-------------------------- MODULE MCStreamTransport --------------------------
EXTENDS StreamTransport

CONSTANTS e0, g0

MCEmpty == e0
MCGarbage == g0
MCPktLens == <<1, 2>>
MCPktLens1 == <<2>>

==============================================================================
