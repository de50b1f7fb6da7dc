---------------------------- MODULE MCForwarding ----------------------------
(* Model values and bounds for checking Forwarding with TLC.              *)
EXTENDS Forwarding

CONSTANTS a, b, c, n1, n2

\* a is only a downstream; b and c are next hops; c is an ad-hoc face
MCFaces == {a, b, c}
MCNextHops == {b, c}
MCAdHoc == {c}
MCNonces == {n1, n2}
=============================================================================
