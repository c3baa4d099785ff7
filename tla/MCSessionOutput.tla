-------------------------- MODULE MCSessionOutput --------------------------
(* Instance of SessionOutput for TLC: the root and one overlay.            *)
EXTENDS SessionOutput

MCOrigins == {1, 2}
=============================================================================
