------------------------ MODULE MCSessionOutputPump ------------------------
(* Instance of SessionOutputPump for TLC: more readers than slots, so that  *)
(* one waits.                                                               *)
EXTENDS SessionOutputPump

MCOrigins == {1, 2, 3}
=============================================================================
