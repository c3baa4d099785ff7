----------------------- MODULE MCSessionOutboundQueue -----------------------
(* Instances of SessionOutboundQueue for TLC: a current generation and a    *)
(* stale one.                                                               *)
EXTENDS SessionOutboundQueue

MCGenerations == {1, 2}
=============================================================================
