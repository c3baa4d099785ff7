---------------------------- MODULE MCTransports ----------------------------
(* Instance of Transports for TLC: the queue's worker and a reader with a   *)
(* reply write; the session closes, and so does Dispose.                    *)
EXTENDS Transports
=============================================================================
