-------------------------- MODULE MCTerminalSession --------------------------
(* Two ssh requests one after the other, or one with peers that stall; two  *)
(* operations entered at any time, on any queue.                            *)
EXTENDS TerminalSession
=============================================================================
