------------------------------ MODULE MCJanusQueue ------------------------------
(* An instance of JanusQueue for TLC. *)
EXTENDS JanusQueue

MCProcs == 1 .. 3
=============================================================================
