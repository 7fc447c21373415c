------------------------------- MODULE MCStress -------------------------------
(* StressClient on a few cycles and connections. *)
EXTENDS StressClient
=============================================================================
