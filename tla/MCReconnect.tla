----------------------------- MODULE MCReconnect -----------------------------
(* ReconnectingTCP on small instances. *)
EXTENDS ReconnectingTCP
=============================================================================
