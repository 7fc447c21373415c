------------------------------- MODULE MCLink -------------------------------
(* MonitorLink on small instances. *)
EXTENDS MonitorLink
CONSTANT k1, k2

\* For the data path alone: allowUnauthenticated matters only in the handshake.
DataInit == LinkInit /\ ~auth.allow
DataSpec == DataInit /\ [][LinkNext]_allVars
=============================================================================
