-------------------------------- MODULE MCApp --------------------------------
(* MonitorApp on small instances. *)
EXTENDS MonitorApp
=============================================================================
