-------------------------------- MODULE MCMux --------------------------------
(* StreamMux with two companions besides Serial. *)
EXTENDS StreamMux
=============================================================================
