-------------------------------- MODULE MCAuth --------------------------------
(* AuthProvisioning on a small instance, with short keys. *)
EXTENDS AuthProvisioning
=============================================================================
