--------------------------- MODULE MCLagoTrigger ---------------------------
(* LagoTrigger with the constants of a configuration file.                 *)
EXTENDS LagoTrigger
=============================================================================
