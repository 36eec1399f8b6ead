--------------------------- MODULE MCReadoutRing ---------------------------
(* ReadoutRing with the constants of a configuration file.                 *)
EXTENDS ReadoutRing
=============================================================================
