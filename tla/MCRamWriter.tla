---------------------------- MODULE MCRamWriter ----------------------------
(* RamWriter with the constants of a configuration file.                   *)
EXTENDS RamWriter
=============================================================================
