---------------------------- MODULE MCPulseRate ----------------------------
(* PulseRate with the constants of a configuration file.                   *)
EXTENDS PulseRate
=============================================================================
