----------------------------- MODULE MCSensors -----------------------------
(* The sensor of the data sheet's example.                                 *)
EXTENDS Sensors

MCEprom == Example
=============================================================================
