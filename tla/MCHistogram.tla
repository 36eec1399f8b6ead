---------------------------- MODULE MCHistogram ----------------------------
(* Histogram with the constants of a configuration file.                   *)
EXTENDS Histogram
=============================================================================
