------------------------------ MODULE MCDevCfg ------------------------------
\* DevCfg.tla for TLC: the values of the constants are in DevCfg.cfg.
EXTENDS DevCfg
=============================================================================
