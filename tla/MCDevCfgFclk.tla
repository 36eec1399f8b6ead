---------------------------- MODULE MCDevCfgFclk ----------------------------
\* DevCfgFclk.tla for TLC: the values of the constants are in DevCfgFclk.cfg.
EXTENDS DevCfgFclk
=============================================================================
