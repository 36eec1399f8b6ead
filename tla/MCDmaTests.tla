----------------------------- MODULE MCDmaTests -----------------------------
\* DmaTests.tla for TLC.
EXTENDS DmaTests
=============================================================================
