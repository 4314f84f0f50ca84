--------------------------- MODULE MCCommandQueue ---------------------------
\* Two addresses that can be blocked and one that is whitelisted.
EXTENDS CommandQueue, TLC
CONSTANTS a1, a2, local
=============================================================================
