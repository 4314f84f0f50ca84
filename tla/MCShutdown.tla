----------------------------- MODULE MCShutdown -----------------------------
EXTENDS Shutdown, TLC

Symmetry == Permutations(Users)
=============================================================================
