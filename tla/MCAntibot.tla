----------------------------- MODULE MCAntibot -----------------------------
EXTENDS Antibot, TLC

\* The slots are interchangeable: no property and no constant names one.
Slots == Permutations(Conns)
=============================================================================
