----------------------------- MODULE MCThrottle -----------------------------
EXTENDS Throttle, TLC

\* The connections are interchangeable: no property and no constant names one.
Slots == Permutations(Conns)
=============================================================================
