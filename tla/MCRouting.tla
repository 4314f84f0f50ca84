------------------------------ MODULE MCRouting ------------------------------
\* One user, up to three servers, the first two of them in the fallback order.
EXTENDS Routing, TLC
CONSTANTS s1, s2, s3, c1, c2, c3, c4, t1
MCPriority == <<s1, s2>>
\* The slots are interchangeable: no property and no constant names one.
Slots == Permutations(Conn)
=============================================================================
