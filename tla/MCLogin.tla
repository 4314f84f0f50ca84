------------------------------- MODULE MCLogin -------------------------------
\* Names of the case variants "Bob" and "bob" of one user and of another, "Eve".
EXTENDS Login, TLC
CONSTANTS c1, c2, c3, Bob, bob, Eve, kBob, kEve
MCFold == [n \in Name |-> IF n = Eve THEN kEve ELSE kBob]
MCCanon == [n \in Name |-> IF n = bob THEN Bob ELSE n]
\* The slots are interchangeable: no property and no constant names one.
Slots == Permutations(Client)
=============================================================================
