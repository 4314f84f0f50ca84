---------------------------- MODULE MCAsyncEvent ----------------------------
\* Three tasks of two plugins: a plugin with two intents and one with one.
EXTENDS AsyncEvent, TLC
CONSTANTS t1, t2, t3, p1, p2
MCOwner == (t1 :> p1) @@ (t2 :> p1) @@ (t3 :> p2)
\* Every task of a plugin of its own: no counter can be overwritten.
MCOwnPlugin == (t1 :> t1) @@ (t2 :> t2) @@ (t3 :> t3)
=============================================================================
