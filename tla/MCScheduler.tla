---------------------------- MODULE MCScheduler ----------------------------
\* One plugin with a task that runs once and a periodic one.
EXTENDS Scheduler
CONSTANTS once, repeated, plugin, h1
MCOwner == [t \in {once, repeated} |-> plugin]
=============================================================================
