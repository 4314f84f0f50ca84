---------------------------- MODULE EventBarrier ----------------------------
(***************************************************************************)
(* What an AsyncEvent promises, without its counters: handlers and tasks   *)
(* open intents, each intent is completed, and the login goes on once,     *)
(* after the last handler returned and the last intent was completed.      *)
(***************************************************************************)
EXTENDS Naturals

CONSTANT Task

VARIABLES
  accepting,     \* handlers are still being called
  outstanding,   \* tasks whose intent is not completed
  proceeded      \* how often the login was continued

Init == accepting = TRUE /\ outstanding = {} /\ proceeded = 0

OpenIntent ==
  /\ accepting \/ outstanding # {}
  /\ \E t \in Task \ outstanding : outstanding' = outstanding \cup {t}
  /\ UNCHANGED <<accepting, proceeded>>

HandlersReturned ==
  /\ accepting /\ accepting' = FALSE
  /\ UNCHANGED <<outstanding, proceeded>>

CompleteIntent ==
  /\ \E t \in outstanding : outstanding' = outstanding \ {t}
  /\ UNCHANGED <<accepting, proceeded>>

Proceed ==
  /\ ~accepting /\ outstanding = {} /\ proceeded = 0
  /\ proceeded' = 1
  /\ UNCHANGED <<accepting, outstanding>>

Next == OpenIntent \/ HandlersReturned \/ CompleteIntent \/ Proceed

Spec == Init /\ [][Next]_<<accepting, outstanding, proceeded>>
=============================================================================
