--------------------------- MODULE MCAlertDispatch ---------------------------
(***************************************************************************)
(* A small instance of AlertDispatch for the liveness of a fan-out.        *)
(***************************************************************************)
EXTENDS AlertDispatch

CONSTANTS a1, a2

\* An alert that names one audience twice, and another in between.
Repeated == <<a1, a2, a1>>

\* The riders sign up, confirm and stop before the alert is published.  Either
\* somebody has signed up, or it has posts that Teams takes or that are logged.
OneKindOfReader ==
    /\ (\E m \in Messages : queue[m] # "unpublished") => UNCHANGED vars
    /\ \/ issued' = 0
       \/ posted' = {} /\ \A m \in Messages, a \in Audiences : teamsLog'[m][a] = None

=============================================================================
