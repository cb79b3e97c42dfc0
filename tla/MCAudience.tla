----------------------------- MODULE MCAudience -----------------------------
(***************************************************************************)
(* Who is sent an alert: the riders it may go to (AlertDispatch), and the  *)
(* alerts a record takes (Audience).  The two share no state, and a        *)
(* behaviour is about one of them (side), from the beginning to the end.   *)
(***************************************************************************)
EXTENDS AlertDispatch, Audience, TLC

VARIABLE side

MCInit ==
    /\ Init /\ DispatchInit /\ AudienceInit
    /\ side \in {"riders", "records"}

MCNext ==
    /\ side' = side
    /\ \/ side = "riders" /\ DispatchNext /\ UNCHANGED audienceVars
       \/ side = "records" /\ AudienceNext /\ UNCHANGED allVars

MCSpec == MCInit /\ [][MCNext]_<<allVars, audienceVars, side>>

\* The riders and their contacts are interchangeable.
Symmetry ==
    Permutations(Subs) \cup Permutations(Phones) \cup Permutations(Emails)
        \cup Permutations(Codes)

\* An alert for riders alone.
NoTargets == <<>>

\* Records are interchangeable too: they are taken in order.
InOrder == \A r, s \in Records : r < s /\ asked[s] # {} => asked[r] # {}

\* The first record says anything about routes, the others name one at most, as a
\* string.
OneSaysAnything ==
    \A r \in Records \ {1} : \A choice \in asked[r] :
        \A e, f \in choice.routes.list : e.text /\ e = f

=============================================================================
