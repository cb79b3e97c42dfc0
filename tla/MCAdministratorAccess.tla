----------------------- MODULE MCAdministratorAccess -------------------------
(* Instances of AdministratorAccess for TLC.                                    *)
EXTENDS AdministratorAccess, TLC

CONSTANTS p, q, a1, a2, w1, w2

MCInitial == {<<p, "admin">>, <<q, "admin">>}
MCAsked ==
    {[action |-> "revoke", on |-> <<p, "admin">>, temporary |-> FALSE],
     [action |-> "revoke", on |-> <<q, "admin">>, temporary |-> FALSE],
     [action |-> "grant", on |-> <<p, "admin">>, temporary |-> TRUE]}
\* Only one of the two changes is claimed a second time.
MCThreeClaims == claim[1] + claim[2] <= 3

MCSymmetry == Permutations(Workers) \cup Permutations(Actors)

=============================================================================
