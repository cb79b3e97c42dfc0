--------------------------- MODULE MCSubscriptions ---------------------------
(***************************************************************************)
(* Small instances of Subscriptions for TLC.  Record ids, contacts and     *)
(* codes are interchangeable.                                              *)
(***************************************************************************)
EXTENDS Subscriptions, TLC

Symmetry ==
    Permutations(Subs) \cup Permutations(Phones)
        \cup Permutations(Emails) \cup Permutations(Codes)

=============================================================================
