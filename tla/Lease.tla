------------------------------- MODULE Lease -------------------------------
(***************************************************************************)
(* What a delivery claim promises, whoever takes it and however they fail. *)
(*                                                                         *)
(* An item is open until somebody takes it.  A claim holds the item until  *)
(* its worker hands the item back or closes it, or until the claim has     *)
(* lapsed and another takes the item over.  A worker whose claim was taken *)
(* over, or whose item was closed meanwhile, may go on working: what it    *)
(* does then leaves the item alone.  Workers may also just disappear.      *)
(*                                                                         *)
(* EventNotification implements this specification.                        *)
(***************************************************************************)
EXTENDS Naturals

CONSTANT Items

VARIABLES
    phase,      \* absent, open, held or closed
    holder,     \* the claim that holds the item (0: none)
    working,    \* the claims whose workers are at work
    taken,      \* claims are numbered in the order they are taken
    outlived    \* claims up to this one have outlived their lease

leaseVars == <<phase, holder, working, taken, outlived>>

LeaseTypeOK ==
    /\ phase \in [Items -> {"absent", "open", "held", "closed"}]
    /\ holder \in [Items -> Nat]
    /\ working \in [Items -> SUBSET Nat]
    /\ taken \in [Items -> Nat]
    /\ outlived \in [Items -> Nat]

LeaseInit ==
    /\ phase = [i \in Items |-> "absent"]
    /\ holder = [i \in Items |-> 0]
    /\ working = [i \in Items |-> {}]
    /\ taken = [i \in Items |-> 0]
    /\ outlived = [i \in Items |-> 0]

\* An item appears, to be worked on or closed from the start.
Offer(i) ==
    /\ phase[i] = "absent"
    /\ \E p \in {"open", "closed"} : phase' = [phase EXCEPT ![i] = p]
    /\ UNCHANGED <<holder, working, taken, outlived>>

\* Somebody takes an item that is open, or whose claim has outlived.
Take(i) ==
    /\ phase[i] = "open" \/ (phase[i] = "held" /\ holder[i] <= outlived[i])
    /\ phase' = [phase EXCEPT ![i] = "held"]
    /\ taken' = [taken EXCEPT ![i] = taken[i] + 1]
    /\ holder' = [holder EXCEPT ![i] = taken[i] + 1]
    /\ working' = [working EXCEPT ![i] = @ \cup {taken[i] + 1}]
    /\ UNCHANGED outlived

\* The claims taken so far grow older than the lease.
Lapse(i) ==
    /\ outlived' = [outlived EXCEPT ![i] = taken[i]]
    /\ UNCHANGED <<phase, holder, working, taken>>

\* A worker is done: the holder's hands back or closes, any other changes
\* nothing.
Finish(i, k) ==
    /\ k \in working[i]
    /\ working' = [working EXCEPT ![i] = @ \ {k}]
    /\ IF holder[i] = k
       THEN /\ \E p \in {"open", "closed"} : phase' = [phase EXCEPT ![i] = p]
            /\ holder' = [holder EXCEPT ![i] = 0]
       ELSE UNCHANGED <<phase, holder>>
    /\ UNCHANGED <<taken, outlived>>

\* A worker disappears.
Disappear(i, k) ==
    /\ k \in working[i]
    /\ working' = [working EXCEPT ![i] = @ \ {k}]
    /\ UNCHANGED <<phase, holder, taken, outlived>>

\* Items are withdrawn, whatever anybody is doing with them.
Withdraw(S) ==
    /\ \A i \in S : phase[i] \in {"open", "held"}
    /\ phase' = [i \in Items |-> IF i \in S THEN "closed" ELSE phase[i]]
    /\ holder' = [i \in Items |-> IF i \in S THEN 0 ELSE holder[i]]
    /\ UNCHANGED <<working, taken, outlived>>

LeaseStep(i) ==
    \/ Offer(i) \/ Take(i) \/ Lapse(i)
    \/ \E k \in working[i] : Finish(i, k) \/ Disappear(i, k)

LeaseNext ==
    \/ \E i \in Items : LeaseStep(i)
    \/ \E S \in SUBSET Items : Withdraw(S)

LeaseSpec == LeaseInit /\ [][LeaseNext]_leaseVars

\* Within its lease a worker has the item to itself: it is the holder, or the
\* item was closed over its head.
ExclusiveWithinLease ==
    \A i \in Items : \A k \in working[i] :
        k > outlived[i] => holder[i] = k \/ phase[i] = "closed"

=============================================================================
