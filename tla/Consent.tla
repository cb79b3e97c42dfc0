------------------------------ MODULE Consent ------------------------------
(***************************************************************************)
(* What the owner of a contact may rely on, however many records hold the  *)
(* contact and however they are confirmed, merged and stopped.             *)
(*                                                                         *)
(* Alerts go to a contact that was asked and answered.  A token is sent to *)
(* one contact; presenting it turns that contact on and no other, and      *)
(* spends it.  Stopping a contact voids every token sent to it so far.     *)
(*                                                                         *)
(* Subscriptions implements this specification.                            *)
(***************************************************************************)
EXTENDS Naturals

CONSTANT Inboxes

VARIABLES
    sent,       \* tokens are numbered in the order they are sent
    asked,      \* the tokens sent to a contact that it can still present
    answered,   \* the tokens it presented
    on,         \* the contacts that alerts go to
    stopped     \* how many tokens were sent when a contact was last stopped

consentVars == <<sent, asked, answered, on, stopped>>

ConsentTypeOK ==
    /\ sent \in Nat
    /\ asked \in [Inboxes -> SUBSET Nat]
    /\ answered \in [Inboxes -> SUBSET Nat]
    /\ on \in SUBSET Inboxes
    /\ stopped \in [Inboxes -> Nat]

ConsentInit ==
    /\ sent = 0
    /\ asked = [a \in Inboxes |-> {}]
    /\ answered = [a \in Inboxes |-> {}]
    /\ on = {}
    /\ stopped = [a \in Inboxes |-> 0]

\* No contact can present a token that it could not before.
NoNewToken == \A a \in Inboxes : asked'[a] \subseteq asked[a]

\* New tokens are sent, each to one contact; older ones may be replaced.
Ask ==
    /\ sent' \in Nat /\ sent' > sent
    /\ asked' \in [Inboxes -> SUBSET Nat]
    /\ \A a \in Inboxes : asked'[a] \subseteq asked[a] \cup (sent + 1 .. sent')
    /\ \A a, b \in Inboxes : a # b => asked'[a] \cap asked'[b] = {}
    /\ UNCHANGED <<answered, on, stopped>>

\* Contact a presents token c.  One other contact may go off: that of a record
\* which is folded into one that has another contact in its place.
Answer(a, c) ==
    /\ c \in asked[a]
    /\ answered' = [answered EXCEPT ![a] = @ \cup {c}]
    /\ a \in on' /\ on' \subseteq on \cup {a}
    /\ \E b \in Inboxes : on \ on' \subseteq {b}
    /\ asked' \in [Inboxes -> SUBSET Nat]
    /\ NoNewToken /\ c \notin asked'[a]
    /\ UNCHANGED <<sent, stopped>>

\* The owner of contact a stops it.
Stop(a) ==
    /\ on' = on \ {a}
    /\ asked' = [asked EXCEPT ![a] = {}]
    /\ stopped' = [stopped EXCEPT ![a] = sent]
    /\ UNCHANGED <<sent, answered>>

\* A rider leaves by the preference page: the two contacts of the record, a
\* and b, may go off and their tokens may be void.
Leave(a, b) ==
    /\ on' \subseteq on /\ on \ on' \subseteq {a, b}
    /\ asked' \in [Inboxes -> SUBSET Nat]
    /\ NoNewToken
    /\ \A x \in Inboxes \ {a, b} : asked'[x] = asked[x]
    /\ UNCHANGED <<sent, answered, stopped>>

ConsentNext ==
    \/ Ask
    \/ \E a \in Inboxes : \E c \in asked[a] : Answer(a, c)
    \/ \E a \in Inboxes : Stop(a)
    \/ \E a, b \in Inboxes : Leave(a, b)

ConsentSpec == ConsentInit /\ [][ConsentNext]_consentVars

\* Alerts go to a contact only if it presented a token that was sent to it
\* after it was last stopped.
OnByConsent ==
    \A a \in on : \E c \in answered[a] : c > stopped[a]

\* No token can be presented by two contacts, nor after a stop that came later.
AskedOnce ==
    /\ \A a \in Inboxes : \A c \in asked[a] : stopped[a] < c /\ c <= sent
    /\ \A a, b \in Inboxes : a # b => asked[a] \cap asked[b] = {}

=============================================================================
