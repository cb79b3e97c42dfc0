------------------------- MODULE EventNotification -------------------------
(***************************************************************************)
(* Telling the operations channel that a bus crossed a geofence: the queue *)
(* of detected crossings, the handler that drafts a notification and posts *)
(* it to Teams, and the operators who review the drafts, send, dismiss and *)
(* acknowledge them.  Handler and operators post under a claim: a token in *)
(* the row, and a lease of five minutes.                                   *)
(*                                                                         *)
(* Claims on a notification are numbered; attempt k is whoever took claim  *)
(* k, from its UPDATE to its last write.  Delivery n of a crossing's       *)
(* message is a run of the handler; runs overlap when the lock on the      *)
(* message is lost.                                                        *)
(***************************************************************************)
EXTENDS Naturals

CONSTANTS
    Crossings,      \* detected crossings
    AutoSent,       \* those whose matched rule sends automatically
    Track,          \* vehicle, plan, geofence and transition of a crossing
    At,             \* crossed_at
    Cooldown,       \* MOVEMENT_NOTIFICATION_COOLDOWN_SECONDS (60)
    MaxDeliveries,  \* maxDeliveryCount of the queue (5)
    MaxClaims       \* bound on the claims taken on one notification

ASSUME NotificationAssumption ==
    /\ AutoSent \subseteq Crossings
    /\ At \in [Crossings -> Nat]
    /\ Cooldown \in Nat /\ MaxDeliveries \in Nat \ {0} /\ MaxClaims \in Nat

VARIABLES
    status,      \* EventGeofenceNotifications.status (none: no row)
    token,       \* delivery_claim_token, as the claim's number (0: NULL)
    claims,      \* claims taken so far
    lapsed,      \* claims up to this one are older than the lease
    old,         \* created_at is 24 hours ago or more
    attempt,     \* what the worker of a claim is doing
    enabled,     \* EventOperationalMessaging.automatic_teams_enabled
    cooldowns,   \* crossings with a row in EventGeofenceNotificationCooldowns
    queue,       \* the message on event-geofence-notifications
    deliveries,  \* how often it was delivered
    run,         \* the handler's local state, by crossing and delivery
    accepted,    \* history: the claims under which Teams took the post
    unanswered   \* history: those of them whose answer was lost on the way

rowVars == <<status, token, claims, lapsed, old, enabled, cooldowns>>
workVars == <<attempt, accepted, unanswered>>
queueVars == <<queue, deliveries, run>>
vars == <<rowVars, workVars, queueVars>>

Claims == 1 .. MaxClaims
Runs == 1 .. MaxDeliveries
Statuses ==
    {"pending", "acknowledged", "sending", "sent", "dismissed", "failed", "expired"}
Final == {"sent", "dismissed", "failed", "expired"}
Results == {"sent", "pending", "failed"}     \* what a finished post writes
Working == {"posting"} \cup Results

RunStates ==
    [phase : {"none", "expiring", "deciding", "drafting", "inserting", "claiming",
              "delivering", "done"},
     auto : BOOLEAN,           \* automaticDelivery, as the run read it
     claim : 0 .. MaxClaims]

Phase(phase) == [phase |-> phase, auto |-> FALSE, claim |-> 0]
Inserting(auto) == [phase |-> "inserting", auto |-> auto, claim |-> 0]
Delivering(claim) == [phase |-> "delivering", auto |-> FALSE, claim |-> claim]

Init ==
    /\ status = [c \in Crossings |-> "none"]
    /\ token = [c \in Crossings |-> 0]
    /\ claims = [c \in Crossings |-> 0]
    /\ lapsed = [c \in Crossings |-> 0]
    /\ old = [c \in Crossings |-> FALSE]
    /\ attempt = [c \in Crossings |-> [k \in Claims |-> "none"]]
    /\ enabled \in BOOLEAN
    /\ cooldowns = {}
    /\ queue = [c \in Crossings |-> "unpublished"]
    /\ deliveries = [c \in Crossings |-> 0]
    /\ run = [c \in Crossings |-> [n \in Runs |-> Phase("none")]]
    /\ accepted = [c \in Crossings |-> {}]
    /\ unanswered = [c \in Crossings |-> {}]

-----------------------------------------------------------------------------
(* The queue.                                                               *)

Holds(c, n) == queue[c] = "locked" /\ deliveries[c] = n

Completed(c, n) == IF Holds(c, n) THEN [queue EXCEPT ![c] = "completed"] ELSE queue

Returned(c, n) ==
    IF Holds(c, n)
    THEN [queue EXCEPT ![c] = IF n = MaxDeliveries THEN "dead" ELSE "queued"]
    ELSE queue

\* The handler goes on, returns, or throws.
GoTo(c, n, state) ==
    /\ run' = [run EXCEPT ![c][n] = state]
    /\ UNCHANGED queue

Return(c, n) ==
    /\ run' = [run EXCEPT ![c][n] = Phase("done")]
    /\ queue' = Completed(c, n)

Throw(c, n) ==
    /\ run' = [run EXCEPT ![c][n] = Phase("done")]
    /\ queue' = Returned(c, n)

\* A crossing is recorded and its message sent (a send that fails is logged and
\* forgotten: the crossing stays unpublished).
Publish(c) ==
    /\ queue[c] = "unpublished"
    /\ queue' = [queue EXCEPT ![c] = "queued"]
    /\ UNCHANGED <<rowVars, workVars, deliveries, run>>

\* The lock is lost by a host that stalls, or stops.
LoseLock(c, n) ==
    /\ run[c][n].phase \notin {"none", "done"}
    /\ Holds(c, n)
    /\ queue' = Returned(c, n)
    /\ UNCHANGED <<rowVars, workVars, deliveries, run>>

\* The host stops, or a query throws, outside a delivery attempt.
Abort(c, n) ==
    /\ run[c][n].phase \notin {"none", "delivering", "done"}
    /\ Throw(c, n)
    /\ UNCHANGED <<rowVars, workVars, deliveries>>

-----------------------------------------------------------------------------
(* Claims.                                                                  *)

\* Mutant of Claimable: the lease is not looked at.
ClaimableAnytime(c, actionable) ==
    /\ ~old[c]
    /\ status[c] \in actionable \cup {"sending"}

\* eventNotificationClaimSql: who may take the row.
Claimable(c, actionable) ==
    /\ ~old[c]
    /\ \/ status[c] \in actionable
       \/ status[c] = "sending" /\ token[c] <= lapsed[c]

\* The claiming UPDATE.
TakeClaim(c, actionable) ==
    LET k == claims[c] + 1
    IN
    /\ Claimable(c, actionable)
    /\ k \in Claims
    /\ status' = [status EXCEPT ![c] = "sending"]
    /\ token' = [token EXCEPT ![c] = k]
    /\ claims' = [claims EXCEPT ![c] = k]
    /\ attempt' = [attempt EXCEPT ![c][k] = "posting"]
    /\ UNCHANGED <<lapsed, old, enabled, cooldowns, accepted, unanswered>>

\* The runs that wait for attempt k.
RunsOf(c, k) == {n \in Runs : run[c][n].phase = "delivering" /\ run[c][n].claim = k}

\* The post: taken, refused for good, or failed transiently, which includes a
\* timeout of a post that Teams took.
Post(c, k, result, took) ==
    /\ attempt[c][k] = "posting"
    /\ result = "sent" => took
    /\ result = "failed" => ~took
    /\ attempt' = [attempt EXCEPT ![c][k] = result]
    /\ accepted' = IF took THEN [accepted EXCEPT ![c] = @ \cup {k}] ELSE accepted
    /\ unanswered' = IF took /\ result # "sent"
                     THEN [unanswered EXCEPT ![c] = @ \cup {k}] ELSE unanswered
    /\ UNCHANGED <<rowVars, queueVars>>

\* Mutant of Fenced: the token is not compared.
FencedByStatus(c, k) == status[c] = "sending"

\* Mutant of Fenced: neither status nor token is compared.
FencedNot(c, k) == TRUE

\* The condition of the finishing UPDATE.
Fenced(c, k) == status[c] = "sending" /\ token[c] = k

\* finishEventNotificationDelivery, and the handler's return behind it: a
\* transient failure throws.
FinishDelivery(c, k) ==
    LET result == attempt[c][k]
    IN
    /\ result \in Results
    /\ IF Fenced(c, k)
       THEN /\ status' = [status EXCEPT ![c] = result]
            /\ token' = [token EXCEPT ![c] = 0]
       ELSE UNCHANGED <<status, token>>
    /\ attempt' = [attempt EXCEPT ![c][k] = "done"]
    /\ IF RunsOf(c, k) = {}
       THEN UNCHANGED <<queue, run>>
       ELSE \E n \in RunsOf(c, k) :
                IF result = "pending" THEN Throw(c, n) ELSE Return(c, n)
    /\ UNCHANGED <<claims, lapsed, old, enabled, cooldowns, accepted, unanswered, deliveries>>

\* The host stops during an attempt, or the finishing UPDATE throws.
Vanish(c, k) ==
    /\ attempt[c][k] \in Working
    /\ attempt' = [attempt EXCEPT ![c][k] = "done"]
    /\ unanswered' = [unanswered EXCEPT ![c] = @ \cup (accepted[c] \cap {k})]
    /\ IF RunsOf(c, k) = {}
       THEN UNCHANGED <<queue, run>>
       ELSE \E n \in RunsOf(c, k) : Throw(c, n)
    /\ UNCHANGED <<rowVars, accepted, deliveries>>

-----------------------------------------------------------------------------
(* The handler of the queue.                                                *)

\* The message is delivered, and the handler looks for the crossing's row.
Deliver(c) ==
    LET n == deliveries[c] + 1
        next == IF status[c] = "none" THEN "drafting"
                ELSE IF status[c] \notin {"pending", "sending"} THEN "done"
                ELSE IF old[c] THEN "expiring" ELSE "deciding"
    IN
    /\ queue[c] = "queued"
    /\ deliveries' = [deliveries EXCEPT ![c] = n]
    /\ run' = [run EXCEPT ![c][n] = Phase(next)]
    /\ queue' = [queue EXCEPT ![c] = IF next = "done" THEN "completed" ELSE "locked"]
    /\ UNCHANGED <<rowVars, workVars>>

\* A retry that comes after the 24 hours.
ExpireRetry(c, n) ==
    /\ run[c][n].phase = "expiring"
    /\ status' = IF status[c] = "pending" THEN [status EXCEPT ![c] = "expired"] ELSE status
    /\ Return(c, n)
    /\ UNCHANGED <<token, claims, lapsed, old, enabled, cooldowns, workVars, deliveries>>

\* shouldAutomaticallyDeliver: the matched rule and the plan's switch.
Automatic(c) == enabled /\ c \in AutoSent

\* A row was there: the plan's messaging setting is read.
Decide(c, n) ==
    /\ run[c][n].phase = "deciding"
    /\ IF Automatic(c) THEN GoTo(c, n, Phase("claiming")) ELSE Return(c, n)
    /\ UNCHANGED <<rowVars, workVars, deliveries>>

\* No row yet: crossing and setting are read for the draft.
Draft(c, n) ==
    /\ run[c][n].phase = "drafting"
    /\ GoTo(c, n, Inserting(Automatic(c)))
    /\ UNCHANGED <<rowVars, workVars, deliveries>>

\* Mutant of Near: only earlier crossings are looked for.
NearEarlier(c, d) == Track[c] = Track[d] /\ At[c] < At[d] + Cooldown /\ At[d] <= At[c]

\* Within the cooldown of one another, whichever was handled first.
Near(c, d) == Track[c] = Track[d] /\ At[c] < At[d] + Cooldown /\ At[d] < At[c] + Cooldown

\* The draft of a crossing that is not sent automatically: for review.
InsertForReview(c, n) ==
    /\ run[c][n].phase = "inserting" /\ ~run[c][n].auto
    /\ status[c] = "none"
    /\ status' = [status EXCEPT ![c] = "pending"]
    /\ Return(c, n)
    /\ UNCHANGED <<token, claims, lapsed, old, enabled, cooldowns, workVars, deliveries>>

\* One transaction: look for a crossing nearby, reserve the cooldown or mark
\* the draft suppressed.
InsertWithCooldown(c, n) ==
    LET suppressed == \E d \in cooldowns : Near(c, d)
    IN
    /\ run[c][n].phase = "inserting" /\ run[c][n].auto
    /\ status[c] = "none"
    /\ status' = [status EXCEPT ![c] = IF suppressed THEN "dismissed" ELSE "pending"]
    /\ cooldowns' = IF suppressed THEN cooldowns ELSE cooldowns \cup {c}
    /\ IF suppressed THEN Return(c, n) ELSE GoTo(c, n, Phase("claiming"))
    /\ UNCHANGED <<token, claims, lapsed, old, enabled, workVars, deliveries>>

\* The insert fails, on another run's row for the crossing or for any other
\* reason: nothing is written and the message is completed.
InsertFails(c, n) ==
    /\ run[c][n].phase = "inserting"
    /\ Return(c, n)
    /\ UNCHANGED <<rowVars, workVars, deliveries>>

\* deliver, up to the post.
ClaimAutomatic(c, n) ==
    /\ run[c][n].phase = "claiming"
    /\ TakeClaim(c, {"pending"})
    /\ GoTo(c, n, Delivering(claims[c] + 1))
    /\ UNCHANGED deliveries

\* Nothing to claim, or no webhook configured: the message is completed.
ClaimNothing(c, n) ==
    /\ run[c][n].phase = "claiming"
    /\ Return(c, n)
    /\ UNCHANGED <<rowVars, workVars, deliveries>>

-----------------------------------------------------------------------------
(* Operators, and time.                                                     *)

\* send: its first read can only refuse, the claim decides.
SendByHand(c) ==
    /\ TakeClaim(c, {"pending", "acknowledged"})
    /\ UNCHANGED queueVars

\* send, dismiss and acknowledge on one row.
SetStatus(c, from, to) ==
    /\ status[c] \in from
    /\ status' = [status EXCEPT ![c] = to]
    /\ UNCHANGED <<token, claims, lapsed, old, enabled, cooldowns, workVars, queueVars>>

ExpireByHand(c) == old[c] /\ SetStatus(c, {"pending", "acknowledged"}, "expired")

Dismiss(c) == SetStatus(c, {"pending", "acknowledged"}, "dismissed")

\* Mutant of Acknowledge: a row that is being sent can be acknowledged.
AcknowledgeSending(c) == SetStatus(c, {"pending", "sending"}, "acknowledged")

Acknowledge(c) == SetStatus(c, {"pending"}, "acknowledged")

\* The list of notifications expires, for all at once, what is a day old.
ListNotifications ==
    LET due == {c \in Crossings :
                    old[c] /\ status[c] \in {"pending", "acknowledged", "sending"}}
    IN
    /\ due # {}
    /\ status' = [c \in Crossings |-> IF c \in due THEN "expired" ELSE status[c]]
    /\ token' = [c \in Crossings |-> IF c \in due THEN 0 ELSE token[c]]
    /\ UNCHANGED <<claims, lapsed, old, enabled, cooldowns, workVars, queueVars>>

\* Automatic delivery is switched for the plan.
SwitchMessaging ==
    /\ enabled' = ~enabled
    /\ UNCHANGED <<status, token, claims, lapsed, old, cooldowns, workVars, queueVars>>

LeasePasses(c) ==
    /\ lapsed[c] < claims[c]
    /\ lapsed' = [lapsed EXCEPT ![c] = claims[c]]
    /\ UNCHANGED <<status, token, claims, old, enabled, cooldowns, workVars, queueVars>>

DayPasses(c) ==
    /\ status[c] # "none" /\ ~old[c]
    /\ old' = [old EXCEPT ![c] = TRUE]
    /\ UNCHANGED <<status, token, claims, lapsed, enabled, cooldowns, workVars, queueVars>>

-----------------------------------------------------------------------------
RunStep(c, n) ==
    \/ ExpireRetry(c, n) \/ Decide(c, n) \/ Draft(c, n)
    \/ InsertForReview(c, n) \/ InsertWithCooldown(c, n) \/ InsertFails(c, n)
    \/ ClaimAutomatic(c, n) \/ ClaimNothing(c, n)
    \/ LoseLock(c, n) \/ Abort(c, n)

AttemptStep(c, k) ==
    \/ \E result \in Results, took \in BOOLEAN : Post(c, k, result, took)
    \/ FinishDelivery(c, k)
    \/ Vanish(c, k)

OperatorStep(c) ==
    SendByHand(c) \/ ExpireByHand(c) \/ Dismiss(c) \/ Acknowledge(c)

Next ==
    \/ \E c \in Crossings :
        \/ Publish(c) \/ Deliver(c) \/ OperatorStep(c) \/ LeasePasses(c) \/ DayPasses(c)
        \/ \E n \in Runs : RunStep(c, n)
        \/ \E k \in Claims : AttemptStep(c, k)
    \/ ListNotifications
    \/ SwitchMessaging

Spec == Init /\ [][Next]_vars

-----------------------------------------------------------------------------
(* Properties.                                                              *)

\* Every column, attempt and local variable stays in its domain; a claim token
\* is there exactly while the row is being sent.
NotificationTypeOK ==
    /\ status \in [Crossings -> Statuses \cup {"none"}]
    /\ token \in [Crossings -> 0 .. MaxClaims]
    /\ claims \in [Crossings -> 0 .. MaxClaims]
    /\ lapsed \in [Crossings -> 0 .. MaxClaims]
    /\ old \in [Crossings -> BOOLEAN]
    /\ enabled \in BOOLEAN
    /\ cooldowns \subseteq Crossings
    /\ attempt \in [Crossings -> [Claims -> Working \cup {"none", "done"}]]
    /\ queue \in [Crossings -> {"unpublished", "queued", "locked", "completed", "dead"}]
    /\ deliveries \in [Crossings -> 0 .. MaxDeliveries]
    /\ run \in [Crossings -> [Runs -> RunStates]]
    /\ accepted \in [Crossings -> SUBSET Claims]
    /\ unanswered \in [Crossings -> SUBSET Claims]
    /\ \A c \in Crossings : status[c] = "sending" <=> token[c] # 0

\* A notification that was sent, dismissed, refused or expired stays that way,
\* whatever answers, retries and operators come later.
FinalIsFinal ==
    [][\A c \in Crossings : status[c] \in Final => status'[c] = status[c]]_vars

\* Whoever is posting within the lease has the row reserved: no other attempt
\* can take it or write it (migration-077: "prevents concurrent queue workers
\* or operators from posting the same Event notification").  Only the day's
\* expiry may close it meanwhile.
PostingIsReserved ==
    \A c \in Crossings : \A k \in Claims :
        attempt[c][k] \in Working /\ k > lapsed[c] =>
            (status[c] = "sending" /\ token[c] = k) \/ status[c] = "expired"

\* Teams takes the post of a crossing twice only when the first answer got
\* lost, in a timeout or with its host, or came after the lease.
TwiceOnlyAfterLapse ==
    \A c \in Crossings : \A j, k \in accepted[c] :
        j < k => j \in unanswered[c] \/ j <= lapsed[c]

\* Two crossings of one fence by one bus in one direction within the cooldown
\* are not both drafted for automatic delivery, in whatever order their
\* messages are handled.
CooldownHolds ==
    \A c, d \in cooldowns : c # d => ~Near(c, d)

\* Refinement: the claims on the rows are leases.
LeasePhase(c) ==
    IF status[c] = "none" THEN "absent"
    ELSE IF status[c] \in {"pending", "acknowledged"} THEN "open"
    ELSE IF status[c] = "sending" THEN "held" ELSE "closed"

ClaimLease == INSTANCE Lease WITH
    Items <- Crossings,
    phase <- [c \in Crossings |-> LeasePhase(c)],
    holder <- token,
    working <- [c \in Crossings |-> {k \in Claims : attempt[c][k] \in Working}],
    taken <- claims,
    outlived <- lapsed

\* Claiming, posting, finishing, failing and expiring are steps of Lease: an
\* attempt that lost its claim changes nothing any more.
ImplementsLease == ClaimLease!LeaseSpec

=============================================================================
