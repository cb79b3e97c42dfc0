----------------------- MODULE EventNotification_proofs -----------------------
(***************************************************************************)
(* For any crossings, deliveries and claims: whoever posts within the      *)
(* lease has the row to themselves, Teams is told twice only when an       *)
(* answer was lost or late, what is final stays final, and the claims on   *)
(* the rows are leases in the sense of module Lease.                       *)
(***************************************************************************)
EXTENDS EventNotification, Lease, TLAPS

-----------------------------------------------------------------------------
(* Types.                                                                   *)

LEMMA Numbers ==
    /\ MaxClaims \in Nat /\ MaxDeliveries \in Nat
    /\ Claims \subseteq Nat /\ Claims \subseteq 0 .. MaxClaims
    /\ 0 .. MaxClaims \subseteq Nat
    /\ \A k \in Claims : k > 0
    BY NotificationAssumption DEF Claims

\* The local states a run goes through.
LEMMA LocalStates ==
    /\ \A p \in {"none", "expiring", "deciding", "drafting", "inserting", "claiming", "done"} :
           Phase(p) \in RunStates
    /\ \A b \in BOOLEAN : Inserting(b) \in RunStates
    /\ \A k \in Claims : Delivering(k) \in RunStates
    BY Numbers DEF Phase, Inserting, Delivering, RunStates

QueueStates == {"unpublished", "queued", "locked", "completed", "dead"}

\* A message that can still be delivered has deliveries left.
QueueOK ==
    /\ queue \in [Crossings -> QueueStates]
    /\ deliveries \in [Crossings -> 0 .. MaxDeliveries]
    /\ \A c \in Crossings :
           queue[c] \in {"unpublished", "queued"} => deliveries[c] < MaxDeliveries

RunOK == run \in [Crossings -> [Runs -> RunStates]]

\* A claim token is there exactly while the row is being sent.
CoreOK ==
    /\ status \in [Crossings -> Statuses \cup {"none"}]
    /\ token \in [Crossings -> 0 .. MaxClaims]
    /\ claims \in [Crossings -> 0 .. MaxClaims]
    /\ lapsed \in [Crossings -> 0 .. MaxClaims]
    /\ attempt \in [Crossings -> [Claims -> Working \cup {"none", "done"}]]
    /\ accepted \in [Crossings -> SUBSET Claims]
    /\ unanswered \in [Crossings -> SUBSET Claims]
    /\ \A c \in Crossings : status[c] = "sending" <=> token[c] # 0

RestOK ==
    /\ old \in [Crossings -> BOOLEAN]
    /\ enabled \in BOOLEAN
    /\ cooldowns \subseteq Crossings

Typed == CoreOK /\ RestOK /\ QueueOK /\ RunOK

LEMMA TypedIsTypeOK == Typed => NotificationTypeOK
    BY DEF Typed, NotificationTypeOK, CoreOK, RestOK, QueueOK, RunOK, QueueStates

\* Going on, returning and throwing leave a well-formed queue and run.
LEMMA RunMoves ==
    ASSUME QueueOK, RunOK, deliveries' = deliveries, NEW c \in Crossings, NEW n \in Runs
    PROVE  /\ \A r \in RunStates : GoTo(c, n, r) => QueueOK' /\ RunOK'
           /\ Return(c, n) => QueueOK' /\ RunOK'
           /\ Throw(c, n) => QueueOK' /\ RunOK'
    <1>1. ASSUME NEW r \in RunStates, run' = [run EXCEPT ![c][n] = r]
          PROVE  RunOK'
        BY <1>1 DEF RunOK
    <1>2. queue' = queue => QueueOK'
        BY DEF QueueOK
    <1>3. queue' = Completed(c, n) => QueueOK'
        BY DEF QueueOK, Completed, QueueStates
    <1>4. queue' = Returned(c, n) => QueueOK'
        BY Numbers DEF QueueOK, Returned, Holds, QueueStates, Runs
    <1>5. Phase("done") \in RunStates
        BY LocalStates
    <1> QED
        BY <1>1, <1>2, <1>3, <1>4, <1>5 DEF GoTo, Return, Throw

LEMMA InitTyped == Init => Typed
    BY Numbers, LocalStates, NotificationAssumption
    DEF Init, Typed, CoreOK, RestOK, QueueOK, RunOK, QueueStates, Runs, Claims, Statuses

-----------------------------------------------------------------------------
(* What the steps do to rows and claims, whoever makes them.                *)

CoreKept ==
    UNCHANGED <<status, token, claims, lapsed, attempt, accepted, unanswered>>

\* A row that nobody is sending gets another status.
IdleMove(c) ==
    /\ status[c] \in {"none", "pending", "acknowledged"}
    /\ \E s \in Statuses \ {"sending"} : status' = [status EXCEPT ![c] = s]
    /\ UNCHANGED <<token, claims, lapsed, attempt, accepted, unanswered>>

Taking(c) == TakeClaim(c, {"pending"}) \/ TakeClaim(c, {"pending", "acknowledged"})

Posting(c, k) == \E result \in Results, took \in BOOLEAN : Post(c, k, result, took)

Finishing(c, k) ==
    /\ attempt[c][k] \in Results
    /\ IF Fenced(c, k)
       THEN /\ status' = [status EXCEPT ![c] = attempt[c][k]]
            /\ token' = [token EXCEPT ![c] = 0]
       ELSE UNCHANGED <<status, token>>
    /\ attempt' = [attempt EXCEPT ![c][k] = "done"]
    /\ UNCHANGED <<claims, lapsed, accepted, unanswered>>

Vanishing(c, k) ==
    /\ attempt[c][k] \in Working
    /\ attempt' = [attempt EXCEPT ![c][k] = "done"]
    /\ unanswered' = [unanswered EXCEPT ![c] = @ \cup (accepted[c] \cap {k})]
    /\ UNCHANGED <<status, token, claims, lapsed, accepted>>

CoreStep ==
    \/ CoreKept
    \/ \E c \in Crossings : IdleMove(c) \/ Taking(c) \/ LeasePasses(c)
    \/ \E c \in Crossings : \E k \in Claims : Posting(c, k) \/ Finishing(c, k) \/ Vanishing(c, k)
    \/ ListNotifications

\* The next-state relation, split.
LEMMA NextSplit ==
    Next <=> \/ \E c \in Crossings : Publish(c) \/ Deliver(c)
             \/ \E c \in Crossings : OperatorStep(c) \/ LeasePasses(c) \/ DayPasses(c)
             \/ \E c \in Crossings : \E n \in Runs : RunStep(c, n)
             \/ \E c \in Crossings : \E k \in Claims : AttemptStep(c, k)
             \/ ListNotifications \/ SwitchMessaging
    BY DEF Next

LEMMA RunCore ==
    ASSUME NEW c \in Crossings, NEW n \in Runs, RunStep(c, n)
    PROVE  CoreStep
    <1>1. CASE ExpireRetry(c, n)
        BY <1>1 DEF ExpireRetry, CoreStep, CoreKept, IdleMove, Statuses, workVars
    <1>2. CASE Decide(c, n) \/ Draft(c, n) \/ InsertFails(c, n) \/ ClaimNothing(c, n)
                \/ LoseLock(c, n) \/ Abort(c, n)
        BY <1>2 DEF Decide, Draft, InsertFails, ClaimNothing, LoseLock, Abort, CoreStep, CoreKept,
                   workVars, rowVars
    <1>3. CASE InsertForReview(c, n) \/ InsertWithCooldown(c, n)
        <2>1. IdleMove(c)
            BY <1>3 DEF InsertForReview, InsertWithCooldown, IdleMove, Statuses, workVars
        <2> QED
            BY <2>1 DEF CoreStep
    <1>4. CASE ClaimAutomatic(c, n)
        BY <1>4 DEF ClaimAutomatic, CoreStep, Taking
    <1> QED
        BY <1>1, <1>2, <1>3, <1>4, RunStep(c, n) DEF RunStep

LEMMA AttemptCore ==
    ASSUME NEW c \in Crossings, NEW k \in Claims, AttemptStep(c, k)
    PROVE  CoreStep
    <1>1. CASE \E result \in Results, took \in BOOLEAN : Post(c, k, result, took)
        BY <1>1 DEF Posting, CoreStep
    <1>2. CASE FinishDelivery(c, k)
        <2>1. Finishing(c, k)
            BY <1>2 DEF FinishDelivery, Finishing
        <2> QED
            BY <2>1 DEF CoreStep
    <1>3. CASE Vanish(c, k)
        <2>1. Vanishing(c, k)
            BY <1>3 DEF Vanish, Vanishing, rowVars
        <2> QED
            BY <2>1 DEF CoreStep
    <1> QED
        BY <1>1, <1>2, <1>3 DEF AttemptStep

\* Whatever step is made, rows and claims change in one of these ways.
LEMMA StepCore == [Next]_vars => CoreStep
    <1> SUFFICES ASSUME [Next]_vars PROVE CoreStep
        OBVIOUS
    <1>1. CASE UNCHANGED vars
        BY <1>1 DEF vars, rowVars, workVars, CoreStep, CoreKept
    <1>2. ASSUME NEW c \in Crossings, Publish(c) \/ Deliver(c) PROVE CoreStep
        BY <1>2 DEF Publish, Deliver, rowVars, workVars, CoreStep, CoreKept
    <1>3. ASSUME NEW c \in Crossings, OperatorStep(c) PROVE CoreStep
        <2>1. CASE SendByHand(c)
            BY <2>1 DEF SendByHand, CoreStep, Taking
        <2>2. CASE ExpireByHand(c) \/ Dismiss(c) \/ Acknowledge(c)
            <3>1. IdleMove(c)
                BY <2>2 DEF ExpireByHand, Dismiss, Acknowledge, SetStatus, IdleMove, Statuses, workVars
            <3> QED
                BY <3>1 DEF CoreStep
        <2> QED
            BY <1>3, <2>1, <2>2 DEF OperatorStep
    <1>4. ASSUME NEW c \in Crossings, LeasePasses(c) \/ DayPasses(c) PROVE CoreStep
        BY <1>4 DEF LeasePasses, DayPasses, workVars, CoreStep, CoreKept
    <1>5. CASE ListNotifications \/ SwitchMessaging
        BY <1>5 DEF SwitchMessaging, workVars, CoreStep, CoreKept
    <1> QED
        BY <1>1, <1>2, <1>3, <1>4, <1>5, RunCore, AttemptCore, NextSplit

-----------------------------------------------------------------------------
(* The types are kept.                                                      *)

LEMMA CoreTyped == CoreOK /\ CoreStep => CoreOK'
    <1> SUFFICES ASSUME CoreOK, CoreStep PROVE CoreOK'
        OBVIOUS
    <1> USE Numbers
    <1>1. CASE CoreKept
        BY <1>1 DEF CoreKept, CoreOK
    <1>2. ASSUME NEW c \in Crossings, IdleMove(c) PROVE CoreOK'
        BY <1>2 DEF IdleMove, CoreOK
    <1>3. ASSUME NEW c \in Crossings, Taking(c) PROVE CoreOK'
        <2>1. PICK actionable : TakeClaim(c, actionable)
            BY <1>3 DEF Taking
        <2>2. claims[c] + 1 \in Claims /\ claims[c] + 1 # 0
            BY <2>1 DEF TakeClaim
        <2> QED
            BY <2>1, <2>2 DEF TakeClaim, CoreOK, Working, Statuses
    <1>4. ASSUME NEW c \in Crossings, LeasePasses(c) PROVE CoreOK'
        BY <1>4 DEF LeasePasses, CoreOK, workVars
    <1>5. ASSUME NEW c \in Crossings, NEW k \in Claims, Posting(c, k) PROVE CoreOK'
        BY <1>5 DEF Posting, Post, CoreOK, Working, rowVars
    <1>6. ASSUME NEW c \in Crossings, NEW k \in Claims, Finishing(c, k) PROVE CoreOK'
        <2>1. 0 \in 0 .. MaxClaims
            OBVIOUS
        <2>2. attempt[c][k] \in Statuses \ {"sending"}
            BY <1>6 DEF Finishing, Results, Statuses
        <2>3. CASE Fenced(c, k)
            BY <1>6, <2>1, <2>2, <2>3 DEF Finishing, CoreOK
        <2>4. CASE ~Fenced(c, k)
            BY <1>6, <2>4 DEF Finishing, CoreOK
        <2> QED
            BY <2>3, <2>4
    <1>7. ASSUME NEW c \in Crossings, NEW k \in Claims, Vanishing(c, k) PROVE CoreOK'
        BY <1>7 DEF Vanishing, CoreOK
    <1>8. CASE ListNotifications
        <2>1. 0 \in 0 .. MaxClaims
            OBVIOUS
        <2> QED
            BY <1>8, <2>1 DEF ListNotifications, CoreOK, Statuses, workVars
    <1> QED
        BY <1>1, <1>2, <1>3, <1>4, <1>5, <1>6, <1>7, <1>8 DEF CoreStep

OtherOK == RestOK /\ QueueOK /\ RunOK

LEMMA OtherKept ==
    ASSUME OtherOK
    PROVE  /\ UNCHANGED <<old, enabled, cooldowns>> => RestOK'
           /\ UNCHANGED queueVars => QueueOK' /\ RunOK'
    BY DEF OtherOK, RestOK, QueueOK, RunOK, queueVars

LEMMA RunOther ==
    ASSUME NEW c \in Crossings, NEW n \in Runs, RunStep(c, n), CoreOK, OtherOK
    PROVE  OtherOK'
    <1>1. QueueOK /\ RunOK /\ RestOK
        BY DEF OtherOK
    <1>2. deliveries' = deliveries
        BY DEF RunStep, ExpireRetry, Decide, Draft, InsertForReview, InsertWithCooldown,
               InsertFails, ClaimAutomatic, ClaimNothing, LoseLock, Abort
    <1>3. RestOK'
        BY OtherKept, <1>1 DEF RunStep, ExpireRetry, Decide, Draft, InsertForReview,
               InsertWithCooldown, InsertFails, ClaimAutomatic, TakeClaim, ClaimNothing,
               LoseLock, Abort, rowVars, RestOK
    <1>4. \A r \in RunStates : GoTo(c, n, r) => QueueOK' /\ RunOK'
        BY <1>1, <1>2, RunMoves
    <1>5. Return(c, n) \/ Throw(c, n) => QueueOK' /\ RunOK'
        BY <1>1, <1>2, RunMoves
    <1>6. CASE ExpireRetry(c, n) \/ InsertForReview(c, n) \/ InsertFails(c, n) \/ ClaimNothing(c, n)
                \/ Abort(c, n)
        BY <1>3, <1>5, <1>6
        DEF ExpireRetry, InsertForReview, InsertFails, ClaimNothing, Abort, OtherOK
    <1>7. CASE Decide(c, n) \/ InsertWithCooldown(c, n)
        <2>1. Phase("claiming") \in RunStates
            BY LocalStates
        <2> QED
            BY <1>3, <1>4, <1>5, <1>7, <2>1 DEF Decide, InsertWithCooldown, OtherOK
    <1>8. CASE Draft(c, n)
        <2>1. Automatic(c) \in BOOLEAN
            BY DEF Automatic
        <2>2. PICK r \in RunStates : GoTo(c, n, r)
            BY <1>8, <2>1, LocalStates DEF Draft
        <2> QED
            BY <1>3, <1>4, <2>2 DEF OtherOK
    <1>9. CASE ClaimAutomatic(c, n)
        <2>1. Delivering(claims[c] + 1) \in RunStates
            BY <1>9, LocalStates DEF ClaimAutomatic, TakeClaim
        <2> QED
            BY <1>3, <1>4, <1>9, <2>1 DEF ClaimAutomatic, OtherOK
    <1>10. CASE LoseLock(c, n)
        <2>1. queue' = Returned(c, n) /\ run' = run
            BY <1>10 DEF LoseLock
        <2>2. QueueOK'
            BY <1>1, <1>2, <2>1, Numbers DEF QueueOK, Returned, Holds, QueueStates, Runs
        <2> QED
            BY <1>1, <1>3, <2>1, <2>2 DEF OtherOK, RunOK
    <1> QED
        BY <1>6, <1>7, <1>8, <1>9, <1>10 DEF RunStep

LEMMA AttemptOther ==
    ASSUME NEW c \in Crossings, NEW k \in Claims, AttemptStep(c, k), OtherOK
    PROVE  OtherOK'
    <1>1. QueueOK /\ RunOK /\ RestOK
        BY DEF OtherOK
    <1>2. UNCHANGED <<old, enabled, cooldowns, deliveries>>
        BY DEF AttemptStep, Post, FinishDelivery, Vanish, rowVars, queueVars
    <1>3. RestOK'
        BY <1>2, OtherKept
    <1>4. \A n \in Runs : Return(c, n) \/ Throw(c, n) => QueueOK' /\ RunOK'
        BY <1>1, <1>2, RunMoves
    <1>5. UNCHANGED <<queue, run>> => QueueOK' /\ RunOK'
        BY <1>1, <1>2 DEF QueueOK, RunOK
    <1>6. RunsOf(c, k) \subseteq Runs
        BY DEF RunsOf
    <1>7. CASE \E result \in Results, took \in BOOLEAN : Post(c, k, result, took)
        BY <1>3, <1>5, <1>7 DEF Post, queueVars, OtherOK
    <1>8. CASE FinishDelivery(c, k) \/ Vanish(c, k)
        BY <1>3, <1>4, <1>5, <1>6, <1>8 DEF FinishDelivery, Vanish, OtherOK
    <1> QED
        BY <1>7, <1>8 DEF AttemptStep

\* Every step keeps the types.
LEMMA StepTyped == Typed /\ [Next]_vars => Typed'
    <1> SUFFICES ASSUME CoreOK, OtherOK, [Next]_vars PROVE OtherOK'
        BY StepCore, CoreTyped DEF Typed, OtherOK
    <1> USE OtherKept
    <1>1. CASE UNCHANGED vars
        BY <1>1 DEF vars, rowVars, OtherOK
    <1>2. ASSUME NEW c \in Crossings, Publish(c) PROVE OtherOK'
        BY <1>2 DEF Publish, rowVars, OtherOK, QueueOK, RunOK, QueueStates
    <1>3. ASSUME NEW c \in Crossings, Deliver(c) PROVE OtherOK'
        <2>1. deliveries[c] + 1 \in Runs
            BY <1>3, Numbers DEF Deliver, OtherOK, QueueOK, Runs
        <2>2. \A p \in {"drafting", "done", "expiring", "deciding"} : Phase(p) \in RunStates
            BY LocalStates
        <2>3. RunOK'
            BY <1>3, <2>1, <2>2 DEF Deliver, OtherOK, RunOK
        <2>4. QueueOK'
            BY <1>3, <2>1, Numbers DEF Deliver, OtherOK, QueueOK, QueueStates, Runs
        <2> QED
            BY <1>3, <2>3, <2>4 DEF Deliver, rowVars, OtherOK
    <1>4. ASSUME NEW c \in Crossings, OperatorStep(c) PROVE OtherOK'
        BY <1>4 DEF OperatorStep, SendByHand, TakeClaim, ExpireByHand, Dismiss, Acknowledge,
                   SetStatus, OtherOK
    <1>5. ASSUME NEW c \in Crossings, LeasePasses(c) PROVE OtherOK'
        BY <1>5 DEF LeasePasses, OtherOK
    <1>6. ASSUME NEW c \in Crossings, DayPasses(c) PROVE OtherOK'
        BY <1>6 DEF DayPasses, OtherOK, RestOK
    <1>7. CASE ListNotifications
        BY <1>7 DEF ListNotifications, OtherOK
    <1>8. CASE SwitchMessaging
        BY <1>8 DEF SwitchMessaging, OtherOK, RestOK
    <1> QED
        BY <1>1, <1>2, <1>3, <1>4, <1>5, <1>6, <1>7, <1>8, RunOther, AttemptOther, NextSplit

\* Rows, claims, runs and queue stay in their domains, and a claim token is in
\* a row exactly while the row is being sent.
THEOREM NotificationTypeCorrect == Spec => []NotificationTypeOK
    <1>1. Typed /\ [Next]_vars => Typed'
        BY StepTyped
    <1> QED
        BY <1>1, InitTyped, TypedIsTypeOK, PTL DEF Spec

-----------------------------------------------------------------------------
(* The claims.                                                              *)

\* The claims on one row: they are numbered in order, only the last one can be
\* at work within its lease, and it then owns the row unless the day's expiry
\* closed it; a post that Teams took under a claim within its lease is either
\* unanswered, about to be recorded, or on a closed row.
ClaimsOf(c) ==
    /\ token[c] # 0 => token[c] = claims[c]
    /\ lapsed[c] <= claims[c]
    /\ \A k \in Claims :
        /\ k > claims[c] => attempt[c][k] = "none" /\ k \notin accepted[c]
        /\ attempt[c][k] = "posting" => k \notin accepted[c]
        /\ attempt[c][k] \in Working /\ k < claims[c] => k <= lapsed[c]
        /\ attempt[c][k] \in Working /\ k > lapsed[c] =>
               (status[c] = "sending" /\ token[c] = k) \/ status[c] = "expired"
        /\ k \in accepted[c] /\ k \notin unanswered[c] /\ k > lapsed[c] =>
               attempt[c][k] = "sent" \/ status[c] \in Final
        /\ k \in accepted[c] /\ k < claims[c] => k \in unanswered[c] \/ k <= lapsed[c]

ClaimsOK == \A c \in Crossings : ClaimsOf(c)

\* A row whose core is left alone keeps its claims in order.
LEMMA ClaimsKept ==
    ASSUME NEW c, ClaimsOf(c),
           UNCHANGED <<status[c], token[c], claims[c], lapsed[c], attempt[c], accepted[c],
                       unanswered[c]>>
    PROVE  ClaimsOf(c)'
    BY DEF ClaimsOf

LEMMA InitClaims == Init => ClaimsOK
    <1> SUFFICES ASSUME Init, NEW c \in Crossings PROVE ClaimsOf(c)
        BY DEF ClaimsOK
    <1>1. token[c] = 0 /\ claims[c] = 0 /\ lapsed[c] = 0 /\ accepted[c] = {}
          /\ \A k \in Claims : attempt[c][k] = "none"
        BY DEF Init
    <1>2. ASSUME NEW k \in Claims
          PROVE  attempt[c][k] = "none" /\ k \notin accepted[c] /\ attempt[c][k] # "posting"
                 /\ attempt[c][k] \notin Working
        BY <1>1 DEF Working, Results
    <1>3. 0 <= 0
        OBVIOUS
    <1> QED
        BY <1>1, <1>2, <1>3, Zenon DEF ClaimsOf

\* Each way a row can change keeps its claims in order.
LEMMA IdleClaims ==
    ASSUME CoreOK, ClaimsOK, NEW c \in Crossings, IdleMove(c) PROVE ClaimsOf(c)'
    BY Numbers DEF CoreOK, ClaimsOK, ClaimsOf, IdleMove, Working, Results, Final

LEMMA TakingClaims ==
    ASSUME CoreOK, ClaimsOK, NEW c \in Crossings, Taking(c) PROVE ClaimsOf(c)'
    <1> DEFINE K == claims[c] + 1
    <1>1. PICK actionable \in {{"pending"}, {"pending", "acknowledged"}} : TakeClaim(c, actionable)
        BY DEF Taking
    <1>2. K \in Claims /\ status'[c] = "sending" /\ token'[c] = K /\ claims'[c] = K
          /\ attempt'[c][K] = "posting" /\ UNCHANGED <<lapsed, accepted, unanswered>>
          /\ \A k \in Claims \ {K} : attempt'[c][k] = attempt[c][k]
        BY <1>1 DEF TakeClaim, CoreOK
    <1>3. claims[c] \in Nat /\ lapsed[c] \in Nat /\ token[c] \in Nat
        BY Numbers DEF CoreOK
    <1>4. \/ status[c] \in {"pending", "acknowledged"}
          \/ status[c] = "sending" /\ token[c] <= lapsed[c]
        BY <1>1 DEF TakeClaim, Claimable
    <1>5. ASSUME NEW k \in Claims, attempt[c][k] \in Working PROVE k <= lapsed[c]
        BY <1>3, <1>4, <1>5, Numbers DEF ClaimsOK, ClaimsOf
    <1>6. ASSUME NEW k \in Claims, k \in accepted[c] PROVE k \in unanswered[c] \/ k <= lapsed[c]
        BY <1>3, <1>4, <1>5, <1>6, Numbers DEF ClaimsOK, ClaimsOf, Working, Results, Final
    <1>7. ClaimsOf(c)
        BY DEF ClaimsOK
    <1>8. K > claims[c] /\ K > lapsed[c]
        BY <1>3, <1>7 DEF ClaimsOf
    <1>9. K \notin accepted[c]
        BY <1>2, <1>7, <1>8 DEF ClaimsOf
    <1> HIDE DEF K
    <1>10. K \in Nat
        BY <1>2, Numbers
    <1> QED
        BY <1>2, <1>3, <1>5, <1>6, <1>7, <1>8, <1>9, <1>10, Numbers DEF ClaimsOf, Working

LEMMA PostingClaims ==
    ASSUME CoreOK, ClaimsOK, NEW c \in Crossings, NEW k \in Claims, Posting(c, k)
    PROVE  ClaimsOf(c)'
    <1>1. PICK result \in Results, took \in BOOLEAN : Post(c, k, result, took)
        BY DEF Posting
    <1>2. UNCHANGED <<status, token, claims, lapsed>>
          /\ attempt[c][k] = "posting" /\ attempt'[c][k] = result
          /\ \A j \in Claims \ {k} : attempt'[c][j] = attempt[c][j]
        BY <1>1 DEF Post, rowVars, CoreOK
    <1>3. /\ accepted'[c] = IF took THEN accepted[c] \cup {k} ELSE accepted[c]
          /\ unanswered'[c] = IF took /\ result # "sent" THEN unanswered[c] \cup {k} ELSE unanswered[c]
        BY <1>1 DEF Post, CoreOK
    <1>4. ClaimsOf(c)
        BY DEF ClaimsOK
    <1>5. claims[c] \in Nat /\ lapsed[c] \in Nat
        BY Numbers DEF CoreOK
    <1> QED
        BY <1>2, <1>3, <1>4, <1>5, Numbers DEF ClaimsOf, Working, Results

LEMMA FinishingClaims ==
    ASSUME CoreOK, ClaimsOK, NEW c \in Crossings, NEW k \in Claims, Finishing(c, k)
    PROVE  ClaimsOf(c)'
    <1>1. attempt[c][k] \in Results /\ attempt'[c][k] = "done"
          /\ \A j \in Claims \ {k} : attempt'[c][j] = attempt[c][j]
        BY DEF Finishing, CoreOK
    <1>2. UNCHANGED <<claims, lapsed, accepted, unanswered>>
        BY DEF Finishing
    <1>3. ClaimsOf(c)
        BY DEF ClaimsOK
    <1>4. claims[c] \in Nat /\ lapsed[c] \in Nat
        BY Numbers DEF CoreOK
    <1>5. CASE Fenced(c, k)
        <2>1. status'[c] = attempt[c][k] /\ token'[c] = 0
            BY <1>5 DEF Finishing, CoreOK
        <2> QED
            BY <1>1, <1>2, <1>3, <1>4, <1>5, <2>1, Numbers
            DEF ClaimsOf, Fenced, Working, Results, Final
    <1>6. CASE ~Fenced(c, k)
        <2>1. UNCHANGED <<status, token>>
            BY <1>6 DEF Finishing
        <2> QED
            BY <1>1, <1>2, <1>3, <1>4, <1>6, <2>1, Numbers
            DEF ClaimsOf, Fenced, Working, Results, Final
    <1> QED
        BY <1>5, <1>6

LEMMA VanishingClaims ==
    ASSUME CoreOK, ClaimsOK, NEW c \in Crossings, NEW k \in Claims, Vanishing(c, k)
    PROVE  ClaimsOf(c)'
    <1>1. attempt[c][k] \in Working /\ attempt'[c][k] = "done"
          /\ \A j \in Claims \ {k} : attempt'[c][j] = attempt[c][j]
        BY DEF Vanishing, CoreOK
    <1>2. UNCHANGED <<status, token, claims, lapsed, accepted>>
          /\ unanswered'[c] = unanswered[c] \cup (accepted[c] \cap {k})
        BY DEF Vanishing, CoreOK
    <1>3. ClaimsOf(c)
        BY DEF ClaimsOK
    <1>4. claims[c] \in Nat /\ lapsed[c] \in Nat
        BY Numbers DEF CoreOK
    <1> QED
        BY <1>1, <1>2, <1>3, <1>4, Numbers DEF ClaimsOf, Working, Results

LEMMA ListedClaims ==
    ASSUME CoreOK, ClaimsOK, NEW c \in Crossings, ListNotifications
    PROVE  ClaimsOf(c)'
    <1>1. UNCHANGED <<claims, lapsed, attempt, accepted, unanswered>>
        BY DEF ListNotifications, workVars
    <1>2. \/ status'[c] = status[c] /\ token'[c] = token[c]
          \/ status'[c] = "expired" /\ token'[c] = 0 /\ status[c] \notin Final
        BY DEF ListNotifications, Final
    <1>3. ClaimsOf(c)
        BY DEF ClaimsOK
    <1> QED
        BY <1>1, <1>2, <1>3 DEF ClaimsOf, Final

LEMMA LapsedClaims ==
    ASSUME CoreOK, ClaimsOK, NEW c \in Crossings, LeasePasses(c)
    PROVE  ClaimsOf(c)'
    <1>1. UNCHANGED <<status, token, claims, attempt, accepted, unanswered>>
          /\ lapsed'[c] = claims[c]
        BY DEF LeasePasses, workVars, CoreOK
    <1>2. ClaimsOf(c)
        BY DEF ClaimsOK
    <1>3. claims[c] \in Nat /\ lapsed[c] \in Nat
        BY Numbers DEF CoreOK
    <1> QED
        BY <1>1, <1>2, <1>3, Numbers DEF ClaimsOf, Working, Results

\* Rows other than the one a step is about are left alone.
LEMMA ElsewhereKept ==
    ASSUME CoreOK, NEW c \in Crossings, NEW d \in Crossings \ {c},
           \/ IdleMove(c) \/ Taking(c) \/ LeasePasses(c)
           \/ \E k \in Claims : Posting(c, k) \/ Finishing(c, k) \/ Vanishing(c, k)
    PROVE  UNCHANGED <<status[d], token[d], claims[d], lapsed[d], attempt[d], accepted[d],
                       unanswered[d]>>
    <1>1. CASE IdleMove(c)
        BY <1>1 DEF IdleMove, CoreOK
    <1>2. CASE Taking(c)
        BY <1>2 DEF Taking, TakeClaim, CoreOK
    <1>3. CASE LeasePasses(c)
        BY <1>3 DEF LeasePasses, workVars, CoreOK
    <1>4. ASSUME NEW k \in Claims, Posting(c, k) \/ Vanishing(c, k)
          PROVE  UNCHANGED <<status[d], token[d], claims[d], lapsed[d], attempt[d], accepted[d],
                             unanswered[d]>>
        BY <1>4 DEF Posting, Post, Vanishing, rowVars, CoreOK
    <1>5. ASSUME NEW k \in Claims, Finishing(c, k)
          PROVE  UNCHANGED <<status[d], token[d], claims[d], lapsed[d], attempt[d], accepted[d],
                             unanswered[d]>>
        BY <1>5 DEF Finishing, CoreOK
    <1> QED
        BY <1>1, <1>2, <1>3, <1>4, <1>5

LEMMA StepClaims == CoreOK /\ ClaimsOK /\ CoreStep => ClaimsOK'
    <1> SUFFICES ASSUME CoreOK, ClaimsOK, CoreStep, NEW d \in Crossings PROVE ClaimsOf(d)'
        BY DEF ClaimsOK
    <1>0. ClaimsOf(d)
        BY DEF ClaimsOK
    <1>1. CASE CoreKept
        BY <1>0, <1>1, ClaimsKept DEF CoreKept
    <1>2. ASSUME NEW c \in Crossings, IdleMove(c) \/ Taking(c) \/ LeasePasses(c) PROVE ClaimsOf(d)'
        BY <1>0, <1>2, ClaimsKept, ElsewhereKept, IdleClaims, TakingClaims, LapsedClaims
    <1>3. ASSUME NEW c \in Crossings, NEW k \in Claims,
                 Posting(c, k) \/ Finishing(c, k) \/ Vanishing(c, k)
          PROVE  ClaimsOf(d)'
        BY <1>0, <1>3, ClaimsKept, ElsewhereKept, PostingClaims, FinishingClaims, VanishingClaims
    <1>4. CASE ListNotifications
        BY <1>4, ListedClaims
    <1> QED
        BY <1>1, <1>2, <1>3, <1>4 DEF CoreStep

\* The rows, the runs and the claims fit together in every state.
LEMMA ClaimsHold == Spec => [](Typed /\ ClaimsOK)
    <1>1. Init => Typed /\ ClaimsOK
        BY InitTyped, InitClaims
    <1>2. Typed /\ ClaimsOK /\ [Next]_vars => Typed' /\ ClaimsOK'
        BY StepTyped, StepClaims, StepCore DEF Typed
    <1> QED
        BY <1>1, <1>2, PTL DEF Spec

\* Whoever is posting within the lease has the row reserved.
THEOREM ClaimsAreExclusive == Spec => []PostingIsReserved
    <1>1. Typed /\ ClaimsOK => PostingIsReserved
        BY DEF ClaimsOK, ClaimsOf, PostingIsReserved
    <1> QED
        BY <1>1, ClaimsHold, PTL

\* Teams takes a crossing twice only after an answer that was lost or late.
THEOREM TwicePostedOnlyAfterLapse == Spec => []TwiceOnlyAfterLapse
    <1>1. Typed /\ ClaimsOK => TwiceOnlyAfterLapse
        <2> SUFFICES ASSUME Typed, ClaimsOK, NEW c \in Crossings, NEW j \in accepted[c],
                            NEW k \in accepted[c], j < k
                     PROVE  j \in unanswered[c] \/ j <= lapsed[c]
            BY DEF TwiceOnlyAfterLapse
        <2>1. j \in Claims /\ k \in Claims /\ claims[c] \in Nat
            BY Numbers DEF Typed, CoreOK
        <2> QED
            BY <2>1, Numbers DEF ClaimsOK, ClaimsOf
    <1> QED
        BY <1>1, ClaimsHold, PTL

-----------------------------------------------------------------------------
(* What is final, and the cooldown.                                         *)

\* What was sent, dismissed, refused or expired stays that way.
THEOREM FinalStays == Spec => FinalIsFinal
    <1>1. ASSUME Typed, CoreStep, NEW c \in Crossings, status[c] \in Final
          PROVE  status'[c] = status[c]
        <2>1. CASE CoreKept
            BY <2>1 DEF CoreKept
        <2>2. ASSUME NEW d \in Crossings, IdleMove(d) \/ Taking(d) \/ LeasePasses(d)
              PROVE  status'[c] = status[c]
            BY <1>1, <2>2
            DEF IdleMove, Taking, TakeClaim, Claimable, LeasePasses, Typed, CoreOK, Final
        <2>3. ASSUME NEW d \in Crossings, NEW k \in Claims, Posting(d, k) \/ Vanishing(d, k)
              PROVE  status'[c] = status[c]
            BY <2>3 DEF Posting, Post, Vanishing, rowVars
        <2>4. ASSUME NEW d \in Crossings, NEW k \in Claims, Finishing(d, k)
              PROVE  status'[c] = status[c]
            BY <1>1, <2>4 DEF Finishing, Fenced, Typed, CoreOK, Final
        <2>5. CASE ListNotifications
            BY <1>1, <2>5 DEF ListNotifications, Final
        <2> QED
            BY <1>1, <2>1, <2>2, <2>3, <2>4, <2>5 DEF CoreStep
    <1>2. Typed /\ [Next]_vars =>
              [\A c \in Crossings : status[c] \in Final => status'[c] = status[c]]_vars
        BY <1>1, StepCore
    <1>3. Typed /\ [Next]_vars => Typed'
        BY StepTyped
    <1> QED
        BY <1>2, <1>3, InitTyped, PTL DEF Spec, FinalIsFinal

\* Two crossings within the cooldown of one another are not both drafted for
\* automatic delivery.
THEOREM CooldownKept == Spec => []CooldownHolds
    <1>1. Init => CooldownHolds
        BY DEF Init, CooldownHolds
    <1>2. ASSUME CooldownHolds, [Next]_vars, Typed PROVE CooldownHolds'
        <2>1. CASE cooldowns' = cooldowns
            BY <1>2, <2>1 DEF CooldownHolds
        <2>2. ASSUME NEW c \in Crossings, NEW n \in Runs, InsertWithCooldown(c, n)
              PROVE  CooldownHolds'
            <3>1. cooldowns' = cooldowns
                  \/ (cooldowns' = cooldowns \cup {c} /\ \A d \in cooldowns : ~Near(c, d))
                BY <2>2 DEF InsertWithCooldown
            <3>2. \A d \in cooldowns : Near(d, c) => Near(c, d)
                BY DEF Near
            <3> QED
                BY <1>2, <3>1, <3>2 DEF CooldownHolds
        <2>3. ASSUME NEW c \in Crossings, NEW n \in Runs, RunStep(c, n), ~InsertWithCooldown(c, n)
              PROVE  cooldowns' = cooldowns
            BY <2>3 DEF RunStep, ExpireRetry, Decide, Draft, InsertForReview, InsertFails,
                   ClaimAutomatic, TakeClaim, ClaimNothing, LoseLock, Abort, rowVars
        <2>4. ASSUME NEW c \in Crossings, NEW k \in Claims, AttemptStep(c, k)
              PROVE  cooldowns' = cooldowns
            BY <2>4 DEF AttemptStep, Post, FinishDelivery, Vanish, rowVars
        <2>5. ASSUME NEW c \in Crossings,
                     Publish(c) \/ Deliver(c) \/ LeasePasses(c) \/ DayPasses(c) \/ OperatorStep(c)
              PROVE  cooldowns' = cooldowns
            BY <2>5 DEF Publish, Deliver, LeasePasses, DayPasses, OperatorStep, SendByHand, TakeClaim,
                   ExpireByHand, Dismiss, Acknowledge, SetStatus, rowVars
        <2>6. CASE ListNotifications \/ SwitchMessaging \/ UNCHANGED vars
            BY <2>1, <2>6 DEF ListNotifications, SwitchMessaging, vars, rowVars
        <2> QED
            BY <1>2, <2>1, <2>2, <2>3, <2>4, <2>5, <2>6, NextSplit
    <1>3. Typed /\ [Next]_vars => Typed'
        BY StepTyped
    <1> QED
        BY <1>1, <1>2, <1>3, InitTyped, PTL DEF Spec

-----------------------------------------------------------------------------
(* The claims are leases.                                                   *)

\* The variables of Lease, row by row.
PhaseMap == [c \in Crossings |-> LeasePhase(c)]
WorkingOn(c) == {k \in Claims : attempt[c][k] \in Working}
WorkMap == [c \in Crossings |-> WorkingOn(c)]

LEMMA InitLease == Init => ClaimLease!LeaseInit
    BY DEF Init, ClaimLease!LeaseInit, LeasePhase, Working, Results

\* A step that leaves a row alone maps to one that leaves its lease alone.
LEMMA SamePhases ==
    /\ status' = status => PhaseMap' = PhaseMap
    /\ attempt' = attempt => WorkMap' = WorkMap
    BY DEF PhaseMap, LeasePhase, WorkMap, WorkingOn

\* A row that gets another status gets the phase of that status.
LEMMA OnePhase ==
    ASSUME CoreOK, NEW c \in Crossings, NEW s, status' = [status EXCEPT ![c] = s]
    PROVE  /\ s \in {"pending", "acknowledged"} => PhaseMap' = [PhaseMap EXCEPT ![c] = "open"]
           /\ s = "sending" => PhaseMap' = [PhaseMap EXCEPT ![c] = "held"]
           /\ s \in Final => PhaseMap' = [PhaseMap EXCEPT ![c] = "closed"]
    BY DEF CoreOK, PhaseMap, LeasePhase, Final

\* An attempt that starts to work, or stops.
LEMMA OneWork ==
    ASSUME CoreOK, NEW c \in Crossings, NEW k \in Claims, NEW a,
           attempt' = [attempt EXCEPT ![c][k] = a]
    PROVE  /\ a \in Working => WorkMap' = [WorkMap EXCEPT ![c] = @ \cup {k}]
           /\ a \notin Working => WorkMap' = [WorkMap EXCEPT ![c] = @ \ {k}]
    <1>1. ASSUME a \in Working
          PROVE  \A d \in Crossings :
                     WorkingOn(d)' = IF d = c THEN WorkingOn(c) \cup {k} ELSE WorkingOn(d)
        BY <1>1 DEF CoreOK, WorkingOn
    <1>2. ASSUME a \notin Working
          PROVE  \A d \in Crossings :
                     WorkingOn(d)' = IF d = c THEN WorkingOn(c) \ {k} ELSE WorkingOn(d)
        BY <1>2 DEF CoreOK, WorkingOn
    <1> QED
        BY <1>1, <1>2 DEF WorkMap

\* Every way a row can change is a step of Lease, or none.
LEMMA StepLease ==
    CoreOK /\ CoreStep => [ClaimLease!LeaseNext]_(ClaimLease!leaseVars)
    <1> SUFFICES ASSUME CoreOK, CoreStep,
                        ~UNCHANGED <<PhaseMap, token, WorkMap, claims, lapsed>>
                 PROVE  ClaimLease!LeaseNext
        BY DEF ClaimLease!leaseVars, PhaseMap, WorkMap, WorkingOn
    <1>m. /\ PhaseMap = [c \in Crossings |-> LeasePhase(c)]
          /\ WorkMap = [c \in Crossings |-> {k \in Claims : attempt[c][k] \in Working}]
        BY DEF PhaseMap, WorkMap, WorkingOn
    <1>1. CASE CoreKept
        BY <1>1, SamePhases DEF CoreKept
    <1>2. ASSUME NEW c \in Crossings, IdleMove(c) PROVE ClaimLease!LeaseNext
        <2>1. PICK s \in Statuses \ {"sending"} : status' = [status EXCEPT ![c] = s]
            BY <1>2 DEF IdleMove
        <2>2. UNCHANGED <<token, WorkMap, claims, lapsed>>
            BY <1>2, SamePhases DEF IdleMove
        <2>3. \/ PhaseMap' = [PhaseMap EXCEPT ![c] = "open"]
              \/ PhaseMap' = [PhaseMap EXCEPT ![c] = "closed"]
            BY <2>1, OnePhase DEF Statuses, Final
        <2>4. CASE status[c] = "none"
            <3>1. PhaseMap[c] = "absent"
                BY <2>4 DEF PhaseMap, LeasePhase
            <3>2. ClaimLease!Offer(c)
                BY <2>2, <2>3, <3>1 DEF ClaimLease!Offer, PhaseMap, WorkMap, WorkingOn
            <3> QED
                BY <3>2 DEF ClaimLease!LeaseNext, ClaimLease!LeaseStep
        <2>5. CASE status[c] # "none"
            <3>1. PhaseMap[c] = "open" /\ token[c] = 0
                BY <1>2, <2>5 DEF IdleMove, PhaseMap, LeasePhase, CoreOK
            <3>2. PhaseMap' = [PhaseMap EXCEPT ![c] = "closed"]
                BY <2>2, <2>3, <3>1 DEF PhaseMap
            <3>3. ClaimLease!Withdraw({c})
                BY <2>2, <3>1, <3>2 DEF ClaimLease!Withdraw, PhaseMap, WorkMap, WorkingOn, CoreOK
            <3> QED
                BY <3>3 DEF ClaimLease!LeaseNext
        <2> QED
            BY <2>4, <2>5
    <1>3. ASSUME NEW c \in Crossings, Taking(c) PROVE ClaimLease!LeaseNext
        <2>1. PICK actionable \in {{"pending"}, {"pending", "acknowledged"}} :
                  TakeClaim(c, actionable)
            BY <1>3 DEF Taking
        <2>2. claims[c] + 1 \in Claims
            BY <2>1 DEF TakeClaim
        <2>3. PhaseMap[c] = "open" \/ (PhaseMap[c] = "held" /\ token[c] <= lapsed[c])
            BY <2>1 DEF TakeClaim, Claimable, PhaseMap, LeasePhase
        <2>4. PhaseMap' = [PhaseMap EXCEPT ![c] = "held"]
            BY <2>1, OnePhase DEF TakeClaim
        <2>5. WorkMap' = [WorkMap EXCEPT ![c] = @ \cup {claims[c] + 1}]
            BY <2>1, <2>2, OneWork DEF TakeClaim, Working
        <2>6. ClaimLease!Take(c)
            BY <2>1, <2>3, <2>4, <2>5 DEF ClaimLease!Take, TakeClaim, PhaseMap, WorkMap, WorkingOn
        <2> QED
            BY <2>6 DEF ClaimLease!LeaseNext, ClaimLease!LeaseStep
    <1>4. ASSUME NEW c \in Crossings, LeasePasses(c) PROVE ClaimLease!LeaseNext
        <2>1. ClaimLease!Lapse(c)
            BY <1>4, SamePhases
            DEF LeasePasses, workVars, ClaimLease!Lapse, PhaseMap, WorkMap, WorkingOn
        <2> QED
            BY <2>1 DEF ClaimLease!LeaseNext, ClaimLease!LeaseStep
    <1>5. ASSUME NEW c \in Crossings, NEW k \in Claims, Posting(c, k) PROVE FALSE
        <2>1. PICK result \in Results, took \in BOOLEAN : Post(c, k, result, took)
            BY <1>5 DEF Posting
        <2>2. WorkMap' = [WorkMap EXCEPT ![c] = @ \cup {k}]
            BY <2>1, OneWork DEF Post, Working
        <2>3. k \in WorkingOn(c)
            BY <2>1 DEF Post, WorkingOn, Working
        <2>4. WorkMap' = WorkMap
            BY <2>2, <2>3 DEF WorkMap
        <2> QED
            BY <2>1, <2>4, SamePhases DEF Post, rowVars
    <1>6. ASSUME NEW c \in Crossings, NEW k \in Claims, Finishing(c, k)
          PROVE  ClaimLease!LeaseNext
        <2>0. "done" \notin Working /\ attempt[c][k] \in Working
              /\ attempt' = [attempt EXCEPT ![c][k] = "done"]
            BY <1>6 DEF Finishing, Working, Results
        <2>1. WorkMap' = [WorkMap EXCEPT ![c] = @ \ {k}] /\ k \in WorkMap[c]
            <3>1. WorkMap' = [WorkMap EXCEPT ![c] = @ \ {k}]
                BY <2>0, OneWork
            <3>2. k \in WorkMap[c]
                BY <2>0 DEF WorkMap, WorkingOn
            <3> QED
                BY <3>1, <3>2
        <2>2. CASE token[c] = k
            <3>1. Fenced(c, k)
                BY <2>2, Numbers DEF Fenced, CoreOK
            <3>2. PhaseMap' = [PhaseMap EXCEPT ![c] = "open"]
                  \/ PhaseMap' = [PhaseMap EXCEPT ![c] = "closed"]
                BY <1>6, <3>1, OnePhase DEF Finishing, Results, Final
            <3>3. ClaimLease!Finish(c, k)
                BY <1>6, <2>1, <2>2, <3>1, <3>2
                DEF Finishing, ClaimLease!Finish, PhaseMap, WorkMap, WorkingOn
            <3> QED
                BY <2>1, <3>3 DEF ClaimLease!LeaseNext, ClaimLease!LeaseStep, WorkMap, WorkingOn
        <2>3. CASE token[c] # k
            <3>1. UNCHANGED <<status, token>>
                BY <1>6, <2>3 DEF Finishing, Fenced
            <3>2. ClaimLease!Finish(c, k)
                BY <1>6, <2>1, <2>3, <3>1, SamePhases
                DEF Finishing, ClaimLease!Finish, PhaseMap, WorkMap, WorkingOn
            <3> QED
                BY <2>1, <3>2 DEF ClaimLease!LeaseNext, ClaimLease!LeaseStep, WorkMap, WorkingOn
        <2> QED
            BY <2>2, <2>3
    <1>7. ASSUME NEW c \in Crossings, NEW k \in Claims, Vanishing(c, k)
          PROVE  ClaimLease!LeaseNext
        <2>0. "done" \notin Working /\ attempt[c][k] \in Working
              /\ attempt' = [attempt EXCEPT ![c][k] = "done"]
            BY <1>7 DEF Vanishing, Working, Results
        <2>1. WorkMap' = [WorkMap EXCEPT ![c] = @ \ {k}] /\ k \in WorkMap[c]
            <3>1. WorkMap' = [WorkMap EXCEPT ![c] = @ \ {k}]
                BY <2>0, OneWork
            <3>2. k \in WorkMap[c]
                BY <2>0 DEF WorkMap, WorkingOn
            <3> QED
                BY <3>1, <3>2
        <2>2. ClaimLease!Disappear(c, k)
            BY <1>7, <2>1, SamePhases
            DEF Vanishing, ClaimLease!Disappear, PhaseMap, WorkMap, WorkingOn
        <2> QED
            BY <2>1, <2>2 DEF ClaimLease!LeaseNext, ClaimLease!LeaseStep, WorkMap, WorkingOn
    <1>8. CASE ListNotifications
        <2> DEFINE due == {c \in Crossings :
                               old[c] /\ status[c] \in {"pending", "acknowledged", "sending"}}
        <2>1. \A c \in due : PhaseMap[c] \in {"open", "held"}
            BY DEF PhaseMap, LeasePhase
        <2>2. PhaseMap' = [c \in Crossings |-> IF c \in due THEN "closed" ELSE PhaseMap[c]]
            BY <1>8 DEF ListNotifications, PhaseMap, LeasePhase
        <2>3. ClaimLease!Withdraw(due)
            BY <1>8, <2>1, <2>2, SamePhases
            DEF ListNotifications, workVars, ClaimLease!Withdraw, PhaseMap, WorkMap, WorkingOn
        <2> QED
            BY <2>3 DEF ClaimLease!LeaseNext
    <1> QED
        BY <1>1, <1>2, <1>3, <1>4, <1>5, <1>6, <1>7, <1>8 DEF CoreStep

\* Claiming, posting, finishing, failing and expiring implement the lease.
THEOREM NotificationImplementsLease == Spec => ImplementsLease
    <1>1. Init => ClaimLease!LeaseInit
        BY InitLease
    <1>2. Typed /\ [Next]_vars => [ClaimLease!LeaseNext]_(ClaimLease!leaseVars)
        BY StepCore, StepLease DEF Typed
    <1>3. Typed /\ [Next]_vars => Typed'
        BY StepTyped
    <1> QED
        BY <1>1, <1>2, <1>3, InitTyped, PTL DEF Spec, ImplementsLease, ClaimLease!LeaseSpec

-----------------------------------------------------------------------------
(* What every implementation of Lease inherits: within its lease a worker *)
(* has the item to itself.                                                *)

\* Claims at work were taken; an item is held exactly while a claim holds it,
\* and the holder is the last claim taken.
Held ==
    \A i \in Items :
        /\ holder[i] # 0 <=> phase[i] = "held"
        /\ phase[i] = "held" => holder[i] = taken[i]
        /\ phase[i] = "absent" => working[i] = {}
        /\ \A k \in working[i] : k # 0 /\ k <= taken[i]

LeaseInv == LeaseTypeOK /\ Held /\ ExclusiveWithinLease

LEMMA LeaseInvInit == LeaseInit => LeaseInv
    BY DEF LeaseInit, LeaseInv, LeaseTypeOK, Held, ExclusiveWithinLease

LEMMA LeaseInvStep == LeaseInv /\ [LeaseNext]_leaseVars => LeaseInv'
    <1> SUFFICES ASSUME LeaseInv, [LeaseNext]_leaseVars PROVE LeaseInv'
        OBVIOUS
    <1> USE DEF LeaseInv, LeaseTypeOK, Held, ExclusiveWithinLease
    <1>1. CASE UNCHANGED leaseVars
        BY <1>1 DEF leaseVars
    <1>2. ASSUME NEW i \in Items, Offer(i) PROVE LeaseInv'
        BY <1>2 DEF Offer
    <1>3. ASSUME NEW i \in Items, Take(i) PROVE LeaseInv'
        <2>1. LeaseTypeOK'
            BY <1>3 DEF Take
        <2>2. Held'
            BY <1>3 DEF Take
        <2>3. ExclusiveWithinLease'
            <3> SUFFICES ASSUME NEW j \in Items, NEW k \in working'[j], k > outlived'[j]
                         PROVE  holder'[j] = k \/ phase'[j] = "closed"
                OBVIOUS
            <3>1. CASE j # i
                BY <1>3, <3>1 DEF Take
            <3>2. CASE j = i
                <4>1. k \in working[i] \/ k = taken[i] + 1
                    BY <1>3, <3>2 DEF Take
                <4>2. ASSUME k \in working[i] PROVE FALSE
                    BY <1>3, <3>2, <4>2 DEF Take
                <4> QED
                    BY <1>3, <3>2, <4>1, <4>2 DEF Take
            <3> QED
                BY <3>1, <3>2
        <2> QED
            BY <2>1, <2>2, <2>3
    <1>4. ASSUME NEW i \in Items, Lapse(i) PROVE LeaseInv'
        BY <1>4 DEF Lapse
    <1>5. ASSUME NEW i \in Items, NEW k \in working[i], Finish(i, k) PROVE LeaseInv'
        <2>1. CASE holder[i] = k
            BY <1>5, <2>1 DEF Finish
        <2>2. CASE holder[i] # k
            BY <1>5, <2>2 DEF Finish
        <2> QED
            BY <2>1, <2>2
    <1>6. ASSUME NEW i \in Items, NEW k \in working[i], Disappear(i, k) PROVE LeaseInv'
        BY <1>6 DEF Disappear
    <1>7. ASSUME NEW S \in SUBSET Items, Withdraw(S) PROVE LeaseInv'
        BY <1>7 DEF Withdraw
    <1> QED
        BY <1>1, <1>2, <1>3, <1>4, <1>5, <1>6, <1>7 DEF LeaseNext, LeaseStep

\* Within its lease a worker has the item to itself, or finds it closed.
THEOREM LeaseIsExclusive == LeaseSpec => [](LeaseTypeOK /\ ExclusiveWithinLease)
    BY LeaseInvInit, LeaseInvStep, PTL DEF LeaseSpec, LeaseInv

=============================================================================
