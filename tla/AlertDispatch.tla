--------------------------- MODULE AlertDispatch ---------------------------
(***************************************************************************)
(* Sending a published alert: the Service Bus queue, the handler of        *)
(* functions-dispatch that fans an alert out, the delivery logs it keeps   *)
(* and the delivery reports that come back - running against the           *)
(* subscriptions of module Subscriptions, which change while it works.     *)
(*                                                                         *)
(* The queue delivers an event at least once.  Delivery n of event m is a  *)
(* run of the handler, with its local variables in run[m][n]: two runs of  *)
(* one event overlap when the lock on the event is lost.  A step of a run  *)
(* is one awaited call: a post, a query, a send, an insert.                *)
(***************************************************************************)
EXTENDS Subscriptions, Sequences

CONSTANTS
    Messages,       \* published alerts
    Audiences,      \* Teams audiences, up to the case of their names
    Targets,        \* those an alert's channels name, as given: one may come twice
    Requested,      \* channels of an alert that riders are sent it on
    MaxDeliveries   \* maxDeliveryCount of the queue (5)

ASSUME DispatchAssumption ==
    /\ Targets \in Seq(Audiences) /\ Requested \subseteq Channels
    /\ MaxDeliveries \in Nat \ {0}

VARIABLES
    queue,       \* the event on message-created-events
    deliveries,  \* how often it was delivered
    run,         \* the handler's local state, by event and delivery
    teamsLog,    \* TeamsDeliveryLog.delivery_status (None: no row)
    log,         \* SmsDeliveryLog and EmailDeliveryLog
    posted,      \* history: the Teams posts that were accepted
    accepted,    \* history: the sends that ACS accepted
    reports      \* history: the delivery reports that ACS sent back

dispatchVars == <<queue, deliveries, run, teamsLog, log, posted, accepted, reports>>
allVars == <<vars, dispatchVars>>

Runs == 1 .. MaxDeliveries
Places == 1 .. Len(Targets)
Outcomes == {"sent", "failed", "skipped"}

\* One rider on one channel, as the run read it.
Recipients == [sub : Subs, channel : Channels, to : Phones \cup Emails]

\* What is left to log about a send; inCatch: its first logDelivery failed, or
\* the send itself threw.
Unlogged == [rcpt : Recipients, status : Outcomes, inCatch : BOOLEAN]

ASSUME NothingAssumption ==
    None \notin Places /\ None \notin Outcomes /\ None \notin Unlogged

RunStates ==
    [phase : {"none", "posting", "fanning", "completed", "thrown"},
     known : BOOLEAN,                            \* pool is not null
     places : SUBSET Places,                     \* in Targets, yet to be posted to
     unrecorded : Places \cup {None},            \* posted to, not yet in the log
     outcome : Outcomes,                         \* how that post went
     recordset : SUBSET Recipients,              \* everyone to be sent it
     todo : SUBSET Recipients,                   \* not sent yet
     unlogged : Unlogged \cup {None}]

NoRun ==
    [phase |-> "none", known |-> FALSE, places |-> {}, unrecorded |-> None,
     outcome |-> "sent", recordset |-> {}, todo |-> {}, unlogged |-> None]

\* A row of a delivery log.  provider: it has the id that reports name; fresh:
\* no email confirmation of its sub is newer than its sent_at.
LogRows ==
    [msg : Messages, run : Runs, rcpt : Recipients,
     status : Outcomes \cup {"delivered", "bounced"},
     provider : BOOLEAN, fresh : BOOLEAN]

DispatchInit ==
    /\ queue = [m \in Messages |-> "unpublished"]
    /\ deliveries = [m \in Messages |-> 0]
    /\ run = [m \in Messages |-> [n \in Runs |-> NoRun]]
    /\ teamsLog = [m \in Messages |-> [a \in Audiences |-> None]]
    /\ log = {}
    /\ posted = {}
    /\ accepted = {}
    /\ reports = {}

-----------------------------------------------------------------------------
\* The run goes on with local state r.
Becomes(m, n, r) == run' = [run EXCEPT ![m][n] = r]

-----------------------------------------------------------------------------
(* The queue.                                                               *)

\* The run holds the lock on its event.
Holds(m, n) == queue[m] = "locked" /\ deliveries[m] = n

\* The event once run n no longer has its lock: back on the queue, or dead.
Returned(m, n) ==
    IF Holds(m, n)
    THEN [queue EXCEPT ![m] = IF n = MaxDeliveries THEN "dead" ELSE "queued"]
    ELSE queue

\* The alert goes active, and its event is enqueued after that commit (a
\* publish that fails is logged and forgotten: the event stays unpublished).
Publish(m) ==
    /\ queue[m] = "unpublished"
    /\ queue' = [queue EXCEPT ![m] = "queued"]
    /\ UNCHANGED <<vars, deliveries, run, teamsLog, log, posted, accepted, reports>>

\* defaultMessageTimeToLive passes before the event is delivered again.
ExpireEvent(m) ==
    /\ queue[m] = "queued"
    /\ queue' = [queue EXCEPT ![m] = "dead"]
    /\ UNCHANGED <<vars, deliveries, run, teamsLog, log, posted, accepted, reports>>

\* The places whose audience is not logged as sent when the history is read
\* (alreadySent, which the loop does not add to).  Without the history, all.
ToPost(m, known) == {i \in Places : known => teamsLog[m][Targets[i]] # "sent"}

\* Mutant of Deliver: the pool is kept when the history could not be read.
DeliverKeepingPool(m, known) ==
    LET n == deliveries[m] + 1
    IN
    /\ queue[m] = "queued"
    /\ queue' = [queue EXCEPT ![m] = "locked"]
    /\ deliveries' = [deliveries EXCEPT ![m] = n]
    /\ Becomes(m, n, [NoRun EXCEPT !.phase = "posting", !.known = TRUE,
                                   !.places = ToPost(m, known)])
    /\ UNCHANGED <<vars, teamsLog, log, posted, accepted, reports>>

\* The event is delivered, and the run reads the Teams history (known: it
\* could).
Deliver(m, known) ==
    LET n == deliveries[m] + 1
    IN
    /\ queue[m] = "queued"
    /\ queue' = [queue EXCEPT ![m] = "locked"]
    /\ deliveries' = [deliveries EXCEPT ![m] = n]
    /\ Becomes(m, n, [NoRun EXCEPT !.phase = "posting", !.known = known,
                                   !.places = ToPost(m, known)])
    /\ UNCHANGED <<vars, teamsLog, log, posted, accepted, reports>>

\* A fan-out that outlasts the renewals of its lock: the event is delivered
\* again while the run goes on.  (The Teams posts before it take thirty
\* seconds each at most, the renewals last minutes.)
LoseLock(m, n) ==
    /\ run[m][n].phase = "fanning"
    /\ Holds(m, n)
    /\ queue' = Returned(m, n)
    /\ UNCHANGED <<vars, deliveries, run, teamsLog, log, posted, accepted, reports>>

\* The host stops, or an exception that the handler does not catch leaves it.
Abort(m, n) ==
    /\ run[m][n].phase \in {"posting", "fanning"}
    /\ Becomes(m, n, [NoRun EXCEPT !.phase = "thrown"])
    /\ queue' = Returned(m, n)
    /\ UNCHANGED <<vars, deliveries, teamsLog, log, posted, accepted, reports>>

\* The handler returns: the event is settled, if the run still has its lock.
Complete(m, n) ==
    /\ run[m][n].unlogged = None
    /\ \/ run[m][n].phase = "fanning" /\ run[m][n].todo = {}
       \/ /\ run[m][n].phase = "posting" /\ Requested = {}
          /\ run[m][n].places = {} /\ run[m][n].unrecorded = None
    /\ Becomes(m, n, [run[m][n] EXCEPT !.phase = "completed"])
    /\ queue' = IF Holds(m, n) THEN [queue EXCEPT ![m] = "settled"] ELSE queue
    /\ UNCHANGED <<vars, deliveries, teamsLog, log, posted, accepted, reports>>

-----------------------------------------------------------------------------
(* postToTeams.                                                             *)

\* One post, in the order of Targets.  It never throws; a webhook that timed
\* out may have taken it.
PostToTeams(m, n, i, outcome, taken) ==
    /\ run[m][n].phase = "posting"
    /\ run[m][n].unrecorded = None
    /\ i \in run[m][n].places /\ \A j \in run[m][n].places : i <= j
    /\ outcome = "sent" => taken
    /\ outcome = "skipped" => ~taken
    /\ posted' = IF taken THEN posted \cup {[msg |-> m, run |-> n, place |-> i]}
                          ELSE posted
    /\ Becomes(m, n, [run[m][n] EXCEPT !.places = @ \ {i},
                                       !.unrecorded = IF run[m][n].known THEN i ELSE None,
                                       !.outcome = outcome])
    /\ UNCHANGED <<vars, queue, deliveries, teamsLog, log, accepted, reports>>

\* The MERGE that records it, over whatever the row says.  Its failure is only
\* logged.
RecordPost(m, n, stored) ==
    LET i == run[m][n].unrecorded
    IN
    /\ run[m][n].phase = "posting"
    /\ i # None
    /\ teamsLog' = IF stored THEN [teamsLog EXCEPT ![m][Targets[i]] = run[m][n].outcome]
                             ELSE teamsLog
    /\ Becomes(m, n, [run[m][n] EXCEPT !.unrecorded = None])
    /\ UNCHANGED <<vars, queue, deliveries, log, posted, accepted, reports>>

-----------------------------------------------------------------------------
(* The fan-out.                                                             *)

\* email_bounced: a log row of the record says bounced, and it is newer than
\* the last confirmation of an email token of the record.
Bounced(r) ==
    \E row \in log : /\ row.rcpt.sub = r /\ row.rcpt.channel = "email"
                     /\ row.status = "bounced" /\ row.fresh

\* Mutant of Eligibles: one channel vouches for the other.
EligiblesByRecord(matched) ==
    {t \in Recipients :
        /\ t.sub \in matched /\ status[t.sub] = "confirmed"
        /\ t.channel \in Requested /\ t.to = contact[t.sub][t.channel]
        /\ t.channel = "email" => ~Bounced(t.sub)}

\* Who is sent the alert, and where: each channel gated on its own state.
Eligibles(matched) ==
    {t \in Recipients :
        /\ t.sub \in matched /\ status[t.sub] = "confirmed"
        /\ t.channel \in Requested /\ t.to = contact[t.sub][t.channel]
        /\ chan[t.sub][t.channel] = "confirmed"
        /\ t.channel = "email" => ~Bounced(t.sub)}

\* The SELECT.  The whole fan-out works from its recordset.  matched: the
\* records whose categories, routes and zones include the alert.
ReadSubscribers(m, n, matched) ==
    /\ run[m][n].phase = "posting"
    /\ run[m][n].places = {} /\ run[m][n].unrecorded = None
    /\ Requested # {}
    /\ Becomes(m, n, [run[m][n] EXCEPT !.phase = "fanning",
                                       !.recordset = Eligibles(matched),
                                       !.todo = Eligibles(matched)])
    /\ UNCHANGED <<vars, queue, deliveries, teamsLog, log, posted, accepted, reports>>

\* sendSms or sendEmail, of a record the SMS first.  threw: the call threw,
\* whether or not ACS had taken the message by then (taken).
Send(m, n, t, outcome, taken, threw) ==
    /\ run[m][n].phase = "fanning"
    /\ run[m][n].unlogged = None
    /\ t \in run[m][n].todo
    /\ t.channel = "email" =>
          \A u \in run[m][n].todo : u.sub = t.sub => u.channel = "email"
    /\ IF threw THEN outcome = "failed" ELSE taken = (outcome = "sent")
    /\ accepted' = IF taken THEN accepted \cup {[msg |-> m, run |-> n, rcpt |-> t]}
                            ELSE accepted
    /\ Becomes(m, n, [run[m][n] EXCEPT !.todo = @ \ {t},
                                       !.unlogged = [rcpt |-> t, status |-> outcome,
                                                     inCatch |-> threw]])
    /\ UNCHANGED <<vars, queue, deliveries, teamsLog, log, posted, reports>>

\* The log row of a run's send.  The catch block passes no provider id.
RowOf(m, n, u) ==
    [msg |-> m, run |-> n, rcpt |-> u.rcpt, status |-> u.status,
     provider |-> ~u.inCatch /\ u.status = "sent", fresh |-> TRUE]

\* An email row has an id chosen before the send, the same in the catch block:
\* inserted once, it cannot be inserted again.
LogIdTaken(m, n, u) ==
    /\ u.rcpt.channel = "email"
    /\ \E row \in log : row.msg = m /\ row.run = n /\ row.rcpt = u.rcpt

\* logDelivery succeeds.
LogDelivery(m, n) ==
    LET u == run[m][n].unlogged
    IN
    /\ run[m][n].phase = "fanning"
    /\ u # None
    /\ ~LogIdTaken(m, n, u)
    /\ log' = log \cup {RowOf(m, n, u)}
    /\ Becomes(m, n, [run[m][n] EXCEPT !.unlogged = None])
    /\ UNCHANGED <<vars, queue, deliveries, teamsLog, posted, accepted, reports>>

\* What the catch block logs about send u.
FailedSend(u) == [rcpt |-> u.rcpt, status |-> "failed", inCatch |-> TRUE]

\* Mutant of AfterLogFailed: the catch block's own failure is swallowed too.
AfterLogFailedSwallowed(m, n) ==
    LET r == run[m][n]
    IN  IF r.unlogged.inCatch
        THEN [r EXCEPT !.unlogged = None]
        ELSE [r EXCEPT !.unlogged = FailedSend(r.unlogged)]

\* Mutant of AfterLogFailed: the row is tried again until it is there.
AfterLogFailedRetried(m, n) ==
    [run[m][n] EXCEPT !.unlogged = FailedSend(@)]

\* A failed logDelivery of the try block is the catch block's to log, as a
\* failed send.  A failed one of the catch block leaves the handler.
AfterLogFailed(m, n) ==
    LET r == run[m][n]
    IN  IF r.unlogged.inCatch
        THEN [NoRun EXCEPT !.phase = "thrown"]
        ELSE [r EXCEPT !.unlogged = FailedSend(r.unlogged)]

\* logDelivery throws (stored: after the row went in).
LogDeliveryFails(m, n, stored) ==
    LET u == run[m][n].unlogged
    IN
    /\ run[m][n].phase = "fanning"
    /\ u # None
    /\ stored => ~LogIdTaken(m, n, u)
    /\ log' = IF stored THEN log \cup {RowOf(m, n, u)} ELSE log
    /\ Becomes(m, n, AfterLogFailed(m, n))
    /\ queue' = IF AfterLogFailed(m, n).phase = "thrown" THEN Returned(m, n) ELSE queue
    /\ UNCHANGED <<vars, deliveries, teamsLog, posted, accepted, reports>>

\* acsEmailEvents: the report on an accepted email, matched to the row with
\* its provider id.  A report that matches no row is acknowledged and lost.
ReportDelivery(s, result) ==
    /\ s \in accepted /\ s.rcpt.channel = "email"
    /\ \A rep \in reports : rep.send # s
    /\ reports' = reports \cup {[send |-> s, result |-> result]}
    /\ log' = {IF /\ row.msg = s.msg /\ row.run = s.run /\ row.rcpt = s.rcpt
                  /\ row.provider
               THEN [row EXCEPT !.status = result] ELSE row : row \in log}
    /\ UNCHANGED <<vars, queue, deliveries, run, teamsLog, posted, accepted>>

-----------------------------------------------------------------------------
(* The subscriptions change meanwhile.                                      *)

\* The email tokens that the step confirms (confirmed_at is now).
Confirming ==
    {c \in ConfIds : /\ confs[c].channel = "email"
                     /\ Live(c) /\ confs'[c].state = "confirmed"}

\* Any step of Subscriptions; the rows' standing follows from confirmed_at.
SubscriptionStep ==
    /\ Next
    /\ log' = {IF \E c \in Confirming : confs[c].sub = row.rcpt.sub
               THEN [row EXCEPT !.fresh = FALSE] ELSE row : row \in log}
    /\ UNCHANGED <<queue, deliveries, run, teamsLog, posted, accepted, reports>>

-----------------------------------------------------------------------------
\* What run n of the handler does next, when it is not cut off.
HandlerStep(m, n) ==
    \/ Complete(m, n)
    \/ \E i \in Places, outcome \in Outcomes, taken \in BOOLEAN :
          PostToTeams(m, n, i, outcome, taken)
    \/ \E stored \in BOOLEAN : RecordPost(m, n, stored)
    \/ \E matched \in SUBSET Subs : ReadSubscribers(m, n, matched)
    \/ \E t \in run[m][n].todo, outcome \in Outcomes, taken, threw \in BOOLEAN :
          Send(m, n, t, outcome, taken, threw)
    \/ LogDelivery(m, n)
    \/ \E stored \in BOOLEAN : LogDeliveryFails(m, n, stored)

DispatchNext ==
    \/ SubscriptionStep
    \/ \E m \in Messages :
          \/ Publish(m)
          \/ ExpireEvent(m)
          \/ \E known \in BOOLEAN : Deliver(m, known)
          \/ \E n \in Runs : LoseLock(m, n) \/ Abort(m, n) \/ HandlerStep(m, n)
    \/ \E s \in accepted, result \in {"delivered", "bounced"} : ReportDelivery(s, result)

DispatchSpec == (Init /\ DispatchInit) /\ [][DispatchNext]_allVars

\* The Functions host delivers what is queued, and a handler that is not cut
\* off runs on: each of its calls returns or throws.
DispatchFairness ==
    \A m \in Messages :
        /\ WF_allVars(\E known \in BOOLEAN : Deliver(m, known))
        /\ \A n \in Runs : WF_allVars(HandlerStep(m, n))

FairDispatchSpec == DispatchSpec /\ DispatchFairness

-----------------------------------------------------------------------------
(* Safety.                                                                  *)

DispatchTypeOK ==
    /\ queue \in [Messages -> {"unpublished", "queued", "locked", "settled", "dead"}]
    /\ deliveries \in [Messages -> 0 .. MaxDeliveries]
    /\ run \in [Messages -> [Runs -> RunStates]]
    /\ teamsLog \in [Messages -> [Audiences -> Outcomes \cup {None}]]
    /\ log \subseteq LogRows
    /\ posted \subseteq [msg : Messages, run : Runs, place : Places]
    /\ accepted \subseteq [msg : Messages, run : Runs, rcpt : Recipients]
    /\ reports \subseteq [send : accepted, result : {"delivered", "bounced"}]

\* One delivery of an alert reaches a phone number or an address once, however
\* many signups hold it and however they were merged.
OneAlertPerContact ==
    \A s, t \in accepted :
        /\ s.msg = t.msg /\ s.run = t.run
        /\ s.rcpt.channel = t.rcpt.channel /\ s.rcpt.to = t.rcpt.to
        => s = t

\* "A channel may not vouch for the other one; that is what double opt-in is":
\* whoever an alert is sent to confirmed a token on that very channel, sent to
\* that very contact.
AlertHasConsent ==
    \A s \in accepted :
        \E c \in ConfIds : /\ confs[c].state = "confirmed"
                           /\ confs[c].channel = s.rcpt.channel
                           /\ confs[c].to = s.rcpt.to

\* A run that ends normally has a log row for everyone it set out to send to,
\* whichever sends and inserts failed on the way.
EveryRecipientIsLogged ==
    \A m \in Messages : \A n \in Runs :
        run[m][n].phase = "completed" =>
            \A t \in run[m][n].recordset :
                \E row \in log : row.msg = m /\ row.run = n /\ row.rcpt = t

\* An earlier place of Targets names the audience of place i too, and run n has
\* posted there.
PostedBefore(m, n, i) ==
    \E j \in Places : /\ j < i /\ Targets[j] = Targets[i]
                      /\ [msg |-> m, run |-> n, place |-> j] \in posted

\* "an audience already logged as sent for this message is not posted again"
\* (postToTeams) by a delivery that read the history, unless it has posted to it
\* itself: an alert that names an audience twice is posted to it twice.
LoggedAsSentIsNotReposted ==
    [][\A m \in Messages : \A n \in Runs : \A i \in Places :
         /\ teamsLog[m][Targets[i]] = "sent" /\ run[m][n].known
         /\ [msg |-> m, run |-> n, place |-> i] \in posted' \ posted
         => PostedBefore(m, n, i)]_allVars

\* A row that says sent is overwritten only by the delivery that has posted to
\* its audience before, with how a second post to it went.
TeamsSentIsFinal ==
    [][\A m \in Messages : \A a \in Audiences :
         teamsLog[m][a] = "sent" /\ teamsLog'[m][a] # "sent"
         => \E n \in Runs : \E i \in Places :
               /\ Targets[i] = a /\ run[m][n].unrecorded = i
               /\ PostedBefore(m, n, i)]_allVars

-----------------------------------------------------------------------------
(* Liveness.                                                                *)

\* An event on the queue is settled or dead-lettered in the end: no failure of
\* a send, an insert, a post or a host delivers it forever.
EventIsSettled ==
    \A m \in Messages : queue[m] = "queued" ~> queue[m] \in {"settled", "dead"}

=============================================================================
