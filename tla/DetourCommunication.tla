------------------------ MODULE DetourCommunication ------------------------
(* Telling an audience about a Detour: a request sends the communication or   *)
(* records that a person did (lib/detourCommunication), the dispatch app      *)
(* mails what was queued (dispatchDetourCommunication), and the provider      *)
(* reports what became of each mail (acsEmailEvents).                         *)
(*                                                                            *)
(* No statement of the three locks the row for the next one: requests read it *)
(* on the pool and then write, the dispatcher replaces the receipts one by    *)
(* one after the mails are out, a report updates a receipt, reads them all    *)
(* and writes what they add up to. Each of these is an action here.           *)
(*                                                                            *)
(* Whether a Detour may be communicated at all (eligibility.ts) is read on    *)
(* the pool before the request reads the row: a refusal is a request that     *)
(* takes no step. Not modelled: the wording, the subject, published_by.       *)
EXTENDS Naturals

CONSTANTS
  Comms,         \* the rows of DetourCommunications
  Addresses,     \* what an email communication can be addressed to
  Recipients,    \* the places in its list of recipients: 1 .. Recipients
  Lists,         \* the lists in question: addresses by place
  Publishers,    \* publish requests in flight
  Hooks,         \* report handlers in flight
  MaxSends,      \* bound on the events one communication is queued as
  MaxDeliveries, \* maxDeliveryCount of the queue (5)
  Nobody         \* no communication

ASSUME CommunicationAssumption ==
  /\ MaxSends \in Nat /\ MaxDeliveries \in Nat \ {0}
  /\ Recipients \in Nat \ {0}
  /\ Lists \subseteq [1 .. Recipients -> Addresses]

VARIABLES
  channel,   \* how the communication goes out
  to,        \* the recipients
  status,    \* what a person did with it
  delivery,  \* delivery_status
  receipts,  \* the DetourCommunicationReceipts of a communication, by address
  sends,     \* the events it was queued as so far
  queue,     \* detour-communication-requested, by communication and event
  run,       \* the dispatcher, by communication, event and delivery
  request,   \* what a publish request is at
  hook,      \* what a report handler is at
  reached,   \* history: the addresses whose receipts a report made Delivered
  told,      \* history: the communications of which a mail or a post was taken
  recorded,  \* history: the communications a person last recorded as sent
  lost,      \* history: the communications whose request died with the row queued
  torn       \* history: those whose receipts were read or left half replaced

rowVars  == <<channel, to, status, delivery>>
mailVars == <<queue, run, sends>>
histVars == <<reached, told, recorded, lost, torn>>
communicationVars == <<rowVars, receipts, mailVars, request, hook, histVars>>

Sends == 1 .. MaxSends
Runs  == 1 .. MaxDeliveries
Positions == 1 .. Recipients

Good    == {"delivered"}                    \* delivered, expanded
Bad     == {"bounced"}                      \* bounced, suppressed, ..., failed
NoRun   == [phase |-> "none", next |-> 1, taken |-> {}, failed |-> {}, left |-> {}]
NoRequest == [phase |-> "idle", on |-> Nobody, result |-> "none"]
NoHook    == [phase |-> "idle", on |-> Nobody, result |-> "none"]

CommunicationInit ==
  /\ channel \in [Comms -> {"email", "teams", "recorded"}]
  /\ to \in [Comms -> Lists]
  /\ status = [c \in Comms |-> "draft"]
  /\ delivery = [c \in Comms |-> "not_requested"]
  /\ receipts = [c \in Comms |-> [a \in Addresses |-> "none"]]
  /\ sends = [c \in Comms |-> 0]
  /\ queue = [c \in Comms |-> [k \in Sends |-> [state |-> "none", delivered |-> 0]]]
  /\ run = [c \in Comms |-> [k \in Sends |-> [n \in Runs |-> NoRun]]]
  /\ request = [w \in Publishers |-> NoRequest]
  /\ hook = [h \in Hooks |-> NoHook]
  /\ reached = [c \in Comms |-> {}]
  /\ told = {} /\ recorded = {} /\ lost = {} /\ torn = {}

-----------------------------------------------------------------------------
(* Where a communication has got to.                                          *)

\* classifyCommunication, communicationStateSql.
State(c) ==
  IF delivery[c] = "queued" THEN "queued"
  ELSE IF delivery[c] \in {"sent", "partially_sent"} THEN "sent"
  ELSE IF delivery[c] \in {"failed", "skipped"} THEN "failed"
  ELSE IF status[c] = "published" THEN "recorded" ELSE status[c]

\* Whether its audience counts as told.
Counted(c) == State(c) \in {"sent", "recorded"}

\* "Only a draft or failed communication can be sent".
Sendable(c) == State(c) \in {"draft", "failed"}

-----------------------------------------------------------------------------
(* sendCommunication and recordSentElsewhere.                                 *)

Begin(w, c, phase) ==
  /\ request[w].phase = "idle"
  /\ Sendable(c)
  /\ request' = [request EXCEPT ![w] = [phase |-> phase, on |-> c, result |-> "none"]]
  /\ UNCHANGED <<rowVars, receipts, mailVars, hook, histVars>>

ReadForSend(w, c) ==
  channel[c] \in {"email", "teams"} /\ sends[c] < MaxSends /\ Begin(w, c, "sending")

ReadForRecord(w, c) == Begin(w, c, "recording")

\* The snapshot, before any attempt. Nothing is compared.
Snapshot(w) ==
  LET c == request[w].on IN
  /\ request[w].phase = "sending"
  /\ status' = [status EXCEPT ![c] = "published"]
  /\ delivery' = [delivery EXCEPT ![c] = "queued"]
  /\ recorded' = recorded \ {c}
  /\ request' = [request EXCEPT ![w].phase = "delivering"]
  /\ UNCHANGED <<channel, to, receipts, mailVars, hook, reached, told, lost, torn>>

\* One more event for the dispatcher.
Queued(c) ==
  /\ sends[c] < MaxSends
  /\ sends' = [sends EXCEPT ![c] = @ + 1]
  /\ queue' = [queue EXCEPT ![c][sends[c] + 1].state = "queued"]

\* The email port: the event is on the queue, and the request is done.
Enqueue(w) ==
  LET c == request[w].on IN
  /\ request[w].phase = "delivering" /\ channel[c] = "email"
  /\ Queued(c)
  /\ request' = [request EXCEPT ![w] = NoRequest]
  /\ UNCHANGED <<rowVars, receipts, run, hook, histVars>>

\* Mutant of EnqueueFails: the row is left as the snapshot wrote it.
EnqueueFailsSilently(w, took) ==
  /\ request[w].phase = "delivering" /\ channel[request[w].on] = "email" /\ ~took
  /\ request' = [request EXCEPT ![w] = NoRequest]
  /\ UNCHANGED <<rowVars, receipts, mailVars, hook, histVars>>

\* The send to the queue fails, or there is no queue: that is "skipped". The
\* event may be there all the same (took).
EnqueueFails(w, took) ==
  LET c == request[w].on IN
  /\ request[w].phase = "delivering" /\ channel[c] = "email"
  /\ IF took THEN Queued(c) ELSE UNCHANGED <<queue, sends>>
  /\ request' = [request EXCEPT ![w].phase = "reporting", ![w].result = "skipped"]
  /\ UNCHANGED <<rowVars, receipts, run, hook, histVars>>

\* The Teams port. A post that timed out may have been taken.
PostToTeams(w, result, took) ==
  LET c == request[w].on IN
  /\ request[w].phase = "delivering" /\ channel[c] = "teams"
  /\ result = "sent" => took
  /\ result = "skipped" => ~took
  /\ told' = IF took THEN told \cup {c} ELSE told
  /\ request' = [request EXCEPT ![w].phase = "reporting", ![w].result = result]
  /\ UNCHANGED <<rowVars, receipts, mailVars, hook, reached, recorded, lost, torn>>

\* What came of it. Nothing is compared.
Report(w) ==
  LET c == request[w].on IN
  /\ request[w].phase = "reporting"
  /\ delivery' = [delivery EXCEPT ![c] = request[w].result]
  /\ status' = IF request[w].result = "sent" THEN status ELSE [status EXCEPT ![c] = "draft"]
  /\ recorded' = recorded \ {c}
  /\ request' = [request EXCEPT ![w] = NoRequest]
  /\ UNCHANGED <<channel, to, receipts, mailVars, hook, reached, told, lost, torn>>

\* A person sent it. delivery_status is left as it was.
Record(w) ==
  LET c == request[w].on IN
  /\ request[w].phase = "recording"
  /\ status' = [status EXCEPT ![c] = "published"]
  /\ recorded' = recorded \cup {c}
  /\ request' = [request EXCEPT ![w] = NoRequest]
  /\ UNCHANGED <<channel, to, delivery, receipts, mailVars, hook, reached, told, lost, torn>>

\* The host stops, or a statement throws.
Vanish(w) ==
  /\ request[w].phase # "idle"
  /\ lost' = IF request[w].phase \in {"delivering", "reporting"}
               THEN lost \cup {request[w].on} ELSE lost
  /\ request' = [request EXCEPT ![w] = NoRequest]
  /\ UNCHANGED <<rowVars, receipts, mailVars, hook, reached, told, recorded, torn>>

-----------------------------------------------------------------------------
(* dispatchDetourCommunication.                                               *)

Holds(c, k, n) == queue[c][k].state = "locked" /\ queue[c][k].delivered = n

Completed(c, k, n) ==
  IF Holds(c, k, n) THEN [queue EXCEPT ![c][k].state = "completed"] ELSE queue

Returned(c, k, n) ==
  IF Holds(c, k, n)
  THEN [queue EXCEPT ![c][k].state = IF n = MaxDeliveries THEN "dead" ELSE "queued"]
  ELSE queue

Deliver(c, k) ==
  LET n == queue[c][k].delivered + 1 IN
  /\ queue[c][k].state = "queued"
  /\ queue' = [queue EXCEPT ![c][k] = [state |-> "locked", delivered |-> n]]
  /\ run' = [run EXCEPT ![c][k][n] =
               [NoRun EXCEPT !.phase = "mailing"]]
  /\ UNCHANGED <<rowVars, receipts, sends, request, hook, histVars>>

\* The message outlives its two days on the queue.
Expire(c, k) ==
  /\ queue[c][k].state = "queued"
  /\ queue' = [queue EXCEPT ![c][k].state = "dead"]
  /\ UNCHANGED <<rowVars, receipts, run, sends, request, hook, histVars>>

\* sendEmail to the next recipient: accepted, refused, or thrown, which includes
\* a timeout of a mail the provider took.
Mail(c, k, n, ok, took) ==
  LET p == run[c][k][n].next IN
  /\ run[c][k][n].phase = "mailing"
  /\ ok => took
  /\ run' = [run EXCEPT ![c][k][n] =
               [phase |-> IF p = Recipients THEN "clearing" ELSE "mailing",
                next |-> IF p = Recipients THEN 1 ELSE p + 1,
                taken |-> IF ok THEN @.taken \cup {p} ELSE @.taken,
                failed |-> IF ok THEN @.failed ELSE @.failed \cup {p},
                left |-> {}]]
  /\ told' = IF took THEN told \cup {c} ELSE told
  /\ UNCHANGED <<rowVars, receipts, queue, sends, request, hook, reached, recorded, lost, torn>>

\* Email is not configured: the first call says so, and the loop ends.
SkipMailing(c, k, n) ==
  /\ run[c][k][n].phase = "mailing" /\ run[c][k][n].next = 1
  /\ run' = [run EXCEPT ![c][k][n].phase = "clearing"]
  /\ UNCHANGED <<rowVars, receipts, queue, sends, request, hook, histVars>>

\* Some run is between its DELETE and its last INSERT.
Replacing(c) == \E k \in Sends, n \in Runs : run[c][k][n].phase = "inserting"

\* The DELETE of the earlier receipts; then one INSERT each is left to do.
ClearReceipts(c, k, n) ==
  /\ run[c][k][n].phase = "clearing"
  /\ receipts' = [receipts EXCEPT ![c] = [a \in Addresses |-> "none"]]
  /\ run' = [run EXCEPT ![c][k][n] =
               [@ EXCEPT !.phase = "inserting",
                         !.left = run[c][k][n].taken \cup run[c][k][n].failed]]
  /\ torn' = IF Replacing(c) THEN torn \cup {c} ELSE torn
  /\ UNCHANGED <<rowVars, queue, sends, request, hook, reached, told, recorded, lost>>

\* The next recipient to INSERT: in their order, the accepted first.
IsNext(r, p) ==
  LET batch == IF r.left \cap r.taken # {} THEN r.left \cap r.taken ELSE r.left
  IN  p \in batch /\ \A q \in batch : p <= q

\* A second receipt for one address is refused by the table, and that run of
\* the handler throws (Abort).
InsertReceipt(c, k, n, p) ==
  LET r == run[c][k][n] IN
  /\ r.phase = "inserting" /\ IsNext(r, p)
  /\ receipts[c][to[c][p]] = "none"
  /\ receipts' = [receipts EXCEPT ![c][to[c][p]] = IF p \in r.taken THEN "accepted" ELSE "failed"]
  /\ run' = [run EXCEPT ![c][k][n].left = @ \ {p}]
  /\ UNCHANGED <<rowVars, queue, sends, request, hook, histVars>>

\* Mutant of Result: a run is partial as soon as some mail failed.
ResultPartial(r) ==
  IF r.taken = {} /\ r.failed = {} THEN "skipped"
  ELSE IF r.failed = {} THEN "sent" ELSE "partially_sent"

\* What a run adds up to.
Result(r) ==
  IF r.taken = {} /\ r.failed = {} THEN "skipped"
  ELSE IF r.failed = {} THEN "sent"
  ELSE IF r.taken = {} THEN "failed" ELSE "partially_sent"

\* The last UPDATE. Nothing is compared. The message is done.
WriteResult(c, k, n) ==
  /\ run[c][k][n].phase = "inserting" /\ run[c][k][n].left = {}
  /\ delivery' = [delivery EXCEPT ![c] = Result(run[c][k][n])]
  /\ run' = [run EXCEPT ![c][k][n] = [NoRun EXCEPT !.phase = "done"]]
  /\ queue' = Completed(c, k, n)
  /\ UNCHANGED <<channel, to, status, receipts, sends, request, hook, histVars>>

\* The lock on the message is lost by a host that stalls.
LoseLock(c, k, n) ==
  /\ run[c][k][n].phase \notin {"none", "done"}
  /\ Holds(c, k, n)
  /\ queue' = Returned(c, k, n)
  /\ UNCHANGED <<rowVars, receipts, run, sends, request, hook, histVars>>

\* The host stops, or a statement throws.
Abort(c, k, n) ==
  /\ run[c][k][n].phase \notin {"none", "done"}
  /\ torn' = IF run[c][k][n].phase = "inserting" THEN torn \cup {c} ELSE torn
  /\ run' = [run EXCEPT ![c][k][n] = [NoRun EXCEPT !.phase = "done"]]
  /\ queue' = Returned(c, k, n)
  /\ UNCHANGED <<rowVars, receipts, sends, request, hook, reached, told, recorded, lost>>

-----------------------------------------------------------------------------
(* acsEmailEvents.                                                            *)

\* The receipt with the mail's identifier takes what is reported. A report that
\* finds none (not inserted yet, replaced since, or of a mail whose send timed
\* out) is acknowledged and gone: no step. A mail may be reported on more than
\* once, and Event Grid delivers at least once.
TakeReport(h, c, a, what) ==
  /\ hook[h].phase = "idle"
  /\ receipts[c][a] \in {"accepted"} \cup Good \cup Bad
  /\ receipts' = [receipts EXCEPT ![c][a] = what]
  /\ reached' = IF what \in Good THEN [reached EXCEPT ![c] = @ \cup {a}] ELSE reached
  /\ hook' = [hook EXCEPT ![h] = [phase |-> "reading", on |-> c, result |-> "none"]]
  /\ UNCHANGED <<rowVars, mailVars, request, told, recorded, lost, torn>>

\* Mutant of Aggregate: one delivered receipt is enough.
AggregateHasty(states) ==
  IF states = {} THEN "sent"
  ELSE IF states \subseteq Bad \cup {"failed"} THEN "failed"
  ELSE IF states \cap (Bad \cup {"failed"}) # {} THEN "partially_sent"
  ELSE IF states \cap Good # {} THEN "delivered" ELSE "sent"

\* aggregateDelivery.
Aggregate(states) ==
  IF states = {} THEN "sent"
  ELSE IF states \subseteq Bad \cup {"failed"} THEN "failed"
  ELSE IF states \cap (Bad \cup {"failed"}) # {} THEN "partially_sent"
  ELSE IF states \subseteq Good THEN "delivered" ELSE "sent"

ReadReceipts(h) ==
  LET c == hook[h].on
      states == {receipts[c][a] : a \in Addresses} \ {"none"}
  IN
  /\ hook[h].phase = "reading"
  /\ hook' = [hook EXCEPT ![h].phase = "writing", ![h].result = Aggregate(states)]
  /\ torn' = IF Replacing(c) THEN torn \cup {c} ELSE torn
  /\ UNCHANGED <<rowVars, receipts, mailVars, request, reached, told, recorded, lost>>

\* WHERE ... delivery_status IN (...).
Reportable(c) == delivery[c] \in {"sent", "delivered", "partially_sent", "failed"}

WriteAggregate(h) ==
  LET c == hook[h].on IN
  /\ hook[h].phase = "writing"
  /\ IF Reportable(c)
     THEN /\ delivery' = [delivery EXCEPT ![c] = hook[h].result]
          /\ status' = IF hook[h].result = "failed" THEN [status EXCEPT ![c] = "failed"] ELSE status
     ELSE UNCHANGED <<delivery, status>>
  /\ hook' = [hook EXCEPT ![h] = NoHook]
  /\ UNCHANGED <<channel, to, receipts, mailVars, request, histVars>>

\* The handler throws; the receipts it has updated stay updated.
DropReport(h) ==
  /\ hook[h].phase # "idle"
  /\ hook' = [hook EXCEPT ![h] = NoHook]
  /\ UNCHANGED <<rowVars, receipts, mailVars, request, histVars>>

-----------------------------------------------------------------------------
RequestStep(w) ==
  \/ Snapshot(w) \/ Enqueue(w) \/ Report(w) \/ Record(w)
  \/ \E took \in BOOLEAN : EnqueueFails(w, took)
  \/ \E result \in {"sent", "failed", "skipped"}, took \in BOOLEAN : PostToTeams(w, result, took)

RunStep(c, k, n) ==
  \/ \E ok, took \in BOOLEAN : Mail(c, k, n, ok, took)
  \/ SkipMailing(c, k, n)
  \/ ClearReceipts(c, k, n)
  \/ \E p \in Positions : InsertReceipt(c, k, n, p)
  \/ WriteResult(c, k, n)
  \/ Abort(c, k, n)

HookStep(h) == ReadReceipts(h) \/ WriteAggregate(h)

CommunicationNext ==
  \/ \E w \in Publishers :
       \/ \E c \in Comms : ReadForSend(w, c) \/ ReadForRecord(w, c)
       \/ RequestStep(w) \/ Vanish(w)
  \/ \E c \in Comms, k \in Sends :
       \/ Deliver(c, k) \/ Expire(c, k)
       \/ \E n \in Runs : RunStep(c, k, n) \/ LoseLock(c, k, n)
  \/ \E h \in Hooks :
       \/ \E c \in Comms, a \in Addresses, what \in Good \cup Bad : TakeReport(h, c, a, what)
       \/ HookStep(h) \/ DropReport(h)

CommunicationSpec == CommunicationInit /\ [][CommunicationNext]_communicationVars

\* A request that was accepted goes on until it is answered or its host stops;
\* the queue delivers; a handler that holds a message returns or throws.
CommunicationFairness ==
  /\ \A w \in Publishers : WF_communicationVars(RequestStep(w) \/ Vanish(w))
  /\ \A c \in Comms, k \in Sends :
       /\ WF_communicationVars(Deliver(c, k))
       /\ \A n \in Runs : WF_communicationVars(RunStep(c, k, n))

FairCommunicationSpec == CommunicationSpec /\ CommunicationFairness

-----------------------------------------------------------------------------
(* Properties.                                                                *)

\* Every variable has its type, and a message that is locked on the queue is in
\* the hands of a run that has not ended (the dispatcher completes it by
\* returning and gives it back by throwing).
CommunicationTypeOK ==
  /\ \A c \in Comms, k \in Sends :
       /\ queue[c][k].state \in {"none", "queued", "locked", "completed", "dead"}
       /\ queue[c][k].delivered \in 0 .. MaxDeliveries
       /\ queue[c][k].state = "none" <=> k > sends[c]
       /\ queue[c][k].state = "locked" =>
            run[c][k][queue[c][k].delivered].phase \notin {"none", "done"}
  /\ status \in [Comms -> {"draft", "published", "failed"}]
  /\ delivery \in [Comms -> {"not_requested", "queued", "sent", "partially_sent",
                             "failed", "skipped", "delivered"}]
  /\ receipts \in [Comms -> [Addresses -> {"none", "accepted", "failed"} \cup Good \cup Bad]]
  /\ reached \in [Comms -> SUBSET Addresses]
  /\ told \cup recorded \cup lost \cup torn \subseteq Comms

\* "a queued or failed send is not a Detour audience that has been told"
\* (state.ts): an audience counts as told only when some mail to it or post was
\* taken, or a person recorded theirs, whatever was retried, sent twice at
\* once, bounced or crashed.
CountedWasTold ==
  \A c \in Comms :
    Counted(c) => c \in recorded \cup told

\* "Delivered" means every recipient's receipt is Delivered
\* (docs/detour-feature-evaluation.md), unless a report read the receipts, a crash left
\* them or another run cleared them while the dispatcher was replacing them.
DeliveredWasReported ==
  \A c \in Comms : delivery[c] = "delivered" /\ c \notin torn =>
    \A p \in Positions : to[c][p] \in reached[c]

\* "communication_status counts only communications that were delivered or that
\* a human marked published" (docs/detour-feature-evaluation.md): what a person
\* recorded as sent counts, until it is sent again.
RecordedIsCounted == \A c \in recorded : Counted(c)

\* What holds instead: it counts unless mailing it was tried, before or since.
RecordedIsCountedUnlessTried ==
  \A c \in recorded :
    \/ Counted(c)
    \/ delivery[c] \in {"queued", "failed", "skipped"}
    \/ delivery[c] = "delivered" /\ status[c] = "failed"

\* "the caller records that as skipped so the communication is not left looking
\* queued forever" (lib/events.ts): a queued communication gets its answer,
\* unless its request died before the event was on the queue, or the event was
\* dead-lettered.
QueuedIsAnswered ==
  \A c \in Comms :
    delivery[c] = "queued" ~>
      \/ delivery[c] # "queued" \/ c \in lost
      \/ \E k \in Sends : queue[c][k].state = "dead"
=============================================================================
