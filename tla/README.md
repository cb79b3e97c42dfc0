# mvta-onboard in TLA+

A verification development of OnBoard, the operations console and rider alert
service of the Minnesota Valley Transit Authority: TLA+ modules translated from
the source, TLC configurations that model-check them on small instances, and
proofs that TLAPS checks for every value of the constants. Its core is the
part of the system whose mistakes reach the public: who is texted and mailed,
on whose consent, and how often. Beside it stand the notifications of event
service, the access of administrators, the life of a Detour, the assessment of
the contractor's month, and the scanning of count sheets.

Paths below are relative to the repository. `SC` is
`functions-restapi/src/lib/subscriberConfirmation.ts`, `SP` is
`functions-restapi/src/lib/subscriberPreferences.ts`, `DM` is
`functions-dispatch/src/functions/dispatchMessageCreated.ts`, `AM` is
`functions-restapi/src/lib/accessManagement*.ts`.

## 1. The system

Two Azure Functions apps over one SQL database, with Service Bus queues between
them and two web frontends in front.

| part | state it keeps | operations | talks to |
| --- | --- | --- | --- |
| Rider subscriptions | `Subscribers`, `SubscriberConfirmations` | sign up, resend, confirm by email link or SMS code, STOP, one-click unsubscribe, manage link, preference page | alert dispatch (queues, and the same tables), Azure Communication Services (ACS) by Event Grid |
| Alert dispatch | `SmsDeliveryLog`, `EmailDeliveryLog`, `TeamsDeliveryLog`, the event on the queue | deliver an event, post to Teams, fan out, log, take a delivery report | subscriptions, ACS, Teams webhooks |
| Message lifecycle, suggested alerts | `Messages`, suggestions | create, summarise, publish, update, retract, expire | publishes to alert dispatch |
| Event plans, geofences, notifications | service plans, crossings, notifications with a claim and a lease, cooldowns | detect a crossing, claim, post, finish, acknowledge, send by hand | AVL feed, Service Bus, Teams |
| Detours | detours, workflow revisions, communications and their receipts, a number sequence | intake, review, assign, close, communicate | dispatch app, AVAIL, ACS |
| Missed trips, occurrences, assessment | cases, evidence, reviews, periods, escalation history | poll, review, promote, open and settle a period | each other; feeds |
| On-time performance | months, days, exclusions, verification | import, exclude, verify, lock | feeds, assessment |
| Access management | people, roles, grants, grant requests | request, decide by a second person, revoke | every handler's `requireAccess` |
| Ridership | sheets and counts, print runs, scan uploads and pages, a queue of scan work | print, enter, upload, split, identify, assign | blob storage, Service Bus |
| Decision matrix, on-demand, garage departures, trip start log, predictions, schedule review | tables of their own | create, update, poll | feeds, Spare |
| Feeds | feed runs, freshness | timers | AVAIL, GTFS, Spare |

`PROJECT.json` lists every part with its sources, whether it is modelled, and
why not when it is not.

### What is hard

* **Duplicate sign-ups.** The sign-up form is public and asks for no login, so
  one person (or a stranger) can create many records with one contact. Records
  are merged when a contact is *proven*. Tokens are presented in any order,
  twice, late, and while another transaction moves them.
* **Consent over time.** STOP, the preference page, unsubscribe and merges race
  with confirmations in progress; each changes a different set of rows under
  different locks.
* **At-least-once delivery with partial failure.** Each published alert is an
  event that may be delivered five times, in runs that overlap; each run makes
  many calls, any of which may fail before or after taking effect.
* **Late facts.** Bounce reports arrive before, after or without the row they
  are about; a merge moves an address away from its history.
* **Claims and leases.** A notification and an administrator's change are
  claimed in the row for five minutes; whoever claimed may outlive that, stop,
  or come back after the row was decided by somebody else.
* **Reading without a lock.** A Detour's acts lock their own row and read the
  others; the intake, the communications and their reports read and then write
  whatever the row has become.
* **Work in pieces.** A scanned file becomes a message, a row and a message per
  page, and a status that says when all are done; each piece is delivered again
  by itself, in a process that takes them one at a time while their locks run.
* **A directory that lags.** Roles are assignments in the tenant's directory:
  listings are behind, calls fail before or after they took effect.
* **Representation.** A routes column may be NULL, `"ALL"` or a list of ids
  that were strings or numbers in somebody's JSON.

### What makes each part correct

* *Subscriptions*: a contact is confirmed on one live record at most; a token
  confirms the contact it was sent to; whoever stopped is not revived without
  new consent; links keep working (or stop working) as promised; nothing
  unproven travels in a merge; a code cannot be guessed more often than the cap.
* *Audience*: merging loses no alert that was asked for.
* *Dispatch*: an alert goes only where there is consent, once per delivery, with
  a log row for each recipient; a Teams channel that is logged as posted to is not
  posted to by a redelivery; bounces are respected until the address is proven again; the event is settled in the end.
* *Event notifications*: whoever posts within the lease has the row; Teams takes
  a post twice only when an answer was lost or late; the cooldown holds in any
  order of handling; what is final stays.
* *Access*: an administrator remains; a privileged change takes two people; what
  was refused has no effect; a decision stands.
* *Detours*: overlapping Detours are not both confirmed unseen; a person's
  correction beats the feed; what nobody reviewed is outstanding; a decision on
  a report stands; a Detour says what its report says, or the dates it was
  promoted with.
* *Communications*: an audience counts as told only if it was; "delivered" means
  every recipient's receipt says so; a queued communication gets its answer.
* *Assessment*: what is with the contractor is what would be finalized; what is
  issued is what was finalized; a review is of the inputs it is shown with.
* *Scans*: a sheet has one page; a copy is set aside only for another one; a page
  does not wait for ever, and neither does its upload.

## 2. Modules

    Subscriptions <--- EXTENDS --- AlertDispatch          Audience
       ^      ^                     ^        ^             ^   ^
       |      Subscriptions_proofs  |        |-- MCAudience    Audience_proofs
    MCSubscriptions  ^              |-- MCAlertDispatch
                     |
           AlertDispatch_proofs (EXTENDS AlertDispatch too)

    Consent <-- refined by -- Subscriptions

    Lease <-- refined by -- EventNotification     AssessmentPeriod
                               ^        ^           ^           ^
           EventNotification_proofs   MCNotifications   AssessmentPeriod_proofs

    AdministratorAccess <--- MCAdministratorAccess
              ^------------- AdministratorAccess_proofs

    DetourWorkflow   DetourIntake   DetourCommunication   RidershipScans
        ^      ^-------^---^----------^---^     ^   ^-----------^    ^
    MCDetours         Detours_proofs   MCDetour-  MCDeliveries  RidershipScans_proofs
                                       Communication

`MCAudience` extends `AlertDispatch` and `Audience`. `MCDetours` and
`Detours_proofs` extend all three modules of a Detour.

### Subscriptions

| TLA+ | code |
| --- | --- |
| `status`, `contact`, `chan`, `mergedInto` | columns of `Subscribers` (`phase1-schema.sql`, migrations 117 and 118); `contact` and `chan` are indexed by channel |
| `prefs` | the categories, routes and zones columns, abstracted to *whose* choices they contain |
| `linked` | somebody was mailed a link with the row's current `manage_key` |
| `confs` | `SubscriberConfirmations`, numbered by `created_at`; `to` is history: the contact it was sent to |
| `issued`, `cooled`, `expired` | time: tokens exist; those older than the resend cooldown; those past their time to live |
| `held` | the rows that a confirming transaction has locked |
| `stopMark` | history: the last token before a contact's last STOP |
| `Subscribe`, `ResendConfirmation` | `subscribersCreate`, `resendConfirmation` with `issueConfirmation` |
| `PresentEmailLink`, `PresentSmsCode`, `WrongSmsCode` | `confirmEmail`, `confirmSms`, `countAttempt`, up to the decision |
| `ConfirmAndKeep`, `ConfirmAndFold` | `markConfirmed` with `mergeOnConfirm`, `foldInto`, `retire`, `repointConfirmations`, `void...`: the write half, by whether another record already holds the contact proven |
| `AbandonConfirm` | rollback (deadlock victim, host stopped) |
| `OptOut` | `optOut`: STOP, one-click unsubscribe |
| `RequestManageLink`, `WritePreferences`, `UnsubscribeAll` | `requestManageLink`, `writePreferences`, `unsubscribeAll`, with `resolveManageKey` as `Resolved` |
| `CooldownPasses`, `TokenExpires` | the clock |

*Atomicity.* One action is one committed transaction. The exception is
confirming: `SELECT ... FROM SubscriberConfirmations c WITH (UPDLOCK, HOLDLOCK)
JOIN Subscribers s` locks the token's rows and *not* the subscriber's, so the
status that `classifyConfirmation` looks at can be stale when `markConfirmed`
writes. That transaction is two actions with `held` between them, and every
other action that writes confirmation rows waits for them (`Unlocked`). All
other transactions begin by locking the rows that they decide on.

*Time.* Tokens age in the order in which they were issued, and the cooldown (two
minutes) is shorter than the time to live (hours): so two marks on that order
are enough, with `expired <= cooled <= issued`.

*What it promises.* `Consent` is the double opt-in as the owner of a phone number
or an address sees it, with no records, merges or locks in it: a contact is
asked, by a token that is sent to it; it answers, by presenting the token, and is
on; it stops, which voids what was sent to it so far; or the rider leaves.
`Subscriptions` implements it (`ImplementsConsent`) under this mapping:

| `Consent` | of the tables |
| --- | --- |
| `Inboxes` | a channel with a contact of it |
| `asked`, `answered` | the live and the confirmed tokens that were sent to the contact (`to`, not the record's column) |
| `on` | an unmerged record holds the contact, confirmed |
| `sent`, `stopped` | `issued`, `stopMark` |
| `Ask` | `Subscribe`, `ResendConfirmation` |
| `Answer` | `ConfirmAndKeep`, `ConfirmAndFold` (the contact of the record folded away in the *other* slot may go off) |
| `Stop`, `Leave` | `OptOut`; `WritePreferences`, `UnsubscribeAll` |
| no step | `PresentEmailLink`, `PresentSmsCode`, `WrongSmsCode` short of the cap, `AbandonConfirm`, `RequestManageLink`, the clock |

*Left out*: wording and parsing of texts (a STOP that is lost is `OptOut` not
happening), audit rows, `manage_link_sent_at` (the footer of each alert carries
the same link without that limit), `opted_in_at` (which record survives when
several hold the contact proven: the model lets any; `OneOwner` says there is
never more than one).

### Audience

The routes and zones columns as `[kind, list]`, with ids typed text or number:
`serializeAudience`, `audienceErrors`, `unionAudience`, `parseList`,
`parseAudience` and `audienceMatches`, under three actions: `SignUp`,
`WritePreferences`, `FoldInto`. Two live records fold in any order here, more
than `mergeOnConfirm` ever does, so what holds here holds there. Values that are
no JSON are left out: nothing in the code writes one.

### AlertDispatch

Extends `Subscriptions`: a step is either any step of the subscriptions or one
of the dispatcher, the queue, or a report.

| TLA+ | code |
| --- | --- |
| `queue`, `deliveries` | the event on `message-created-events`: settled, redelivered or dead-lettered (`servicebus.bicep`) |
| `run[m][n]` | local variables of the handler in delivery `n`: phase, whether the Teams history could be read, places of `Targets` left, the recordset, recipients left, the row not yet logged and whether the catch block is logging it |
| `teamsLog`, `log` | the delivery logs; a row knows if it has a provider id and if a confirmation of *its own record* is newer (`fresh`) |
| `Targets`, `Audiences` | the audiences that `teamsTargets` takes from the channels: a sequence, as given; their names up to case |
| `posted`, `accepted`, `reports` | history: what the outside world accepted and reported |
| `Deliver`, `LoseLock`, `Abort`, `Complete`, `ExpireEvent` | the Functions host and Service Bus |
| `PostToTeams`, `RecordPost` | `postToTeams`: post, then `MERGE` |
| `ReadSubscribers`, `Send`, `LogDelivery`, `LogDeliveryFails` | the SELECT and the loop with its `try`/`catch`: the row of a failed insert is logged by the catch block as `failed`, whose own failure leaves the handler |
| `ReportDelivery` | `acsEmailEvents`, its rider half |
| `SubscriptionStep` | any action of `Subscriptions`, meanwhile |

The audiences are a sequence because nothing makes them a set: `validation.ts` asks
of the channels only that they are an array, `teamsTargets` keeps what comes twice,
and the loop of `postToTeams` compares with what it read before the first post. An
audience that is named twice is posted to twice by one delivery, and the second
`MERGE` goes over the row of the first. Posts are therefore numbered by their place
(`ToPost`, `unrecorded`, `posted`). `LoggedAsSentIsNotReposted` says that a delivery
that read the history posts to an audience logged as sent only where it has posted to
it itself (`PostedBefore`), and `TeamsSentIsFinal` that only such a second post can
overwrite a row that says sent. The comment above `postToTeams` says more ("An
audience already logged as sent for this message is not posted again",
`DM:79`), which is true of audiences that are all different and a history that was
read.

Which records an alert matches (`matched`) is any set: `Audience` has the
detail. `"bounced"` stands for bounced and suppressed, which the code treats
alike. A timed-out post or send may or may not have been taken. `LoseLock` is
possible only in the fan-out: the posts before it have a timeout of seconds
each, lock renewal lasts minutes.

### Lease and EventNotification

`Lease` is what a delivery claim promises, whoever takes it: an item is open,
held by a numbered claim, or closed; a worker whose claim lapsed or whose item
was closed leaves the item alone from then on. `EventNotification` implements
it (`ImplementsLease`: `INSTANCE Lease WITH` a mapping of the row).

| TLA+ | code |
| --- | --- |
| `status`, `token`, `old` | the row of `EventGeofenceNotifications`; the claim token as the number of the claim (`claims` counts them), its age against 24 hours |
| `lapsed` | the claims whose `delivery_claimed_at` is more than five minutes ago |
| `cooldowns` | `EventGeofenceNotificationCooldowns` |
| `attempt[c][k]` | what the holder of claim `k` is doing: posting, or about to write a result |
| `queue`, `deliveries`, `run` | `event-geofence-notifications`, and the handler's local state in each delivery |
| `Deliver` ... `ClaimNothing` | `eventGeofenceNotify`, from its first SELECT to `deliver` |
| `TakeClaim`, `Post`, `FinishDelivery`, `Vanish` | `claimEventNotification`, the post, `finishEventNotificationDelivery` with the throw or return behind it, and a host that stops |
| `SendByHand`, `ExpireByHand`, `Dismiss`, `Acknowledge`, `ListNotifications`, `SwitchMessaging` | the operators' requests |

Whether a crossing's rule sends automatically, its track and its time are
constants: the geometry that detects a crossing, and the editing of plans and
fences, are left out.

### AssessmentPeriod

A contractor's month: computed, reviewed, drafted, shared for a Validation Window
of five business days, finalized by a second person, proofed, issued, corrected.

| TLA+ | code |
| --- | --- |
| `stage`, `fresh`, `ended` | `AssessmentPeriods`: `status`, `computed_revision = input_revision`, `validation_ends_on` against today; a correction is a row of the next `assessment_revision` |
| `entry` | the Assessment Item: the hash of its inputs, the recommended amount, the review (`reviewed_input_sha256`, `reviewed_by`) and the binding amount |
| `shared`, `draft`, `proof`, `final` | the hashes of live shares; the latest Validation Draft against `computed_at` and `reviewed_at`; what the live Issuance Proof and the issued Final Assessment show |
| `render` | who holds the period's report lock, and what it read before |
| `figure`, `candidate`, `intake` | what the month's occurrences and numbers come to, whether one awaits review, and an intake that has read the status of the month and not yet written |
| `OpenPeriod`, `Compute`, `Review`, `Share`, `Finalize`, `Reopen` | `assessmentPeriods.ts` with `lib/assessment`: `assess`, `sharePeriod`, `finalizePeriod`, `reopenPeriod` |
| `MaterialChange`, `InputChanged` | `materialChangeSql`, `assessableInputChangedSql`: what every handler that records something new does to the month |
| `AddEvidence`, `DecideClaim`, `EnterMetric`, `ReadForIntake`, `WriteIntake`, `DropIntake` | the handlers that record something |
| `BeginDraft` ... `FinishIssue`, `Abandon` | `withPeriodReportLock`: rendered from rows read on another connection, uploaded, and then written |
| `WindowEnds` | the calendar |

One scored standard stands for all, and a figure (`meets` or `below`) for what a
rule set makes of a month; `InputOf` adds the Escalation Streak over earlier issued
months. The one assumption about time is in `WindowEnds`: no request lasts as
long as a Validation Window, so what was under way when a month was shared has
ended five business days later.

### AdministratorAccess

The changes to administrators' roles, which wait for a second person, and the
expiry of temporary access.

| TLA+ | code |
| --- | --- |
| `directory`, `listing` | the assignments in Microsoft Entra, and what its listings show: a listing may lag by any number of changes (`Propagate`) |
| `status`, `task`, `requester`, `claim`, `aged` | `AccessManagementChanges`; `aged`: the last claim is older than five minutes |
| `row` | the newest `AccessManagementMetadata` row of an assignment |
| `work[w]` | a request being handled: what it will do next, what it has read |
| `RequestChange`, `Cancel`, `Reject`, `FindExpired` | POST of a change, its cancellation and rejection, the approval window |
| `Approve`, `List`, `Check`, `Apply`, `Record`, `RecordFails`, `Finish` | one approval: `claimChange`, listing, `recoverableAdministratorCountAfter`, `applyChange`, `recordMetadata`, `decideChange` |
| `ListDue`, `ClaimRow`, `Expire`, `Mark` | one item of an expiry run |
| `Stop`, `FiveMinutesPass`, `RowAges` | a host that stops; time |

The ordinary roles, which are changed at once, guest invitations and disabled
accounts, the reservation of repeated requests and the audit are left out; so
are edits made in Entra itself.

### DetourWorkflow

| TLA+ | code |
| --- | --- |
| `state`, `mode`, `confirmed`, `review`, `covered` | the workflow columns of `Detours`; `covered` is `conflict_override_ids` |
| `deleted`, `source`, `edited`, `external`, `facts` | the columns of the row; `facts` is all that a reviewer approves, and two Detours overlap when theirs are equal |
| `work` | acts in flight: two of them read other rows without a lock between their decision and their writes |
| `feed` | what `availDetoursSync` has looked up and not yet written |
| `Start`, `RecordAttempt`, `FallBack`, `Close`, `Edit`, `CompleteReview`, `Delete` | the acts of `decide.ts` with what `applyDecision` and the caller write, in one transaction that begins by locking the row |
| `DecideEntered`, `CommitEntered`, `DecideOverride`, `CommitOverride`, `Rollback` | the two acts that look at conflicts |
| `Lookup`, `ApplyNew`, `ApplyRefresh`, `ApplyNothing` | one detour of Avail's feed |

`settled`, `written`, `reviewed` and `raced` are history, for the properties. The owner,
the history entries, attachments and the number allocator are left out.

### DetourIntake

The queue of reported detours. No handler locks an intake, so creating, updating
and promoting are split at each statement where another request can come in
(`InsertRow`/`InsertSegments`, `ReadForUpdate`/`Update`, `ReadForPromotion`/
`Copy`/`Accept`); a review writes only if the status is still what it read.

A report is two dates, each of which may be open, and `facts`, which stands for all
else: in the row and, written later, in the segments (`routes`). The request of a
promotion may give either date (`validatePromoteDetourIntake`), and what is given goes
before what was proposed (`MadeOf`: `body.start_date ?? intake.proposed_start_date`).
`gave` is history: the dates that the promotion of a Detour gave. So
`DetourSaysWhatIntakeSays` asks of each date for the given one, and for the intake's
where none was given. `hasty` and `overtaken` are history too. Left out: the
fulfilment mode, which the promotion decides whatever mode was proposed; the
attachments, the notes and names; the number of the Detour.

### DetourCommunication

Three programs on one row: the publish request (`ReadForSend` ... `Report`, or
`ReadForRecord`, `Record`), the dispatcher (`Deliver`, `Mail`, `ClearReceipts`,
`InsertReceipt`, `WriteResult`) and the provider's reports (`TakeReport`,
`ReadReceipts`, `WriteAggregate`). Each statement is an action, because none of
them locks the row for the next. `torn` is history: the receipts were read,
cleared by another run, or left behind by a crash while half replaced.

### RidershipScans

| TLA+ | code |
| --- | --- |
| `length` | how many pages the stored file has |
| `upload`, `page` | `RidershipScanUploads.status` and `RidershipScanPages`: state, the sheet named (date, block and sheet page together), the print run by its time (0: not known), whether a person named it (`assigned_by`) |
| `waiting`, `dead` | the queue `ridership-scan-pages` as a bag of deliveries, with those that wait in `oneAtATime`; what was dead-lettered |
| `host`, `desk` | local variables of the worker and of a person's request |
| `tx` | a transaction of `recordIdentified` between its reads and its commit; it holds the application lock of its sheet |
| `vacated` | history: sheets whose page a person named otherwise |
| `CreateUpload`, `SubmitUpload` | `createUpload`, `submitUpload` |
| `LoadUpload` ... `QueueingDone` | `splitUpload`, a step per call |
| `LoadPage` ... `CommitPage`, `FinishUpload` | `processPage`, `analysePage` by what it may find, `recordIdentified`, `updatePending`, `finishUploadIfDone` |
| `Throw`, `GiveUpOnPage`, `FailUpload` | a call that throws: to the queue, or after the last delivery to `giveUpOnPage` and `giveUpOnUpload`, which may throw as well |
| `LapseWaiting`, `LapseHandled`, `ExpireMessage`, `StopHost` | the lock of five minutes on a message that waits or is handled, the seven days, a host that stops |
| `TakePage`, `DismissPage`, `BeginAssigning`, `CommitAssignment`, `LeaveDesk` | `assignPage` |
| `PrintSheet` | external: the print log gains a run |

A transaction waits for the lock or throws: `sp_getapplock` reports a wait of 30
seconds in a result that `recordIdentified` does not look at, but the driver ends
the request with an error before that, at its default of 15. A longer request
timeout would let two transactions in. Left out: the images and marks, the
image store (a write that fails is `Throw`), the views, and sheets of counts.

## 3. Runs

Every property has a mutant (`PROJECT.json`, "mutants"): a plausible bug in a
mapped definition under which TLC finds the property violated in the same run.

| run | instance | what it shows |
| --- | --- | --- |
| `duplicates` | 3 records, 1 phone, 1 email, 4 tokens, 2 codes | `OneOwner`, `LiveTokenIsAddressed`, `FoldedPreferencesWereProven`, `EveryKeyResolves`, `ProvenContactSurvivesMerge`, and `ImplementsConsent`, the refinement, over every order of presenting, folding, stopping and editing |
| `tokens` | 2 records, 3 tokens that cool down and expire, 3 codes, cap 2 | `OneLiveToken`, `EveryGuessCounts`, `StoppedWithoutTokenIsFinal` with resends, wrong and stale codes |
| `audience` | 2 records, 1 phone, 1 email, 2 tokens, 1 alert on both channels; or 3 records and 2 routes | `OneAlertPerContact`, `AlertHasConsent`, `EveryRecipientIsLogged`: two tokens are two records with one contact, or one record with two; `ColumnsAreWhatWasAsked`, `FoldKeepsNamedAlerts` |
| `settles` | 1 record, or 2 Teams audiences of which one is named twice (`<<a1, a2, a1>>`), 1 alert, 2 deliveries, fair | `EventIsSettled`, `LoggedAsSentIsNotReposted` |
| `notifications` | 3 crossings of one bus, each within the cooldown of the next only, 2 deliveries, 2 claims; or 2 months with a correction, 2 people, 2 changes | `PostingIsReserved`, `TwiceOnlyAfterLapse`, `CooldownHolds`, `FinalIsFinal`, and `ImplementsLease`, the refinement; `SharedStillMatches`, `ProofShowsFinalized`, `FinalizedAsReviewed`, `IssuedWasFinalized` |
| `approvals` | 2 people, 2 callers, 2 workers, 2 changes, 2 claims on each | `LastAdministratorKept`, `SecondPersonCarriesOut`, `RefusedHasNoEffect`, `DecisionIsFinal` |
| `detours` | see below | `ConfirmedOverlapIsOverridden`, `CorrectionStands`, `UnreviewedIsOutstanding`; `DecisionStandsUnlessRaced`, `DetourSaysWhatIntakeSays`; `CountedWasTold`, `DeliveredWasReported` |
| `deliveries` | 1 communication, 1 address, 2 requests, 2 deliveries; or 1 file of 1 to 3 pages, 2 sheets, 2 print runs, 1 worker, 1 person, 2 deliveries; fair | `QueuedIsAnswered`, `OneScanPerSheet`, `SetAsideForAnother`, `PageIsSettled` |

The type invariants (`TypeOK`, `AccessTypeOK`, `AssessmentTypeOK` and so on) and
two properties that say the least a theorem does (`TeamsSentIsFinal`: what is logged as
sent stays so unless its own delivery posts again; `ClosedStays`: a closed Detour stays closed) are proved
(section 4) and not run besides. Nor are `StopIsFinal`, which `ImplementsConsent`
contains (`OnByConsent` of `Consent`), `ReviewIsOfTheInput`, and three properties
that bound a finding or a hazard and were checked on the instances above before they
were proved: `MergesEnd`, `LeavingIsFinal`, `RecordedIsCountedUnlessTried`.

`audience`, `notifications`, `detours` and `deliveries` are sums: their modules
share no state, and a behaviour picks one of them (`side`) and stays with it, so
that one run checks all of them without multiplying them. `detours` has, for the
workflow, two Detours, two places, two acts in flight, one detour of Avail; for the
intake one that says one of two things, with an open end or without, two requests at
a time, one of two dates given by a promotion; and one
communication, with two recipients at two addresses or at one, sent twice or
delivered twice, with a report in flight.

Four runs show a disagreement between the code and what a comment or a document
of the repository says; the finding in `PROJECT.json` quotes it.

| run | in short |
| --- | --- |
| `opted_out_revived` | a record opted out between a confirmation's read and its write becomes `confirmed` |
| `recorded_not_counted` | a communication that failed and was then recorded as sent by hand still reads as failed |
| `unreviewed_finalized` | a recompute whose inputs changed withdraws the review of an item and keeps its recommendation; comparing the hash of a review that is NULL is not true in SQL, so the month is shared and finalized with nobody having reviewed the item it shows |
| `scans_stuck` | the write that closes an upload fails after its last page was settled; the redelivery skips the page, and the upload is `processing` for good |

What is true where those claims are not is proved (section 4): `LeavingIsFinal` of
the first, `RecordedIsCountedUnlessTried` of the second, `FinalizedAsReviewed` of
the third.

### What the models show besides

Behaviours of the code that some step of a model takes. They are listed here
so that nobody reads a property as excluding them:

* the preference page stops a channel and leaves its token live: presenting it
  confirms the channel again (`StoppedWithoutTokenIsFinal` is about the rest);
* unsubscribing through a merged record's link rotates the survivor's key, and
  the link that was used still resolves;
* a bounced address that is confirmed again through a new sign-up is folded into
  the record that bounced, which stays suppressed; a bounced address that a
  merge moves to a record without that history is mailed there (`Bounced`);
* NULL ("everything") united with a list becomes the list; a route id sent as a
  JSON number is stored and never matches (`AudienceMatches`);
* an audience that the channels of an alert name twice is posted to twice by one
  delivery, after it was logged as sent; if the second post fails, the row says
  `failed`, and a later delivery posts a third time (`PostedBefore`);
* a promotion that gives a date makes a Detour that says another date than its
  intake, and leaves the intake as it is (`MadeOf`);
* a Teams post that was made but not recorded is made again by the next
  delivery; a bounce report that arrives before its row, or for a row of the
  catch block, changes nothing (`ReportDelivery`);
* a redelivery that comes within the lease of a delivery that died finds nothing
  to claim and completes the message: the row stays `sending` until somebody
  opens it or a day has passed (`ClaimNothing`);
* the last administrator can go by an expiry, by an approver who outlived the
  five minutes, or on a listing that was behind: exactly the three exceptions
  of `LastAdministratorKept` (`unchecked`); a grant whose metadata could not be
  written has no row that an expiry run would find (`RecordFails`);
* an update of an intake that was read before a decision re-opens it after
  (`hasty`); a correction made between the lookup and the write of the
  synchronisation is overwritten (`raced`);
* a recipient list with one address twice fails at its second receipt in every
  delivery, after the mails, until the event is dead; a request that dies
  between the snapshot and the queue leaves its communication `queued` (`lost`);
* an enqueue that fails although the event is on the queue puts the communication
  back to a draft, and the dispatcher mails it all the same: its delivery ends as
  `delivered` on a row that says `draft`, which is not counted and can be sent again
  (`EnqueueFails`, then `WriteResult`);
* a scanned file that could not be read from storage just then is failed at once,
  without a retry (`ReadOriginal`), and a delivery that comes late can turn an
  upload that is done into a failed one (`FailUpload` has no guard); a host that
  stops in the last delivery of a page leaves it pending (`dead`);
* a month later than a reopened one can be made stale while its Final Assessment is
  being issued, with its proof still live, and is issued all the same
  (`FinishIssue`, which asks for a live proof and not for a status;
  `IssuedWasFinalized` is about the first month);
* a second correction of an issued month finds the row of the first: its insert
  fails, and the statements after it still make the later months stale (`Reopen`);
* with a second worker process a page whose message is delivered again can be
  given up by one while the other records it: the other supersedes the page that
  stood for the sheet, its own row is no longer pending and is left alone, and
  the sheet has no page. The program is deployed as one process
  (`ridershipScanWorker.ts:5`: "a single B1 worker"), and what holds of one is
  proved (`CopiesYieldToAnother`);
* a page that a person gives to another sheet while its old sheet gets a newer
  one is superseded there, and a sheet that loses its page so promotes none of
  its duplicates (`vacated`).

### Bounds

Named constants in the guards. `MaxConfs` bounds tokens in a behaviour: two
duplicates need two each, a resend one more; the third record of `duplicates`
makes merge chains of two hops and folds with a bystander. `audience` leaves resends
to `tokens`, so that two tokens are enough. `MaxAged` bounds the
tokens that grow old (0 where ageing is not the question). `MaxAttempts` (5 in
the code) and `MaxMergeHops` (10) only have to be reached or not reached: 1 or
2, and 2 or 3. One more code than live tokens is a wrong one. `MaxDeliveries`
(5) is 2 where a redelivery matters: a third adds nothing that the second does
not do, as runs share only the logs, and `audience`, whose
properties are per delivery, has one. Symmetry is used on sets of
interchangeable ids, never in a run with a liveness property.

`MaxTries` (3) is 2: a first delivery and a last one.
Two `Prints` are an older and a newer run, and 0 is an unknown one.

Six runs have a constraint, which cuts the product of long stories. `audience`
(`InOrder`, `OneSaysAnything`): records are taken in order, as they are
interchangeable, and one of the three says anything about routes while the others
name one at most. `OneAtLength` is in two of them. In `notifications`: either the other crossings are not published and
the first goes through its whole life, or all three go up to their drafts,
before any claim. Beyond its draft a crossing shares no variable with another
one, so every property but `CooldownHolds` is about one crossing, and
`CooldownHolds` is about drafts. The periods of `notifications` (`OneAtATime`,
`SecondMonth`): a correction is followed to its end if nothing changes after it is
begun; the second month is below standard, for the streak (`Below` 2, in the code
3), and is opened once the first is issued. A third month or a third revision
would repeat what the second does. In `detours`: a communication is delivered
twice or queued twice, not both, and the second story starts after the first's
event is done; overlapping runs of one event are within it. `MaxClaims` 2 is
one claim that lapses and one that takes over; `MaxChanges` 2 is two
revocations, or a revocation and a grant; `MaxRows` bounds the metadata rows of
one assignment. `approvals` lets one of its two changes be claimed a second time
(`MCThreeClaims`), not both. `settles` (`OneKindOfReader`) has a rider who gets the
alert by mail or Teams posts that are accepted or logged (then nobody has signed up),
not both, and riders change only before the alert is published: its properties are
about either. Three places, of which the first and the last are one audience, are
the first post to it, another in between and the second one. `detours` (`OneDateGiven`)
has promotions that give one date at most: the two are chosen independently.
`deliveries` (`OneSends`, `ByLength`): one of two requests sends a communication
while the other can only record it; a file of one page meets every failure; files
of two and three pages are about scans of one sheet, so each message is delivered
once and all pages are queued before one is processed; with two a person is at
the desk, who can name either sheet. Two Detours are a pair that overlaps; the properties are about
one Detour or about a pair, and the proofs cover any number.

### Fairness

`settles`, `deliveries` and `scans_stuck` use some. `settles`: weak fairness of
`Deliver` (the host takes what is on the queue) and of `HandlerStep` for each run
(a handler that is not cut off goes on: each of its awaited calls returns or
throws, all have timeouts). `deliveries` (`CommunicationFairness`,
`ScanFairness`): the same of both queues and their workers, and of each request:
it goes on or its host stops (`Vanish`, `LeaveDesk`), so a request is never just
forgotten, but may die. `scans_stuck` has `ScanFairness` alone: the upload stays
open although everybody goes on. Crashes, lost locks, expiry,
publication, reports and riders are never fair. The mutants show what the
properties rest on: a catch block that retries its insert could go on forever,
and a queue failure that is not written down leaves a row queued with nobody
behind it.

## 4. Proofs

`Subscriptions_proofs`: for any sets of ids, contacts and codes and any bounds,

* `TypeCorrect` (`TypeOK`), `AtMostOneOwner` (`OneOwner`), `TokensStayAddressed`
  (`LiveTokenIsAddressed`), `StoppedNeedsNewToken` (`StopIsFinal`),
* each from `Inductive`: `Spec => []IInv`;
* `TokensAreSingle` (`OneLiveToken`), `GuessesAreCounted` (`EveryGuessCounts`),
  `FoldedWereProven` (`FoldedPreferencesWereProven`), and the action properties
  `StoppedIsForGood` (`StoppedWithoutTokenIsFinal`) and `ProvenContactsSurvive`
  (`ProvenContactSurvivesMerge`), each from `TokensInductive`:
  `Spec => [](IInv /\ TokenInv)`;
* `MergesNeverCycle` (`MergesEnd`) and `KeysFailOnlyPastTheBound`: where a manage key
  leads;
* `SubscriptionsImplementConsent` (`ImplementsConsent`): the refinement, and
  `ConsentIsGiven`: what `Consent` promises;
* `LeaversStayOut` (`LeavingIsFinal`).

`OneOwner` and `StopIsFinal` are not inductive by themselves. What they rest on:

1. *a token stays addressed*: the record that a live token names is unmerged and
   holds the contact the token was sent to. Folds keep it because they void or
   move every token of a record they retire. Without it, confirming could prove
   a contact nobody sent the token to;
2. *tokens are younger than the stop* (`TokensOK`): a STOP supersedes every live
   token of the contact, so whatever is live was issued later;
3. *locks protect them* (`LocksOK`): a transaction's token is live until it
   commits, because all who would spend, void or move it wait;
4. *a confirmed channel has a contact* and its record is not opted out
   (`RowsOK`): so `Established` in `mergeOnConfirm` finds the owner if there is
   one, and `OneOwner` follows: either there is none and the record in hand
   becomes it, or there is and the record in hand is folded into it.

`TokenInv` is the three invariants together with `ChannelsOK`: a channel has a
status exactly where its record has a contact, a record that is not there has
neither, a pending one has no confirmed channel, and an opted-out one has nothing
left to confirm. The types allow rows that break each of these, and the steps rely
on them: a sign-up writes no channel that was stopped, a resend finds nothing to send
to on an opted-out record, a merge retires records that are confirmed or pending as
its caller takes them to be, and a survivor's slot is empty exactly when a proven
contact is to be moved there.

*Manage keys.* A merge points records at one that is unmerged and stays so in that
step, so no set of records can be left with every one merged into another of the
set; this is `MergesEnd`, and it says without any induction that there is no
circle. The walk of `resolveManageKey` therefore never meets a record twice: if
it has not ended after `MaxMergeHops` hops, `MaxMergeHops + 1` records have been
merged one into the next, and the last of them into a further one
(`KeysFailOnlyPastTheBound`, for any number of records). That every key resolves
(`EveryKeyResolves`) is only model-checked, with too few records for such a chain. It
is not true of any number: a merge can
retire the survivor of an earlier merge, through its other contact, and the chain
grows by one (with `MaxMergeHops = 1` and the instance of `duplicates`, TLC finds
a key that leads nowhere after two merges). In the code, whose bound is ten, the
link of a record at the end of a chain of eleven merges answers as if it were
unknown.

*The refinement.* There is a lemma per operation, about the contacts it asks,
turns on, turns off or takes tokens from; the invariants say that these are as
few as `Consent` allows. A contact that is on answered because the token that is
confirmed was sent to it (`LiveTokenIsAddressed`); confirming turns off nobody
but the folded record's other contact, because whoever holds the proven contact is
the survivor (`OneOwner`); a contact stays on when its record is retired, because
the survivor takes it (`ProvenContactSurvivesMerge`, by way of `ChannelsOK`); and no
step can give a spent or void token back. `OnByConsent` then needs only
`AskedOnce`: a token that can be presented was sent to one contact, after its stop.

*Opted out for good.* `OptedOutIsFinal` fails by one interleaving, a confirmation
that had read the record before. `SettledOptOut` rules that one out and is kept by
every step: a token presented later is refused (`Eligible` reads the status), and
a transaction that holds a token is of another record and stays so, since a fold
cannot move a token that is locked. Leaving altogether waits for the locked
tokens of the record, so it always settles.

The proof has a lemma per action, each with a step per conjunct. Assumptions:
`BoundsAssumption`, `NoneAssumption` (NULL is no id, no contact and no code).
The channel columns' types follow the check constraints; no property of the
contacts themselves is needed, phone numbers and addresses may even overlap.

`AlertDispatch_proofs` composes: `SubscriptionsGoOn` shows that every step of the
dispatch is a step of the subscriptions or leaves them alone (a refinement of
`Subscriptions!Spec` under the identity), so that `Inductive` holds while alerts
are sent. On it rest `DispatchInductive` and from that `DispatchTypeCorrect`,
`OnePerContact` (`OneAlertPerContact`), `EveryAlertHasConsent`
(`AlertHasConsent`), `NobodyIsUnlogged` (`EveryRecipientIsLogged`),
`SentPostsAreFinal` (`TeamsSentIsFinal`) and `SentPostsAreNotRepeated`
(`LoggedAsSentIsNotReposted`). The argument:

1. *at the read*, a record with status `confirmed` is unmerged (`MergedOK`: a
   retired row says `merged` for good), so by `OneOwner` no two rows of the
   recordset share a contact, and by `StopIsFinal` each has a confirmed token sent
   to that contact;
2. *after the read* the subscriptions go on changing, but a confirmed token stays
   confirmed, on its channel, for its contact (`ConfirmedStays`), whoever owns it by
   then: consent once given remains on record even if the rider stops meanwhile;
3. *who was sent it is no longer waiting* (`SentOK`), so the recordset's
   uniqueness carries over to what ACS accepted;
4. *who is not waiting is logged or about to be* (`LoggedOK`), through the catch
   block, whose own failure throws and so never completes;
5. *only the run that holds the lock posts* (`QueueOK`), and where it has yet to post
   or to record, either the history does not say sent or the run has posted to that
   audience at an earlier place (`PostsOK`, `Unposted`). It is kept because a run that
   is about to log a post as sent has made it, at a place before all that are left.

`Audience_proofs`: `AudienceTypeCorrect`, `NamedAlertsAreKept` (`FoldKeepsNamedAlerts`),
`ColumnsAreTheUnion` (`ColumnsAreWhatWasAsked`), for any ids, with lemmas on
`UnionAudience`.

`EventNotification_proofs`: `NotificationTypeCorrect`, `ClaimsAreExclusive`
(`PostingIsReserved`), `TwicePostedOnlyAfterLapse` (`TwiceOnlyAfterLapse`),
`FinalStays` (`FinalIsFinal`), `CooldownKept` (`CooldownHolds`), and
`NotificationImplementsLease` (`ImplementsLease`): every step is a step of the
lease or leaves its variables alone. `LeaseIsExclusive` is of the lease itself, from
the fact that the holder is the last claim taken. What the others rest on (`ClaimsOf`): claims are numbered
in the order they are taken and the row's is the last one; any other that is
still at work has lapsed; a post that Teams took within its lease is unanswered,
about to be written down, or on a row that is decided. The steps
are first reduced to what they do to the row (`StepCore`), so that each
invariant is shown once per kind of change and not once per action.

`AdministratorAccess_proofs`: `AccessTypeCorrect`, `LastAdministratorIsKept`,
`SecondPersonNeeded`, `RefusalsHaveNoEffect`, `DecisionsAreFinal`, from
`AccessInv`. Counting administrators is not enough: what makes the count safe is
that at most one revocation is `applying` (`OneRevocation`, from the WHERE clause
of `claimChange`), that two workers never share a claim (`ClaimsDiffer`), and
that whoever is about to apply a checked revocation would still leave enough
behind (`SafeWorker`), which a grant or a lapsed worker cannot undo.

`AssessmentPeriod_proofs`: `AssessmentTypeCorrect`, `SharesStillMatch`
(`SharedStillMatches`), `ProofsShowFinalized` (`ProofShowsFinalized`),
`ReviewsAreOfInputs` (`ReviewIsOfTheInput`), `IssuedWasFinalizedAlways`
(`IssuedWasFinalized`) and `FinalizedAsReviewedAlways` (`FinalizedAsReviewed`), from
`AssessmentInv`: the types and, for each period by
itself, `RowOK`. What a run does not state and the proofs need is about work under
way. A render holds what it read until it writes, so a proof rendered for a
finalized period has to show what *was* bound (`ProofIsOfFinalized`,
`IssueIsOfFinalized`); that is kept because finalizing comes after a Validation
Window, by whose end nothing is being rendered (`NothingIsRendered`), and because
every way back out of `finalized`, but for one, voids the live proof, which issuing
asks for. The one is why `IssuedWasFinalized` is limited to the first month: a later
month can leave `finalized` by the reopening of an earlier one, and what was begun
before that may be written after it.

`FinalizedAsReviewed` is what remains of `FinalizedWasReviewed`: what is finalized
is what was recommended last, and it was recommended for the inputs the item has
unless the review had been withdrawn. `ReviewInv` is kept beside `AssessmentInv`: a
review that stands made the recommendation, of the inputs of the item, and what is
bound is what is recommended.

`Detours_proofs` has the three sides of a Detour. Workflow: `DetourTypeCorrect`,
`OverlapsAreOverridden`, `CorrectionsStand`, `UnreviewedStaysOutstanding`,
`ClosedDetoursStay`, from `DetourInv`. For overlaps the pair has to be looked at before it is confirmed:
of two Detours in one place that are confirmed *or about to be*, one has an
override that covers the other, now and after any override in flight
(`Guarded`). This is why two unlocked reads cannot both miss: a Detour about to be
confirmed is open, and is seen by whoever decides later.

Intake: `IntakeTypeCorrect`, `DecisionsStand` (`DecisionStandsUnlessRaced`),
`DetoursSayWhatIntakesSay` (`DetourSaysWhatIntakeSays`), from `IntakeInv`. No
request locks the intake, so the invariant says what each knows of it while it is
between two statements: a promotion has read what the intake says, or the intake is
recorded as overtaken (`ReadOK`); what is copied has no Detour yet (`TaskOK`), and only
one promotion gets as far as copying (`OneCopy`); once an intake is decided nobody is
left who would write without comparing the status, or it is recorded as hasty
(`DecidedOK`); and the Detour says what the intake says, and the dates that were given,
unless the intake is either (`DetourOK`).

Communication: `CommunicationTypeCorrect`, `CountedWereTold` (`CountedWasTold`),
`DeliveredWereReported` (`DeliveredWasReported`), from `CommunicationInv`. It speaks
of each program on the row: a message that is locked is in the hands of its last run
(`QueuesOK`); a run has mailed to all the recipients before the one it is at
(`RunsOK`); receipts are replaced by one run at a time, so that between
two replacements every recipient has one or nobody has, unless they were torn
(`ReplacedOK`); a receipt that is reported on is of a mail that was taken
(`ReceiptsOK`); and what a report or a request is about to write was true when it
was read and stays true (`HooksOK`, `RequestsOK`), because mails and reports are
never taken back. `DeliveredWasReported` needs all of it: an aggregate over receipts
that are half replaced would say "delivered" of recipients it does not see.
`RecordedCountsUnlessTried` (`RecordedIsCountedUnlessTried`) is what remains of
`RecordedIsCounted`: only an attempt to mail it stands against what a person
recorded. It rests on `MarksOK`: what was recorded is no draft, because sending it
again takes the record back, and a row is marked failed only by a report on a mail.

`RidershipScans_proofs`: `ScanTypeCorrect` and `ScansAreExclusive`
(`OneScanPerSheet`), for any number of workers, people and pages. Besides the
types the invariant has two parts: two transactions are never about one sheet
(`Exclusive`, from the lock), and while a transaction that will make its page the
sheet's runs, every page that is matched on the sheet is among those it has read
(`Covered`): others can only leave the sheet meanwhile.

`CopiesYieldToAnother` (`SetAsideForAnother`) has a hypothesis: `OneHost`. It is the
deployment that the worker's own comment names ("a single B1 worker",
`ridershipScanWorker.ts:5`), and the theorem is false without it: see the two
workers in section 3. It is about any number of files, pages, sheets, print runs
and people. What it rests on:

1. *the worker's page is pending until it has settled it* (`HostsOK`): one process
   takes a message at a time, and people only take pages that are not pending
   (`DesksOK`). So the UPDATE `WHERE state = 'pending'` of its transaction always
   finds its row, and a page that supersedes another does take its place. This is
   the part that a second process breaks;
2. *what a transaction found is still so when it commits* (`FoundOK`): the lock
   keeps new pages off the sheet, so a scan for which the page is set aside is still
   there, unless a person named it otherwise, which is recorded (`vacated`); and
   each page it supersedes is of an older, known run;
3. *a person knows no run but the first* (`NamesOK`): a person can name a page again
   on the sheet it has, with no run or the first one. Such a page was named by a person
   before, so nothing was ever superseded for it: a page that was has a known run,
   and a later one stands for it.

Assumptions are those of the modules, by name: bounds are numbers, "none" is no
identifier and no place of `Targets`, a report is facts and two dates
(`ReportsAreReports`), people and roles are finite.

Model-checked only: `EveryKeyResolves` (see above), and `EventIsSettled`, `QueuedIsAnswered`, `PageIsSettled` and
`UploadIsSettled`, which need fairness and are beyond the prover (the last is
refuted). The four runs that expect a violation are counterexamples, and nothing is
to be proved of their properties.

## 5. What is not modelled, and the plan

What would come next, most important first:

1. a scan of a sheet with two workers under the property that does hold of them,
   should the app ever be scaled out;
2. `MissedTripCase`, which feeds the occurrences of an Assessment Period;
3. `MessageLifecycle`: publish, retract and expire against `AlertDispatch`;
4. Spare webhooks against reconciliation, the counts of a ridership sheet, OTP
   months.

Parsing, formatting, SQL arithmetic, plain table maintenance, the frontends and
the templates stay out: they have no control to check.

## 6. Running it

    tlc -workers 2 -config MCSubscriptionsTokens.cfg MCSubscriptions.tla
    tlapm Subscriptions_proofs.tla

Each passing run takes from one to three minutes on two cores; the
proofs take some minutes from nothing.
