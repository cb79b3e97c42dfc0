---------------------------- MODULE DetourIntake ----------------------------
(* The queue of reported detours: created, sent back, corrected, decided, and *)
(* promoted into a Detour (functions/detourIntake.ts).                        *)
(*                                                                            *)
(* No handler locks an intake. Creating inserts the row and then its segments *)
(* on the pool, with no transaction; a review reads the status and writes     *)
(* only if it is still that; an update reads the status and writes whatever   *)
(* it has become; a promotion reads the row, inserts the Detour and copies    *)
(* the segments, and then writes the status whatever it has become. Each is   *)
(* split where another request can come in between.                           *)
(*                                                                            *)
(* What was reported are two dates and the facts: all else that a Detour      *)
(* takes over from the row (report) and from the segments (routes), one value *)
(* for both. The Detour is made of what its intake says, but for the dates    *)
(* that the promotion gives itself. It has the identifier of its intake. Not  *)
(* modelled: the fulfilment mode, which only a promotion decides, and what no *)
(* Detour takes over (the proposed mode, the source of the report, who        *)
(* decided, the notes); the attachments that move to the Detour.              *)
CONSTANTS
  Intakes,
  Facts,     \* what can be reported besides the dates
  Dates,
  Reports,   \* what is reported of a detour
  Requests,  \* the requests in flight
  Nothing

VARIABLES
  standing,  \* the status, "none" before the row is inserted
  report,    \* what the row says
  routes,    \* what the segments say, Nothing while there are none
  detour,    \* what the Detour of the intake was made of
  task,      \* the requests that have read something
  decided,   \* history: the first terminal status
  gave,      \* history: the dates that the promotion of the Detour gave
  hasty,     \* history: intakes decided while another request was about to write
  overtaken  \* history: intakes written while a promotion had read them

intake     == <<standing, report, routes>>
intakeVars == <<intake, detour, task, decided, gave, hasty, overtaken>>

OpenStatuses == {"pending_review", "needs_information"}
Outcomes     == {"needs_information", "rejected", "duplicate", "withdrawn"}
Terminal     == {"accepted", "rejected", "duplicate", "withdrawn"}

DateColumns == {"start_date", "end_date"}
Dated       == [DateColumns -> Dates \cup {Nothing}]
Undated     == [c \in DateColumns |-> Nothing]

ASSUME ReportsAreReports == Reports \subseteq [facts : Facts, dates : Dated]
ASSUME NothingIsReported ==
  Nothing \notin Reports /\ Nothing \notin Intakes \cup Facts \cup Terminal

NoTask   == [act |-> "idle", on |-> Nothing, read |-> Nothing, given |-> Undated,
             routes |-> Nothing]
NoDetour == [facts |-> Nothing, dates |-> Undated, routes |-> Nothing]

IntakeInit ==
  /\ standing = [i \in Intakes |-> "none"]
  /\ report = [i \in Intakes |-> Nothing]
  /\ routes = [i \in Intakes |-> Nothing]
  /\ detour = [i \in Intakes |-> NoDetour]
  /\ task = [w \in Requests |-> NoTask]
  /\ decided = [i \in Intakes |-> Nothing]
  /\ gave = [i \in Intakes |-> Undated]
  /\ hasty = {} /\ overtaken = {}

-----------------------------------------------------------------------------
(* What the handlers share.                                                   *)

BeginTask(w, act, i, read, given) ==
  /\ task[w].act = "idle"
  /\ task' = [task EXCEPT ![w] = [act |-> act, on |-> i, read |-> read, given |-> given,
                                 routes |-> Nothing]]

EndTask(w) == task' = [task EXCEPT ![w] = NoTask]

\* A request other than w that will write on i without comparing the status.
WritesBlindly(w, i, to) ==
  \E v \in Requests \ {w} :
    /\ task[v].on = i
    /\ \/ task[v].act \in {"creating", "updating"}
       \/ task[v].act \in {"promoting", "copied"} /\ to # "accepted"

\* What a promotion has read of i is no longer what i says.
Overtake(i) ==
  overtaken' = IF \E v \in Requests : task[v].on = i /\ task[v].act \in {"promoting", "copied"}
                 THEN overtaken \cup {i}
                 ELSE overtaken

\* i goes to a status; the first terminal one is remembered.
DecideTo(w, i, to) ==
  /\ standing' = [standing EXCEPT ![i] = to]
  /\ IF to \in Terminal
       THEN /\ decided' = [decided EXCEPT ![i] = IF @ = Nothing THEN to ELSE @]
            /\ hasty' = IF WritesBlindly(w, i, to) THEN hasty \cup {i} ELSE hasty
       ELSE UNCHANGED <<decided, hasty>>

-----------------------------------------------------------------------------
(* Creating: the row, and then the segments.                                  *)

InsertRow(w, i, r) ==
  /\ standing[i] = "none"
  /\ BeginTask(w, "creating", i, r, Undated)
  /\ standing' = [standing EXCEPT ![i] = "pending_review"]
  /\ report' = [report EXCEPT ![i] = r]
  /\ UNCHANGED <<routes, detour, decided, gave, hasty, overtaken>>

InsertSegments(w) ==
  /\ task[w].act = "creating"
  /\ routes' = [routes EXCEPT ![task[w].on] = task[w].read.facts]
  /\ Overtake(task[w].on)
  /\ EndTask(w)
  /\ UNCHANGED <<standing, report, detour, decided, gave, hasty>>

-----------------------------------------------------------------------------
(* Reviewing: intakeReviewRefusal on what was read, and a guarded write.      *)

Reviewable(s, to) == s \in OpenStatuses /\ ~(s = "needs_information" /\ to = "needs_information")

ReadForReview(w, i) ==
  /\ standing[i] \in OpenStatuses
  /\ BeginTask(w, "reviewing", i, standing[i], Undated)
  /\ UNCHANGED <<intake, detour, decided, gave, hasty, overtaken>>

\* Mutant of Review: the status is not compared.
ReviewWhatever(w, to) ==
  LET i == task[w].on IN
  /\ task[w].act = "reviewing" /\ Reviewable(task[w].read, to)
  /\ DecideTo(w, i, to)
  /\ EndTask(w)
  /\ UNCHANGED <<report, routes, detour, gave, overtaken>>

\* WHERE id = @id AND status = @current_status.
Review(w, to) ==
  LET i == task[w].on IN
  /\ task[w].act = "reviewing" /\ Reviewable(task[w].read, to)
  /\ standing[i] = task[w].read
  /\ DecideTo(w, i, to)
  /\ EndTask(w)
  /\ UNCHANGED <<report, routes, detour, gave, overtaken>>

-----------------------------------------------------------------------------
(* Updating: an open intake goes back to the queue with what is now reported. *)

\* Mutant of Updatable: an accepted intake can be corrected as well.
UpdatableOnceAccepted(s) == s \in OpenStatuses \cup {"accepted"}

\* intakeStatusAfterUpdate.
Updatable(s) == s \in OpenStatuses

ReadForUpdate(w, i, r) ==
  /\ Updatable(standing[i])
  /\ BeginTask(w, "updating", i, r, Undated)
  /\ UNCHANGED <<intake, detour, decided, gave, hasty, overtaken>>

\* WHERE id = @id: nothing is compared.
Update(w) ==
  LET i == task[w].on IN
  /\ task[w].act = "updating"
  /\ standing' = [standing EXCEPT ![i] = "pending_review"]
  /\ report' = [report EXCEPT ![i] = task[w].read]
  /\ routes' = [routes EXCEPT ![i] = task[w].read.facts]
  /\ Overtake(i)
  /\ EndTask(w)
  /\ UNCHANGED <<detour, decided, gave, hasty>>

-----------------------------------------------------------------------------
(* Promoting: the row, the Detour with the segments, the status.              *)

\* given: the dates in the request, which go before what was proposed.
ReadForPromotion(w, i, given) ==
  /\ standing[i] = "pending_review"
  /\ BeginTask(w, "promoting", i, report[i], given)
  /\ UNCHANGED <<intake, detour, decided, gave, hasty, overtaken>>

\* The Detour is inserted under the intake's identifier, which it must be the
\* first to use: another insertion under way is waited for.
Copy(w) ==
  LET i == task[w].on IN
  /\ task[w].act = "promoting"
  /\ detour[i] = NoDetour
  /\ \A v \in Requests : task[v].act = "copied" => task[v].on # i
  /\ task' = [task EXCEPT ![w].act = "copied", ![w].routes = routes[i]]
  /\ UNCHANGED <<intake, detour, decided, gave, hasty, overtaken>>

\* What the Detour of promotion t is made of.
MadeOf(t) ==
  [facts |-> t.read.facts, routes |-> t.routes,
   dates |-> [c \in DateColumns |-> IF t.given[c] # Nothing THEN t.given[c] ELSE t.read.dates[c]]]

\* WHERE id = @id, and the whole is committed.
Accept(w) ==
  LET i == task[w].on IN
  /\ task[w].act = "copied"
  /\ detour' = [detour EXCEPT ![i] = MadeOf(task[w])]
  /\ gave' = [gave EXCEPT ![i] = task[w].given]
  /\ DecideTo(w, i, "accepted")
  /\ EndTask(w)
  /\ UNCHANGED <<report, routes, overtaken>>

\* A refusal, a failed query, a host that goes away: what is in a transaction
\* is rolled back; a row already inserted on the pool stays.
Abandon(w) ==
  /\ task[w].act # "idle"
  /\ EndTask(w)
  /\ UNCHANGED <<intake, detour, decided, gave, hasty, overtaken>>

-----------------------------------------------------------------------------
IntakeNext ==
  \E w \in Requests :
    \/ \E i \in Intakes :
         \/ ReadForReview(w, i)
         \/ \E given \in Dated : ReadForPromotion(w, i, given)
         \/ \E r \in Reports : InsertRow(w, i, r) \/ ReadForUpdate(w, i, r)
    \/ \E to \in Outcomes : Review(w, to)
    \/ InsertSegments(w)
    \/ Update(w)
    \/ Copy(w)
    \/ Accept(w)
    \/ Abandon(w)

IntakeSpec == IntakeInit /\ [][IntakeNext]_intakeVars

-----------------------------------------------------------------------------
(* Properties.                                                                *)

TaskType ==
  [act : {"idle", "creating", "reviewing", "updating", "promoting", "copied"},
   on : Intakes \cup {Nothing}, read : Reports \cup OpenStatuses \cup {Nothing},
   given : Dated, routes : Facts \cup {Nothing}]

\* Every variable has its type, an accepted intake has its Detour, and an
\* intake is in the table before it is decided, worked on or promoted
\* (detourIntake.ts: the promotion commits the Detour and the status together).
IntakeTypeOK ==
  /\ standing \in [Intakes -> {"none"} \cup OpenStatuses \cup Terminal]
  /\ report \in [Intakes -> Reports \cup {Nothing}]
  /\ routes \in [Intakes -> Facts \cup {Nothing}]
  /\ detour \in [Intakes -> [facts : Facts \cup {Nothing}, dates : Dated,
                           routes : Facts \cup {Nothing}]]
  /\ gave \in [Intakes -> Dated]
  /\ task \in [Requests -> TaskType]
  /\ decided \in [Intakes -> Terminal \cup {Nothing}]
  /\ hasty \subseteq Intakes /\ overtaken \subseteq Intakes
  /\ \A i \in Intakes :
       /\ standing[i] = "none" <=> report[i] = Nothing
       /\ standing[i] = "none" => detour[i] = NoDetour /\ decided[i] = Nothing
       /\ standing[i] = "accepted" => detour[i] # NoDetour

\* The first decision on an intake stands, unless some update, promotion or
\* creation had read the intake before and had not yet written: two reviewers,
\* and requests that come later, never undo it (detourIntakeTransitions.ts;
\* the guarded UPDATE of detourIntakeReview).
DecisionStandsUnlessRaced ==
  \A i \in Intakes : decided[i] # Nothing /\ i \notin hasty => standing[i] = decided[i]

\* A Detour that was promoted says what its intake says, of each date only where
\* the promotion gave none: later corrections are refused, and earlier ones were
\* read, unless one was written between the reads of the promotion or was under
\* way at the decision (detourIntakePromote, intakeStatusAfterUpdate).
DetourSaysWhatIntakeSays ==
  \A i \in Intakes :
    decided[i] = "accepted" /\ i \notin hasty \cup overtaken =>
      /\ detour[i].facts = report[i].facts /\ detour[i].routes = routes[i]
      /\ \A c \in DateColumns :
           detour[i].dates[c] = IF gave[i][c] = Nothing THEN report[i].dates[c] ELSE gave[i][c]
=============================================================================
