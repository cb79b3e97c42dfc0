-------------------------- MODULE AssessmentPeriod --------------------------
(* An Assessment Period: a contractor's month is computed from its inputs,    *)
(* reviewed, drafted, shared with the contractor for five business days,      *)
(* finalized by another person, proofed and issued. Inputs keep arriving and  *)
(* send it back (functions/assessmentPeriods.ts, lib/assessment,              *)
(* lib/occurrenceIntake).                                                     *)
(*                                                                            *)
(* A compute is one transaction that holds the row, and the decision of a     *)
(* claim one that holds the claim. A batch of statements that a handler sends *)
(* as one request is one step. The rest is split: an artifact is rendered     *)
(* from rows read on another connection and written after an upload, under    *)
(* the period's report lock; occurrence intake reads the status without a     *)
(* lock, and writes later. No request lasts as long as a Validation Window.   *)
(*                                                                            *)
(* One scored standard stands for all of them, and a figure for what the      *)
(* month's rule set makes of the confirmed occurrences and hand-entered       *)
(* numbers. Not modelled: a standard that cannot be measured and the          *)
(* exception it needs, rules that change while a period is a draft, corrective *)
(* action plans, disputes and credits.                                        *)
EXTENDS Naturals, FiniteSets

CONSTANTS
  Months,      \* service months, in order
  Revisions,   \* bound on assessment_revision
  Managers,    \* who can review, finalize and issue
  Below,       \* months in a row below standard that escalate (3)
  MaxChanges,  \* bound on what arrives and on reopenings
  Null

ASSUME PeriodAssumption ==
  /\ Months \subseteq Nat /\ IsFiniteSet(Months)
  /\ Revisions \in Nat \ {0} /\ Below \in Nat /\ MaxChanges \in Nat
  /\ Null \notin Managers
  /\ Null \notin [figure : {"meets", "below"}, escalated : BOOLEAN]
  /\ Null \notin [on : [figure : {"meets", "below"}, escalated : BOOLEAN], adjusted : BOOLEAN]

Periods == Months \X (1 .. Revisions)

VARIABLES
  stage,     \* AssessmentPeriods.status ("none": no row)
  fresh,     \* computed_revision = input_revision
  ended,     \* validation_ends_on has come
  entry,     \* the Assessment Item of a period
  shared,    \* items_sha256 of its shares that are not superseded
  draft,     \* its latest Validation Draft, against computed_at and reviewed_at
  proof,     \* what its live Issuance Proof shows
  final,     \* what its issued Final Assessment shows
  render,    \* the operation that holds its report lock
  figure,    \* what the month's inputs come to
  candidate, \* an occurrence of the month awaits review
  intake,    \* an intake write that read the status of the month
  impact,    \* AssessmentCorrectionImpacts.affected_period_id
  changes    \* how much has arrived

periodVars == <<stage, fresh, ended>>
reportVars == <<draft, proof, final, render>>
monthVars  == <<figure, candidate, intake>>
assessmentVars == <<periodVars, entry, shared, reportVars, monthVars, impact, changes>>

Stages  == {"none", "open", "in_review", "in_validation", "stale", "finalized", "issued", "reopened"}
Figures == {"meets", "below"}

\* input_sha256: the figure and the escalation it was charged with. An amount is
\* the one proposed for an input, or the reviewer's own.
Inputs  == [figure : Figures, escalated : BOOLEAN]
Amounts == [on : Inputs, adjusted : BOOLEAN]

NoEntry == [input |-> Null, rec |-> Null, seen |-> Null, by |-> Null, bound |-> Null]
Entries ==
  [input : Inputs \cup {Null},   \* input_sha256
   rec   : Amounts \cup {Null},  \* recommended_amount
   seen  : Inputs \cup {Null},   \* reviewed_input_sha256
   by    : Managers \cup {Null}, \* reviewed_by
   bound : Amounts \cup {Null}]  \* binding_amount

NoRender == [task |-> "none", shows |-> Null]
Renders  == [task : {"none", "draft", "proof", "issue"}, shows : Amounts \cup {Null}]

AssessmentInit ==
  /\ stage = [p \in Periods |-> "none"]
  /\ fresh = [p \in Periods |-> FALSE] /\ ended = [p \in Periods |-> FALSE]
  /\ entry = [p \in Periods |-> NoEntry]
  /\ shared = [p \in Periods |-> {}]
  /\ draft = [p \in Periods |-> "none"]
  /\ proof = [p \in Periods |-> Null] /\ final = [p \in Periods |-> Null]
  /\ render = [p \in Periods |-> NoRender]
  /\ figure \in [Months -> Figures]
  /\ candidate = [m \in Months |-> FALSE]
  /\ intake = [m \in Months |-> FALSE]
  /\ impact = {}
  /\ changes = 0

RowsOf(m) == {p \in Periods : p[1] = m /\ stage[p] # "none"}
Closed    == {"finalized", "issued"}

\* Something happens that a bound limits.
Happens == changes < MaxChanges /\ changes' = changes + 1

-----------------------------------------------------------------------------
(* Opening, and the two people's acts on the row.                             *)

OpenPeriod(m) ==
  /\ RowsOf(m) = {}
  /\ stage' = [stage EXCEPT ![<<m, 1>>] = "open"]
  /\ UNCHANGED <<fresh, ended, entry, shared, reportVars, monthVars, impact, changes>>

\* The outcome of an earlier month, if one was issued: its latest revision's.
Outcome(m) ==
  LET issued == {p \in RowsOf(m) : stage[p] = "issued"}
  IN {entry[p].input.figure : p \in {p \in issued : \A q \in issued : q[2] <= p[2]}}

\* Months below standard since the last one that met it; others do not count.
Streak(m) ==
  Cardinality({n \in Months : /\ n < m /\ "below" \in Outcome(n)
                              /\ \A k \in Months : n < k /\ k < m => "meets" \notin Outcome(k)})

InputOf(m) ==
  [figure    |-> figure[m],
   escalated |-> figure[m] = "below" /\ Streak(m) + 1 >= Below]

\* Mutant of Recomputed: the review is carried over to the new hash.
RecomputedReviewed(e, input) ==
  [e EXCEPT !.input = input, !.seen = IF @ = Null THEN Null ELSE input]

\* A new hash withdraws the review. The recommendation stays.
Recomputed(e, input) ==
  IF e.input = input
    THEN e
    ELSE [input |-> input, rec |-> e.rec, seen |-> Null, by |-> Null, bound |-> e.bound]

Compute(p) ==
  /\ stage[p] \notin {"none", "finalized"}
  /\ stage' = [stage EXCEPT ![p] = "in_review"]
  /\ fresh' = [fresh EXCEPT ![p] = TRUE]
  /\ entry' = [entry EXCEPT ![p] = Recomputed(@, InputOf(p[1]))]
  /\ shared' = [shared EXCEPT ![p] = {}]
  /\ draft' = [draft EXCEPT ![p] = IF @ = "none" THEN @ ELSE "old"]
  /\ UNCHANGED <<ended, proof, final, render, monthVars, impact, changes>>

Reviewed(e, w, adjusted) ==
  [input |-> e.input, rec |-> [on |-> e.input, adjusted |-> adjusted], seen |-> e.input,
   by |-> w, bound |-> e.bound]

Review(p, w, adjusted) ==
  /\ stage[p] = "in_review" /\ fresh[p]
  /\ entry' = [entry EXCEPT ![p] = Reviewed(@, w, adjusted)]
  /\ draft' = [draft EXCEPT ![p] = IF @ = "none" THEN @ ELSE "old"]
  /\ UNCHANGED <<periodVars, shared, proof, final, render, monthVars, impact, changes>>

\* recommended_action IS NULL OR reviewed_input_sha256 <> input_sha256, negated:
\* a comparison with NULL is not true.
Recommended(e) == e.rec # Null /\ ~(e.seen # Null /\ e.seen # e.input)

Share(p) ==
  /\ draft[p] = "fresh" /\ Recommended(entry[p])
  /\ shared' = [shared EXCEPT ![p] = @ \cup {entry[p].seen}]
  /\ IF stage[p] = "in_review"
       THEN /\ stage' = [stage EXCEPT ![p] = "in_validation"]
            /\ ended' = [ended EXCEPT ![p] = FALSE]
       ELSE UNCHANGED <<stage, ended>>
  /\ UNCHANGED <<fresh, entry, reportVars, monthVars, impact, changes>>

\* Five business days: nothing that was under way still is.
WindowEnds(p) ==
  /\ stage[p] = "in_validation" /\ ~ended[p]
  /\ \A q \in Periods : render[q].task = "none"
  /\ \A m \in Months : ~intake[m]
  /\ ended' = [ended EXCEPT ![p] = TRUE]
  /\ UNCHANGED <<stage, fresh, entry, shared, reportVars, monthVars, impact, changes>>

CanFinalize(p, w) ==
  /\ stage[p] = "in_validation" /\ ended[p] /\ fresh[p]
  /\ entry[p].seen \in shared[p]
  /\ Recommended(entry[p]) /\ entry[p].by # w
  /\ ~candidate[p[1]]

\* Mutant of Finalize: a proof that was left over stays live.
FinalizeKeepingProof(p, w) ==
  /\ CanFinalize(p, w)
  /\ stage' = [stage EXCEPT ![p] = "finalized"]
  /\ entry' = [entry EXCEPT ![p].bound = entry[p].rec]
  /\ UNCHANGED <<fresh, ended, shared, reportVars, monthVars, impact, changes>>

Finalize(p, w) ==
  /\ CanFinalize(p, w)
  /\ stage' = [stage EXCEPT ![p] = "finalized"]
  /\ entry' = [entry EXCEPT ![p].bound = entry[p].rec]
  /\ proof' = [proof EXCEPT ![p] = Null]
  /\ UNCHANGED <<fresh, ended, shared, draft, final, render, monthVars, impact, changes>>

-----------------------------------------------------------------------------
(* Something new: the rules shared by every handler that records it.          *)

\* materialChangeSql for each of a set of rows; a row that is issued keeps its
\* status, and loses its shares.
MaterialChange(P) ==
  LET moved == {p \in P : stage[p] # "issued"} IN
  /\ shared' = [p \in Periods |-> IF p \in P THEN {} ELSE shared[p]]
  /\ stage' = [p \in Periods |->
       IF p \in moved /\ stage[p] \in {"in_review", "in_validation", "finalized"}
         THEN "stale" ELSE stage[p]]
  /\ fresh' = [p \in Periods |-> fresh[p] /\ p \notin moved]
  /\ ended' = [p \in Periods |-> ended[p] /\ p \notin moved]
  /\ proof' = [p \in Periods |-> IF p \in P THEN Null ELSE proof[p]]

\* Mutant of InputChanged: a shared month is bumped like one that is a draft.
InputChangedQuietly(m) ==
  LET bumped == {p \in RowsOf(m) : stage[p] \in {"open", "in_review", "stale", "reopened", "in_validation"}} IN
  /\ stage' = [p \in Periods |-> IF p \in bumped /\ stage[p] = "in_review" THEN "stale" ELSE stage[p]]
  /\ fresh' = [p \in Periods |-> fresh[p] /\ p \notin bumped]
  /\ UNCHANGED <<ended, shared, proof>>

\* assessableInputChangedSql: the shared row of the month if there is one, which
\* may only be one, or the rows that are drafts. A closed month is not touched.
InputChanged(m) ==
  LET validated == {p \in RowsOf(m) : stage[p] = "in_validation"}
      bumped    == {p \in RowsOf(m) : stage[p] \in {"open", "in_review", "stale", "reopened"}} IN
  /\ Cardinality(validated) <= 1
  /\ IF validated # {}
       THEN MaterialChange(validated)
       ELSE /\ stage' = [p \in Periods |->
                           IF p \in bumped /\ stage[p] = "in_review" THEN "stale" ELSE stage[p]]
            /\ fresh' = [p \in Periods |-> fresh[p] /\ p \notin bumped]
            /\ UNCHANGED <<ended, shared, proof>>

\* Evidence for an item: the figure is the same.
AddEvidence(p) ==
  /\ entry[p].input # Null
  /\ Happens
  /\ MaterialChange({p})
  /\ UNCHANGED <<entry, draft, final, render, monthVars, impact>>

\* A decided excusable-delay claim can take an occurrence out of the figure.
DecideClaim(m, f) ==
  /\ Happens
  /\ figure' = [figure EXCEPT ![m] = f]
  /\ MaterialChange({p \in RowsOf(m) : stage[p] # "issued"})
  /\ UNCHANGED <<entry, draft, final, render, candidate, intake, impact>>

\* A hand-entered number. The status is read under a lock; of several rows, any.
EnterMetric(m, f) ==
  /\ RowsOf(m) = {} \/ \E p \in RowsOf(m) : stage[p] \notin Closed
  /\ Happens
  /\ figure' = [figure EXCEPT ![m] = f]
  /\ InputChanged(m)
  /\ UNCHANGED <<entry, draft, final, render, candidate, intake, impact>>

\* A new occurrence takes the status of the month's only row; a change to one that
\* exists takes the status of any of them.
ReadForIntake(m) ==
  /\ ~intake[m] /\ changes < MaxChanges
  /\ RowsOf(m) = {} \/ \E p \in RowsOf(m) : stage[p] \notin Closed
  /\ intake' = [intake EXCEPT ![m] = TRUE]
  /\ UNCHANGED <<periodVars, entry, shared, reportVars, figure, candidate, impact, changes>>

\* The request is refused for a reason of its own, or fails.
DropIntake(m) ==
  /\ intake[m]
  /\ intake' = [intake EXCEPT ![m] = FALSE]
  /\ UNCHANGED <<periodVars, entry, shared, reportVars, figure, candidate, impact, changes>>

\* It is raised as a candidate, or confirmed, or dismissed.
WriteIntake(m, f, c) ==
  /\ intake[m] /\ <<f, c>> # <<figure[m], candidate[m]>>
  /\ Happens
  /\ intake' = [intake EXCEPT ![m] = FALSE]
  /\ figure' = [figure EXCEPT ![m] = f]
  /\ candidate' = [candidate EXCEPT ![m] = c]
  /\ InputChanged(m)
  /\ UNCHANGED <<entry, draft, final, render, impact>>

\* A finalized row is reopened; an issued one gets a correction, a row of the next
\* revision, unless there is one: the insert fails then, and the statements after
\* it still run. Later months that are not issued become stale, with their shares
\* and their proofs; of the others it is recorded that they are affected.
Reopen(p) ==
  LET next  == <<p[1], p[2] + 1>>
      on    == IF stage[p] = "finalized" THEN p ELSE next
      later == {q \in Periods : q[1] > p[1]}
      moved == {q \in later : stage[q] \in {"open", "in_review", "in_validation", "finalized"}}
  IN
  /\ stage[p] \in Closed
  /\ stage[p] = "issued" => p[2] < Revisions
  /\ Happens
  /\ LET starts == on = p \/ stage[on] = "none" IN
       /\ stage' = [q \in Periods |->
                      IF q \in moved THEN "stale"
                      ELSE IF q = on /\ starts THEN "reopened" ELSE stage[q]]
       /\ impact' = IF starts THEN impact \cup {q \in later : stage[q] = "issued"} ELSE impact
  /\ fresh' = [q \in Periods |-> fresh[q] /\ q \notin moved /\ (q = p => on # p)]
  /\ proof' = IF on = p THEN [proof EXCEPT ![p] = Null] ELSE proof
  /\ UNCHANGED <<ended, entry, shared, draft, final, render, monthVars>>

-----------------------------------------------------------------------------
(* Artifacts, under the period's report lock (withPeriodReportLock).          *)

BeginRender(p, task, shows) ==
  /\ render[p].task = "none"
  /\ render' = [render EXCEPT ![p] = [task |-> task, shows |-> shows]]
  /\ UNCHANGED <<periodVars, entry, shared, draft, proof, final, monthVars, impact, changes>>

BeginDraft(p) == stage[p] = "in_review" /\ BeginRender(p, "draft", Null)
BeginProof(p) == stage[p] = "finalized" /\ BeginRender(p, "proof", entry[p].bound)

\* The live proof is looked up, and the Final Assessment rendered anew from the items.
BeginIssue(p, w) ==
  /\ stage[p] = "finalized" /\ proof[p] # Null /\ entry[p].by # w
  /\ BeginRender(p, "issue", entry[p].bound)

EndRender(p) == render' = [render EXCEPT ![p] = NoRender]

\* generated_at is when the row is inserted.
FinishDraft(p) ==
  /\ render[p].task = "draft"
  /\ draft' = [draft EXCEPT ![p] = "fresh"]
  /\ EndRender(p)
  /\ UNCHANGED <<periodVars, entry, shared, proof, final, monthVars, impact, changes>>

\* The proof before is voided by the same transaction.
FinishProof(p) ==
  /\ render[p].task = "proof"
  /\ proof' = [proof EXCEPT ![p] = render[p].shows]
  /\ EndRender(p)
  /\ UNCHANGED <<periodVars, entry, shared, draft, final, monthVars, impact, changes>>

\* Mutant of FinishIssue: a voided proof is issued.
FinishIssueVoided(p) ==
  /\ render[p].task = "issue"
  /\ proof' = [proof EXCEPT ![p] = Null]
  /\ final' = [final EXCEPT ![p] = render[p].shows]
  /\ stage' = [stage EXCEPT ![p] = "issued"]
  /\ EndRender(p)
  /\ UNCHANGED <<fresh, ended, entry, shared, draft, monthVars, impact, changes>>

\* The write asks for a proof that is still live, and the row becomes issued
\* whatever its status is. A voided proof is answered 409 (Abandon).
FinishIssue(p) ==
  /\ render[p].task = "issue" /\ proof[p] # Null
  /\ proof' = [proof EXCEPT ![p] = Null]
  /\ final' = [final EXCEPT ![p] = render[p].shows]
  /\ stage' = [stage EXCEPT ![p] = "issued"]
  /\ EndRender(p)
  /\ UNCHANGED <<fresh, ended, entry, shared, draft, monthVars, impact, changes>>

\* The upload fails, or the write is refused: the transaction is rolled back.
Abandon(p) ==
  /\ render[p].task # "none"
  /\ EndRender(p)
  /\ UNCHANGED <<periodVars, entry, shared, draft, proof, final, monthVars, impact, changes>>

-----------------------------------------------------------------------------

PeriodStep(p) ==
  \/ Compute(p) \/ Share(p) \/ WindowEnds(p) \/ AddEvidence(p) \/ Reopen(p)
  \/ \E w \in Managers, adjusted \in BOOLEAN : Review(p, w, adjusted)
  \/ \E w \in Managers : Finalize(p, w)

RenderStep(p) ==
  \/ BeginDraft(p) \/ FinishDraft(p) \/ BeginProof(p) \/ FinishProof(p)
  \/ FinishIssue(p) \/ Abandon(p)
  \/ \E w \in Managers : BeginIssue(p, w)

MonthStep(m) ==
  \/ OpenPeriod(m) \/ ReadForIntake(m) \/ DropIntake(m)
  \/ \E f \in Figures : DecideClaim(m, f) \/ EnterMetric(m, f)
  \/ \E f \in Figures, c \in BOOLEAN : WriteIntake(m, f, c)

AssessmentNext ==
  \/ \E p \in Periods : PeriodStep(p) \/ RenderStep(p)
  \/ \E m \in Months : MonthStep(m)

AssessmentSpec == AssessmentInit /\ [][AssessmentNext]_assessmentVars

-----------------------------------------------------------------------------
(* Correctness.                                                               *)

\* Every variable stays in its range.
AssessmentTypeOK ==
  /\ stage \in [Periods -> Stages]
  /\ fresh \in [Periods -> BOOLEAN] /\ ended \in [Periods -> BOOLEAN]
  /\ entry \in [Periods -> Entries]
  /\ shared \in [Periods -> SUBSET (Inputs \cup {Null})]
  /\ draft \in [Periods -> {"none", "fresh", "old"}]
  /\ proof \in [Periods -> Amounts \cup {Null}] /\ final \in [Periods -> Amounts \cup {Null}]
  /\ render \in [Periods -> Renders]
  /\ figure \in [Months -> Figures]
  /\ candidate \in [Months -> BOOLEAN] /\ intake \in [Months -> BOOLEAN]
  /\ impact \subseteq Periods
  /\ changes \in 0 .. MaxChanges

\* What is with the contractor is what would be finalized: the period is current and
\* a live share carries the hash of its item, although inputs, evidence, claims and
\* earlier months reach it without asking (materialChange.ts).
SharedStillMatches ==
  \A p \in Periods : stage[p] = "in_validation" =>
    fresh[p] /\ entry[p].rec # Null /\ entry[p].seen \in shared[p]

\* A proof that lies ready beside a finalized period shows what was finalized: not
\* an earlier state, although a render outlives what it was read from
\* (finalizePeriod.ts:34-38).
ProofShowsFinalized ==
  \A p \in Periods : stage[p] = "finalized" /\ proof[p] # Null => proof[p] = entry[p].bound

\* A review is of the inputs the item has (assess.ts:264): so what Share and Finalize
\* compare never differs but where there is no review.
ReviewIsOfTheInput ==
  \A p \in Periods : entry[p].seen \in {Null, entry[p].input}

FirstMonth(p) == \A m \in Months : p[1] <= m

\* What is issued of the first month was finalized and shows what was bound. A later
\* month can be made stale with its proof live, while it is issued, by reopening an
\* earlier one.
IssuedWasFinalized ==
  [][\A p \in Periods : FirstMonth(p) /\ final'[p] # final[p] =>
       stage[p] = "finalized" /\ final'[p] = entry[p].bound]_assessmentVars

\* A test says "a changed input needs a new review" (assessmentLifecycle.db.contract.
\* test.ts:123): what is finalized was recommended for the inputs the item has.
FinalizedWasReviewed ==
  \A p \in Periods : stage[p] = "finalized" => entry[p].bound.on = entry[p].input

\* What holds instead: what is bound is what was recommended last, and where the
\* review still stands it was recommended for the inputs the item has.
FinalizedAsReviewed ==
  \A p \in Periods : stage[p] = "finalized" =>
    /\ entry[p].bound = entry[p].rec
    /\ entry[p].seen # Null => entry[p].bound.on = entry[p].input

=============================================================================
