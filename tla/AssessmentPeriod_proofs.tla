----------------------- MODULE AssessmentPeriod_proofs -----------------------
(* That what the contractor was shown, what was finalized and what is issued  *)
(* agree, for any number of months, revisions and managers.                   *)
(*                                                                            *)
(* Everything that has to be kept is about one period, so the inductive       *)
(* invariant is a conjunction for one row (RowOK), and a step is examined     *)
(* where it writes.  The parts that no run states: a period with reviewed or  *)
(* shared items is current (ReviewedIsCurrent), nothing is rendered once the  *)
(* Validation Window has ended (NothingIsRendered), and a render that may     *)
(* still be written beside a finalized period shows what was bound            *)
(* (ProofIsOfFinalized, IssueIsOfFinalized). What a review recommends         *)
(* (ReviewInv) is kept beside it, and says what finalizing binds.             *)
EXTENDS AssessmentPeriod, TLAPS

\* What is being reviewed was computed and is current.
ReviewedIsCurrent(p) ==
  stage[p] \in {"in_review", "in_validation"} => fresh[p] /\ entry[p].input # Null

\* What is shared was recommended, and a live share has its hash.
SharedIsReviewed(p) ==
  stage[p] = "in_validation" => entry[p].rec # Null /\ entry[p].seen \in shared[p]

\* No render outlives a Validation Window, and none begins before it is finalized.
NothingIsRendered(p) ==
  stage[p] = "in_validation" /\ ended[p] => render[p].task = "none"

\* A proof that is still being rendered for a finalized period shows what was bound.
ProofIsOfFinalized(p) ==
  stage[p] = "finalized" /\ render[p].task = "proof" => render[p].shows = entry[p].bound

\* So does one that was written.
ProofIsBound(p) ==
  stage[p] = "finalized" /\ proof[p] # Null => proof[p] = entry[p].bound

\* A review is of the item's input.
SeenIsInput(p) == entry[p].seen \in {Null, entry[p].input}

\* While the proof stays live, a first month that is being issued stays finalized.
IssueIsOfFinalized(p) ==
  FirstMonth(p) /\ render[p].task = "issue" /\ proof[p] # Null
    => stage[p] = "finalized" /\ render[p].shows = entry[p].bound

RowOK(p) ==
  /\ ReviewedIsCurrent(p) /\ SharedIsReviewed(p) /\ NothingIsRendered(p)
  /\ ProofIsOfFinalized(p) /\ ProofIsBound(p) /\ SeenIsInput(p) /\ IssueIsOfFinalized(p)

AssessmentInv == AssessmentTypeOK /\ \A p \in Periods : RowOK(p)

-----------------------------------------------------------------------------
(* Periods, items and hashes.                                                 *)

LEMMA PeriodParts ==
  ASSUME NEW p \in Periods
  PROVE  /\ p[1] \in Months /\ p[2] \in 1 .. Revisions /\ p[1] \in Nat
         /\ p[2] < Revisions => <<p[1], p[2] + 1>> \in Periods
         /\ <<p[1], p[2] + 1>> # p
<1>1. PICK m \in Months, n \in 1 .. Revisions : p = <<m, n>>
  BY DEF Periods
<1>2. m \in Nat /\ Revisions \in Nat
  BY PeriodAssumption
<1>3. p[2] < Revisions => <<p[1], p[2] + 1>> \in Periods
  BY <1>1, <1>2 DEF Periods
<1> QED
  BY <1>1, <1>2, <1>3

LEMMA FirstRevision ==
  ASSUME NEW m \in Months
  PROVE  <<m, 1>> \in Periods
BY PeriodAssumption DEF Periods

LEMMA InputIsInput ==
  ASSUME NEW m \in Months, AssessmentTypeOK
  PROVE  InputOf(m) \in Inputs
<1>1. figure[m] \in Figures
  BY DEF AssessmentTypeOK
<1>2. (figure[m] = "below" /\ Streak(m) + 1 >= Below) \in BOOLEAN
  OBVIOUS
<1> QED
  BY <1>1, <1>2 DEF InputOf, Inputs

LEMMA RecomputedItem ==
  ASSUME NEW e \in Entries, NEW i \in Inputs
  PROVE  /\ Recomputed(e, i) \in Entries
         /\ e.seen \in {Null, e.input} =>
              Recomputed(e, i).seen \in {Null, Recomputed(e, i).input}
         /\ Recomputed(e, i).bound = e.bound
         /\ Recomputed(e, i).input = i /\ i # Null
BY PeriodAssumption DEF Recomputed, Entries, Inputs, Figures

LEMMA NoEntryIsEntry == NoEntry \in Entries /\ NoEntry.seen = Null
BY DEF NoEntry, Entries

LEMMA NoRenderIsRender == NoRender \in Renders /\ NoRender.task = "none"
BY DEF NoRender, Renders

-----------------------------------------------------------------------------
(* What a row keeps when a step does not write it.                            *)

LEMMA RowUntouched ==
  ASSUME NEW p \in Periods, RowOK(p),
         stage'[p] = stage[p], fresh'[p] = fresh[p], ended'[p] = ended[p],
         entry'[p] = entry[p], shared'[p] = shared[p], proof'[p] = proof[p],
         render'[p] = render[p]
  PROVE  RowOK(p)'
BY DEF RowOK, ReviewedIsCurrent, SharedIsReviewed, NothingIsRendered, ProofIsOfFinalized,
       ProofIsBound, SeenIsInput, FirstMonth, IssueIsOfFinalized

\* What a change to a period's inputs does to its row: it becomes stale and loses its
\* proof, or it is a draft that becomes stale, or it stays out of reach.
LEMMA RowMadeStale ==
  ASSUME NEW p \in Periods, RowOK(p), AssessmentTypeOK,
         stage'[p] \notin {"in_review", "in_validation", "finalized"},
         entry'[p] = entry[p], render'[p] = render[p],
         proof'[p] = Null \/ (proof'[p] = proof[p] /\ ~(FirstMonth(p) /\ stage[p] = "finalized"))
  PROVE  RowOK(p)'
BY DEF RowOK, ReviewedIsCurrent, SharedIsReviewed, NothingIsRendered, ProofIsOfFinalized,
       ProofIsBound, SeenIsInput, FirstMonth, IssueIsOfFinalized

-----------------------------------------------------------------------------
(* The rules shared by every handler that records something new.              *)

LEMMA MaterialChangeKeeps ==
  ASSUME NEW P, P \subseteq Periods, AssessmentInv, MaterialChange(P),
         entry' = entry, render' = render
  PROVE  /\ stage' \in [Periods -> Stages] /\ fresh' \in [Periods -> BOOLEAN]
         /\ ended' \in [Periods -> BOOLEAN]
         /\ shared' \in [Periods -> SUBSET (Inputs \cup {Null})]
         /\ proof' \in [Periods -> Amounts \cup {Null}]
         /\ \A p \in Periods : RowOK(p)'
<1> DEFINE moved == {p \in P : stage[p] # "issued"}
<1>1. /\ stage' = [p \in Periods |->
           IF p \in moved /\ stage[p] \in {"in_review", "in_validation", "finalized"}
             THEN "stale" ELSE stage[p]]
      /\ fresh' = [p \in Periods |-> fresh[p] /\ p \notin moved]
      /\ ended' = [p \in Periods |-> ended[p] /\ p \notin moved]
      /\ shared' = [p \in Periods |-> IF p \in P THEN {} ELSE shared[p]]
      /\ proof' = [p \in Periods |-> IF p \in P THEN Null ELSE proof[p]]
  BY DEF MaterialChange
<1>2. AssessmentTypeOK /\ \A p \in Periods : RowOK(p)
  BY DEF AssessmentInv
<1>3. /\ stage' \in [Periods -> Stages] /\ fresh' \in [Periods -> BOOLEAN]
      /\ ended' \in [Periods -> BOOLEAN]
      /\ shared' \in [Periods -> SUBSET (Inputs \cup {Null})]
      /\ proof' \in [Periods -> Amounts \cup {Null}]
  BY <1>1, <1>2 DEF AssessmentTypeOK, Stages
<1>4. ASSUME NEW p \in Periods PROVE RowOK(p)'
  <2>1. CASE p \notin P
    <3>1. /\ stage'[p] = stage[p] /\ fresh'[p] = fresh[p] /\ ended'[p] = ended[p]
          /\ shared'[p] = shared[p] /\ proof'[p] = proof[p]
      BY <1>1, <1>2, <2>1 DEF AssessmentTypeOK
    <3> QED
      BY <3>1, <1>2, RowUntouched
  <2>2. CASE p \in P
    <3>1. stage'[p] \notin {"in_review", "in_validation", "finalized"} /\ proof'[p] = Null
      BY <1>1, <2>2
    <3> QED
      BY <3>1, <1>2, RowMadeStale
  <2> QED
    BY <2>1, <2>2
<1> QED
  BY <1>3, <1>4

LEMMA InputChangedKeeps ==
  ASSUME NEW m \in Months, AssessmentInv, InputChanged(m), entry' = entry, render' = render
  PROVE  /\ stage' \in [Periods -> Stages] /\ fresh' \in [Periods -> BOOLEAN]
         /\ ended' \in [Periods -> BOOLEAN]
         /\ shared' \in [Periods -> SUBSET (Inputs \cup {Null})]
         /\ proof' \in [Periods -> Amounts \cup {Null}]
         /\ \A p \in Periods : RowOK(p)'
<1> DEFINE validated == {p \in RowsOf(m) : stage[p] = "in_validation"}
           bumped    == {p \in RowsOf(m) : stage[p] \in {"open", "in_review", "stale", "reopened"}}
<1>1. CASE validated # {}
  <2>1. MaterialChange(validated)
    BY <1>1 DEF InputChanged
  <2>2. validated \subseteq Periods
    BY DEF RowsOf
  <2> HIDE DEF validated
  <2> QED
    BY <2>1, <2>2, MaterialChangeKeeps
<1>2. CASE validated = {}
  <2>1. /\ stage' = [p \in Periods |->
              IF p \in bumped /\ stage[p] = "in_review" THEN "stale" ELSE stage[p]]
        /\ fresh' = [p \in Periods |-> fresh[p] /\ p \notin bumped]
        /\ ended' = ended /\ shared' = shared /\ proof' = proof
    BY <1>2 DEF InputChanged
  <2>2. AssessmentTypeOK /\ \A p \in Periods : RowOK(p)
    BY DEF AssessmentInv
  <2>3. /\ stage' \in [Periods -> Stages] /\ fresh' \in [Periods -> BOOLEAN]
        /\ ended' \in [Periods -> BOOLEAN]
        /\ shared' \in [Periods -> SUBSET (Inputs \cup {Null})]
        /\ proof' \in [Periods -> Amounts \cup {Null}]
    BY <2>1, <2>2 DEF AssessmentTypeOK, Stages
  <2>4. ASSUME NEW p \in Periods PROVE RowOK(p)'
    <3>1. CASE p \in bumped
      <4>1. /\ stage'[p] \notin {"in_review", "in_validation", "finalized"}
            /\ stage[p] # "finalized"
        BY <2>1, <3>1
      <4> QED
        BY <4>1, <2>1, <2>2, RowMadeStale
    <3>2. CASE p \notin bumped
      <4>1. stage'[p] = stage[p] /\ fresh'[p] = fresh[p]
        BY <2>1, <2>2, <3>2 DEF AssessmentTypeOK
      <4> QED
        BY <4>1, <2>1, <2>2, RowUntouched
    <3> QED
      BY <3>1, <3>2
  <2> QED
    BY <2>3, <2>4
<1> QED
  BY <1>1, <1>2

-----------------------------------------------------------------------------
(* The invariant, action by action.                                           *)

LEMMA InitIsInvariant == AssessmentInit => AssessmentInv
<1> SUFFICES ASSUME AssessmentInit PROVE AssessmentInv
  OBVIOUS
<1>1. AssessmentTypeOK
  BY NoEntryIsEntry, NoRenderIsRender, PeriodAssumption DEF AssessmentInit, AssessmentTypeOK, Stages
<1>2. ASSUME NEW p \in Periods PROVE RowOK(p)
  <2>1. stage[p] = "none" /\ entry[p] = NoEntry /\ proof[p] = Null
    BY DEF AssessmentInit
  <2> QED
    BY <2>1, NoEntryIsEntry
    DEF RowOK, ReviewedIsCurrent, SharedIsReviewed, NothingIsRendered,
         ProofIsOfFinalized, ProofIsBound, SeenIsInput, FirstMonth, IssueIsOfFinalized
<1> QED
  BY <1>1, <1>2 DEF AssessmentInv

LEMMA OpenPeriodKeeps ==
  ASSUME AssessmentInv, NEW m \in Months, OpenPeriod(m)
  PROVE  AssessmentInv'
<1>1. <<m, 1>> \in Periods
  BY FirstRevision
<1> DEFINE p == <<m, 1>>
<1> HIDE DEF p
<1>2. /\ p \in Periods /\ stage' = [stage EXCEPT ![p] = "open"]
      /\ UNCHANGED <<fresh, ended, entry, shared, draft, proof, final, render,
                     figure, candidate, intake, impact, changes>>
  BY <1>1 DEF OpenPeriod, reportVars, monthVars, p
<1>3. AssessmentTypeOK /\ \A q \in Periods : RowOK(q)
  BY DEF AssessmentInv
<1>4. AssessmentTypeOK'
  BY <1>2, <1>3 DEF AssessmentTypeOK, Stages
<1>5. stage[p] = "none"
  BY <1>1 DEF OpenPeriod, RowsOf, p
<1>6. ASSUME NEW q \in Periods PROVE RowOK(q)'
  <2>1. CASE q = p
    <3>1. stage'[q] = "open"
      BY <1>2, <1>3, <2>1 DEF AssessmentTypeOK
    <3> QED
      BY <3>1, <1>2, <1>3, <1>5, <2>1, RowMadeStale
  <2>2. CASE q # p
    <3>1. stage'[q] = stage[q]
      BY <1>2, <1>3, <2>2 DEF AssessmentTypeOK
    <3> QED
      BY <3>1, <1>2, <1>3, RowUntouched
  <2> QED
    BY <2>1, <2>2
<1> QED
  BY <1>4, <1>6 DEF AssessmentInv

LEMMA ComputeKeeps ==
  ASSUME AssessmentInv, NEW p \in Periods, Compute(p)
  PROVE  AssessmentInv'
<1> DEFINE i == InputOf(p[1])
<1>1. i \in Inputs
  BY PeriodParts, InputIsInput DEF AssessmentInv
<1> HIDE DEF i
<1>2. /\ stage[p] \notin {"none", "finalized"}
      /\ stage' = [stage EXCEPT ![p] = "in_review"] /\ fresh' = [fresh EXCEPT ![p] = TRUE]
      /\ entry' = [entry EXCEPT ![p] = Recomputed(entry[p], i)]
      /\ shared' = [shared EXCEPT ![p] = {}]
      /\ draft' = [draft EXCEPT ![p] = IF draft[p] = "none" THEN draft[p] ELSE "old"]
      /\ UNCHANGED <<ended, proof, final, render, figure, candidate, intake, impact, changes>>
  BY DEF Compute, monthVars, i
<1>3. AssessmentTypeOK /\ \A q \in Periods : RowOK(q)
  BY DEF AssessmentInv
<1>4. entry[p] \in Entries
  BY <1>3 DEF AssessmentTypeOK
<1> DEFINE e == Recomputed(entry[p], i)
<1>5. /\ e \in Entries
      /\ entry[p].seen \in {Null, entry[p].input} => e.seen \in {Null, e.input}
      /\ e.bound = entry[p].bound /\ e.input # Null
  BY <1>1, <1>4, RecomputedItem
<1> HIDE DEF e
<1>6. entry' = [entry EXCEPT ![p] = e]
  BY <1>2 DEF e
<1>7. AssessmentTypeOK'
  <2>1. stage' \in [Periods -> Stages] /\ fresh' \in [Periods -> BOOLEAN]
    BY <1>2, <1>3 DEF AssessmentTypeOK, Stages
  <2>2. entry' \in [Periods -> Entries]
    BY <1>3, <1>5, <1>6 DEF AssessmentTypeOK
  <2>3. shared' \in [Periods -> SUBSET (Inputs \cup {Null})]
    BY <1>2, <1>3 DEF AssessmentTypeOK
  <2>4. draft' \in [Periods -> {"none", "fresh", "old"}]
    BY <1>2, <1>3 DEF AssessmentTypeOK
  <2> QED
    BY <2>1, <2>2, <2>3, <2>4, <1>2, <1>3 DEF AssessmentTypeOK
<1>8. ASSUME NEW q \in Periods PROVE RowOK(q)'
  <2>1. CASE q = p
    <3>1. /\ stage'[q] = "in_review" /\ fresh'[q] /\ entry'[q] = e
          /\ proof'[q] = proof[q] /\ render'[q] = render[q]
      BY <1>2, <1>3, <1>6, <2>1 DEF AssessmentTypeOK
    <3>2. RowOK(q)
      BY <1>3
    <3> QED
      BY <3>1, <3>2, <1>2, <1>5, <2>1
      DEF RowOK, ReviewedIsCurrent, SharedIsReviewed, NothingIsRendered,
         ProofIsOfFinalized, ProofIsBound, SeenIsInput, FirstMonth, IssueIsOfFinalized
  <2>2. CASE q # p
    <3>1. /\ stage'[q] = stage[q] /\ fresh'[q] = fresh[q] /\ entry'[q] = entry[q]
          /\ shared'[q] = shared[q]
      BY <1>2, <1>3, <2>2 DEF AssessmentTypeOK
    <3> QED
      BY <3>1, <1>2, <1>3, RowUntouched
  <2> QED
    BY <2>1, <2>2
<1> QED
  BY <1>7, <1>8 DEF AssessmentInv

LEMMA ReviewKeeps ==
  ASSUME AssessmentInv, NEW p \in Periods, NEW w \in Managers, NEW adjusted \in BOOLEAN,
         Review(p, w, adjusted)
  PROVE  AssessmentInv'
<1> DEFINE e == Reviewed(entry[p], w, adjusted)
<1>1. AssessmentTypeOK /\ \A q \in Periods : RowOK(q)
  BY DEF AssessmentInv
<1>2. entry[p] \in Entries /\ entry[p].input # Null
  BY <1>1 DEF AssessmentTypeOK, RowOK, ReviewedIsCurrent, Review
<1>3. e \in Entries /\ e.seen = e.input /\ e.input # Null /\ e.rec # Null
  BY <1>2, PeriodAssumption DEF Reviewed, Entries, Amounts, Inputs, Figures
<1> HIDE DEF e
<1>4. /\ stage[p] = "in_review" /\ entry' = [entry EXCEPT ![p] = e]
      /\ draft' = [draft EXCEPT ![p] = IF draft[p] = "none" THEN draft[p] ELSE "old"]
      /\ UNCHANGED <<stage, fresh, ended, shared, proof, final, render, figure, candidate, intake,
                     impact, changes>>
  BY DEF Review, periodVars, monthVars, e
<1>5. AssessmentTypeOK'
  <2>1. entry' \in [Periods -> Entries]
    BY <1>1, <1>3, <1>4 DEF AssessmentTypeOK
  <2>2. draft' \in [Periods -> {"none", "fresh", "old"}]
    BY <1>1, <1>4 DEF AssessmentTypeOK
  <2> QED
    BY <2>1, <2>2, <1>1, <1>4 DEF AssessmentTypeOK
<1>6. ASSUME NEW q \in Periods PROVE RowOK(q)'
  <2>1. CASE q = p
    <3>1. entry'[q] = e
      BY <1>1, <1>4, <2>1 DEF AssessmentTypeOK
    <3>2. RowOK(q)
      BY <1>1
    <3> QED
      BY <3>1, <3>2, <1>3, <1>4, <2>1
      DEF RowOK, ReviewedIsCurrent, SharedIsReviewed, NothingIsRendered,
         ProofIsOfFinalized, ProofIsBound, SeenIsInput, FirstMonth, IssueIsOfFinalized
  <2>2. CASE q # p
    <3>1. entry'[q] = entry[q]
      BY <1>1, <1>4, <2>2 DEF AssessmentTypeOK
    <3> QED
      BY <3>1, <1>1, <1>4, RowUntouched
  <2> QED
    BY <2>1, <2>2
<1> QED
  BY <1>5, <1>6 DEF AssessmentInv

LEMMA ShareKeeps ==
  ASSUME AssessmentInv, NEW p \in Periods, Share(p)
  PROVE  AssessmentInv'
<1>1. AssessmentTypeOK /\ \A q \in Periods : RowOK(q)
  BY DEF AssessmentInv
<1>2. /\ entry[p].rec # Null
      /\ shared' = [shared EXCEPT ![p] = shared[p] \cup {entry[p].seen}]
      /\ \/ /\ stage[p] = "in_review"
            /\ stage' = [stage EXCEPT ![p] = "in_validation"]
            /\ ended' = [ended EXCEPT ![p] = FALSE]
         \/ stage' = stage /\ ended' = ended
      /\ UNCHANGED <<fresh, entry, draft, proof, final, render, figure, candidate, intake, impact,
                     changes>>
  BY DEF Share, Recommended, reportVars, monthVars
<1>3. entry[p].seen \in Inputs \cup {Null}
  BY <1>1 DEF AssessmentTypeOK, Entries
<1>4. AssessmentTypeOK'
  <2>1. stage' \in [Periods -> Stages] /\ ended' \in [Periods -> BOOLEAN]
    BY <1>1, <1>2 DEF AssessmentTypeOK, Stages
  <2>2. shared' \in [Periods -> SUBSET (Inputs \cup {Null})]
    BY <1>1, <1>2, <1>3 DEF AssessmentTypeOK
  <2> QED
    BY <2>1, <2>2, <1>1, <1>2 DEF AssessmentTypeOK
<1>5. ASSUME NEW q \in Periods PROVE RowOK(q)'
  <2>1. CASE q = p
    <3>1. /\ entry'[q].seen \in shared'[q] /\ shared[q] \subseteq shared'[q]
          /\ \/ stage[q] = "in_review" /\ stage'[q] = "in_validation" /\ ~ended'[q]
             \/ stage'[q] = stage[q] /\ ended'[q] = ended[q]
      BY <1>1, <1>2, <2>1 DEF AssessmentTypeOK
    <3>2. RowOK(q)
      BY <1>1
    <3> QED
      BY <3>1, <3>2, <1>2, <2>1
      DEF RowOK, ReviewedIsCurrent, SharedIsReviewed, NothingIsRendered,
         ProofIsOfFinalized, ProofIsBound, SeenIsInput, FirstMonth, IssueIsOfFinalized
  <2>2. CASE q # p
    <3>1. stage'[q] = stage[q] /\ ended'[q] = ended[q] /\ shared'[q] = shared[q]
      BY <1>1, <1>2, <2>2 DEF AssessmentTypeOK
    <3> QED
      BY <3>1, <1>1, <1>2, RowUntouched
  <2> QED
    BY <2>1, <2>2
<1> QED
  BY <1>4, <1>5 DEF AssessmentInv

LEMMA WindowEndsKeeps ==
  ASSUME AssessmentInv, NEW p \in Periods, WindowEnds(p)
  PROVE  AssessmentInv'
<1>1. AssessmentTypeOK /\ \A q \in Periods : RowOK(q)
  BY DEF AssessmentInv
<1>2. /\ \A q \in Periods : render[q].task = "none"
      /\ ended' = [ended EXCEPT ![p] = TRUE]
      /\ UNCHANGED <<stage, fresh, entry, shared, draft, proof, final, render, figure, candidate,
                     intake, impact, changes>>
  BY DEF WindowEnds, reportVars, monthVars
<1>3. AssessmentTypeOK'
  BY <1>1, <1>2 DEF AssessmentTypeOK
<1>4. ASSUME NEW q \in Periods PROVE RowOK(q)'
  <2>1. RowOK(q) /\ render[q].task = "none"
    BY <1>1, <1>2
  <2> QED
    BY <2>1, <1>2
    DEF RowOK, ReviewedIsCurrent, SharedIsReviewed, NothingIsRendered,
         ProofIsOfFinalized, ProofIsBound, SeenIsInput, FirstMonth, IssueIsOfFinalized
<1> QED
  BY <1>3, <1>4 DEF AssessmentInv

LEMMA FinalizeKeeps ==
  ASSUME AssessmentInv, NEW p \in Periods, NEW w \in Managers, Finalize(p, w)
  PROVE  AssessmentInv'
<1>1. AssessmentTypeOK /\ \A q \in Periods : RowOK(q)
  BY DEF AssessmentInv
<1> DEFINE e == [entry[p] EXCEPT !.bound = entry[p].rec]
<1>2. entry[p] \in Entries
  BY <1>1 DEF AssessmentTypeOK
<1>3. e \in Entries /\ e.seen = entry[p].seen /\ e.input = entry[p].input
  BY <1>2 DEF Entries
<1> HIDE DEF e
<1>4. /\ stage[p] = "in_validation" /\ ended[p]
      /\ stage' = [stage EXCEPT ![p] = "finalized"]
      /\ entry' = [entry EXCEPT ![p] = e]
      /\ proof' = [proof EXCEPT ![p] = Null]
      /\ UNCHANGED <<fresh, ended, shared, draft, final, render, figure, candidate, intake, impact,
                     changes>>
  BY DEF Finalize, CanFinalize, monthVars, e
<1>5. AssessmentTypeOK'
  <2>1. stage' \in [Periods -> Stages] /\ proof' \in [Periods -> Amounts \cup {Null}]
    BY <1>1, <1>4 DEF AssessmentTypeOK, Stages
  <2>2. entry' \in [Periods -> Entries]
    BY <1>1, <1>3, <1>4 DEF AssessmentTypeOK
  <2> QED
    BY <2>1, <2>2, <1>1, <1>4 DEF AssessmentTypeOK
<1>6. ASSUME NEW q \in Periods PROVE RowOK(q)'
  <2>1. CASE q = p
    <3>1. /\ stage'[q] = "finalized" /\ entry'[q] = e /\ proof'[q] = Null
          /\ render'[q].task = render[q].task
      BY <1>1, <1>4, <2>1 DEF AssessmentTypeOK
    <3>2. RowOK(q) /\ render[q].task = "none"
      BY <1>1, <1>4, <2>1 DEF RowOK, NothingIsRendered
    <3> QED
      BY <3>1, <3>2, <1>3, <2>1
      DEF RowOK, ReviewedIsCurrent, SharedIsReviewed, NothingIsRendered,
         ProofIsOfFinalized, ProofIsBound, SeenIsInput, FirstMonth, IssueIsOfFinalized
  <2>2. CASE q # p
    <3>1. stage'[q] = stage[q] /\ entry'[q] = entry[q] /\ proof'[q] = proof[q]
      BY <1>1, <1>4, <2>2 DEF AssessmentTypeOK
    <3> QED
      BY <3>1, <1>1, <1>4, RowUntouched
  <2> QED
    BY <2>1, <2>2
<1> QED
  BY <1>5, <1>6 DEF AssessmentInv

\* What a handler that records something new writes besides.
LEMMA HappensKeeps ==
  ASSUME AssessmentTypeOK, Happens
  PROVE  changes' \in 0 .. MaxChanges
BY PeriodAssumption DEF AssessmentTypeOK, Happens

LEMMA AddEvidenceKeeps ==
  ASSUME AssessmentInv, NEW p \in Periods, AddEvidence(p)
  PROVE  AssessmentInv'
<1>1. /\ Happens /\ MaterialChange({p})
      /\ UNCHANGED <<entry, draft, final, render, figure, candidate, intake, impact>>
  BY DEF AddEvidence, monthVars
<1>2. AssessmentTypeOK
  BY DEF AssessmentInv
<1>3. /\ stage' \in [Periods -> Stages] /\ fresh' \in [Periods -> BOOLEAN]
      /\ ended' \in [Periods -> BOOLEAN]
      /\ shared' \in [Periods -> SUBSET (Inputs \cup {Null})]
      /\ proof' \in [Periods -> Amounts \cup {Null}]
      /\ \A q \in Periods : RowOK(q)'
  BY <1>1, MaterialChangeKeeps
<1>4. AssessmentTypeOK'
  BY <1>1, <1>2, <1>3, HappensKeeps DEF AssessmentTypeOK
<1> QED
  BY <1>3, <1>4 DEF AssessmentInv

LEMMA DecideClaimKeeps ==
  ASSUME AssessmentInv, NEW m \in Months, NEW f \in Figures, DecideClaim(m, f)
  PROVE  AssessmentInv'
<1> DEFINE P == {p \in RowsOf(m) : stage[p] # "issued"}
<1>1. /\ Happens /\ MaterialChange(P)
      /\ figure' = [figure EXCEPT ![m] = f]
      /\ UNCHANGED <<entry, draft, final, render, candidate, intake, impact>>
  BY DEF DecideClaim
<1>2. AssessmentTypeOK
  BY DEF AssessmentInv
<1>3. P \subseteq Periods
  BY DEF RowsOf
<1> HIDE DEF P
<1>4. /\ stage' \in [Periods -> Stages] /\ fresh' \in [Periods -> BOOLEAN]
      /\ ended' \in [Periods -> BOOLEAN]
      /\ shared' \in [Periods -> SUBSET (Inputs \cup {Null})]
      /\ proof' \in [Periods -> Amounts \cup {Null}]
      /\ \A q \in Periods : RowOK(q)'
  BY <1>1, <1>3, MaterialChangeKeeps
<1>5. AssessmentTypeOK'
  BY <1>1, <1>2, <1>4, HappensKeeps DEF AssessmentTypeOK
<1> QED
  BY <1>4, <1>5 DEF AssessmentInv

LEMMA EnterMetricKeeps ==
  ASSUME AssessmentInv, NEW m \in Months, NEW f \in Figures, EnterMetric(m, f)
  PROVE  AssessmentInv'
<1>1. /\ Happens /\ InputChanged(m)
      /\ figure' = [figure EXCEPT ![m] = f]
      /\ UNCHANGED <<entry, draft, final, render, candidate, intake, impact>>
  BY DEF EnterMetric
<1>2. AssessmentTypeOK
  BY DEF AssessmentInv
<1>3. /\ stage' \in [Periods -> Stages] /\ fresh' \in [Periods -> BOOLEAN]
      /\ ended' \in [Periods -> BOOLEAN]
      /\ shared' \in [Periods -> SUBSET (Inputs \cup {Null})]
      /\ proof' \in [Periods -> Amounts \cup {Null}]
      /\ \A q \in Periods : RowOK(q)'
  BY <1>1, InputChangedKeeps
<1>4. AssessmentTypeOK'
  BY <1>1, <1>2, <1>3, HappensKeeps DEF AssessmentTypeOK
<1> QED
  BY <1>3, <1>4 DEF AssessmentInv

LEMMA IntakeReadKeeps ==
  ASSUME AssessmentInv, NEW m \in Months, ReadForIntake(m) \/ DropIntake(m)
  PROVE  AssessmentInv'
<1>1. /\ intake' \in [Months -> BOOLEAN]
      /\ UNCHANGED <<stage, fresh, ended, entry, shared, draft, proof, final, render, figure,
                     candidate, impact, changes>>
  BY DEF ReadForIntake, DropIntake, periodVars, reportVars, AssessmentInv, AssessmentTypeOK
<1>2. AssessmentTypeOK /\ \A q \in Periods : RowOK(q)
  BY DEF AssessmentInv
<1>3. AssessmentTypeOK'
  BY <1>1, <1>2 DEF AssessmentTypeOK
<1>4. \A q \in Periods : RowOK(q)'
  BY <1>1, <1>2, RowUntouched
<1> QED
  BY <1>3, <1>4 DEF AssessmentInv

LEMMA WriteIntakeKeeps ==
  ASSUME AssessmentInv, NEW m \in Months, NEW f \in Figures, NEW c \in BOOLEAN,
         WriteIntake(m, f, c)
  PROVE  AssessmentInv'
<1>1. /\ Happens /\ InputChanged(m)
      /\ intake' = [intake EXCEPT ![m] = FALSE]
      /\ figure' = [figure EXCEPT ![m] = f] /\ candidate' = [candidate EXCEPT ![m] = c]
      /\ UNCHANGED <<entry, draft, final, render, impact>>
  BY DEF WriteIntake
<1>2. AssessmentTypeOK
  BY DEF AssessmentInv
<1>3. /\ stage' \in [Periods -> Stages] /\ fresh' \in [Periods -> BOOLEAN]
      /\ ended' \in [Periods -> BOOLEAN]
      /\ shared' \in [Periods -> SUBSET (Inputs \cup {Null})]
      /\ proof' \in [Periods -> Amounts \cup {Null}]
      /\ \A q \in Periods : RowOK(q)'
  BY <1>1, InputChangedKeeps
<1>4. /\ intake' \in [Months -> BOOLEAN] /\ candidate' \in [Months -> BOOLEAN]
      /\ figure' \in [Months -> Figures]
  BY <1>1, <1>2 DEF AssessmentTypeOK
<1>5. AssessmentTypeOK'
  BY <1>1, <1>2, <1>3, <1>4, HappensKeeps DEF AssessmentTypeOK
<1> QED
  BY <1>3, <1>5 DEF AssessmentInv

LEMMA ReopenKeeps ==
  ASSUME AssessmentInv, NEW p \in Periods, Reopen(p)
  PROVE  AssessmentInv'
<1> DEFINE on    == IF stage[p] = "finalized" THEN p ELSE <<p[1], p[2] + 1>>
           later == {q \in Periods : q[1] > p[1]}
           moved == {q \in later : stage[q] \in {"open", "in_review", "in_validation", "finalized"}}
           starts == on = p \/ stage[on] = "none"
<1>1. AssessmentTypeOK /\ \A q \in Periods : RowOK(q)
  BY DEF AssessmentInv
<1>2. /\ Happens
      /\ stage' = [q \in Periods |->
                     IF q \in moved THEN "stale"
                     ELSE IF q = on /\ starts THEN "reopened" ELSE stage[q]]
      /\ impact' = IF starts THEN impact \cup {q \in later : stage[q] = "issued"} ELSE impact
      /\ fresh' = [q \in Periods |-> fresh[q] /\ q \notin moved /\ (q = p => on # p)]
      /\ proof' = IF on = p THEN [proof EXCEPT ![p] = Null] ELSE proof
      /\ UNCHANGED <<ended, entry, shared, draft, final, render, figure, candidate, intake>>
  BY DEF Reopen, monthVars
<1>3. p[1] \in Months /\ p[1] \in Nat
  BY PeriodParts
<1>4. on = p => stage[p] = "finalized"
  BY PeriodParts
<1>5. AssessmentTypeOK'
  <2>1. stage' \in [Periods -> Stages]
    BY <1>1, <1>2 DEF AssessmentTypeOK, Stages
  <2>2. fresh' \in [Periods -> BOOLEAN]
    BY <1>1, <1>2 DEF AssessmentTypeOK
  <2>3. proof' \in [Periods -> Amounts \cup {Null}]
    BY <1>1, <1>2 DEF AssessmentTypeOK
  <2>4. impact' \subseteq Periods
    BY <1>1, <1>2 DEF AssessmentTypeOK
  <2>5. changes' \in 0 .. MaxChanges
    BY <1>1, <1>2, HappensKeeps
  <2> HIDE DEF on, later, moved, starts
  <2> QED
    BY <2>1, <2>2, <2>3, <2>4, <2>5, <1>1, <1>2 DEF AssessmentTypeOK
<1>6. ASSUME NEW q \in Periods PROVE RowOK(q)'
  <2>1. CASE q \in moved
    <3>1. q[1] > p[1] /\ q[1] \in Nat
      BY <2>1, PeriodParts
    <3>2. ~FirstMonth(q)
      BY <3>1, <1>3 DEF FirstMonth
    <3>3. q # p
      BY <3>1, <1>3
    <3>4. stage'[q] = "stale" /\ proof'[q] = proof[q]
      BY <1>1, <1>2, <2>1, <3>3 DEF AssessmentTypeOK
    <3> QED
      BY <3>2, <3>4, <1>1, <1>2, RowMadeStale
  <2>2. CASE q \notin moved /\ q = on /\ starts
    <3>1. stage'[q] = "reopened"
      BY <1>2, <2>2
    <3>2. CASE q = p
      <4>1. proof'[q] = Null
        BY <1>1, <1>2, <2>2, <3>2 DEF AssessmentTypeOK
      <4> QED
        BY <3>1, <4>1, <1>1, <1>2, RowMadeStale
    <3>3. CASE q # p
      <4>1. proof'[q] = proof[q] /\ stage[q] = "none"
        BY <1>1, <1>2, <2>2, <3>3 DEF AssessmentTypeOK
      <4> QED
        BY <3>1, <4>1, <1>1, <1>2, RowMadeStale
    <3> QED
      BY <3>2, <3>3
  <2>3. CASE q \notin moved /\ ~(q = on /\ starts)
    <3>1. stage'[q] = stage[q]
      BY <1>2, <2>3
    <3>2. q = p => on # p
      BY <2>3
    <3>3. fresh'[q] = fresh[q] /\ proof'[q] = proof[q]
      BY <1>1, <1>2, <2>3, <3>2 DEF AssessmentTypeOK
    <3> QED
      BY <3>1, <3>3, <1>1, <1>2, RowUntouched
  <2> QED
    BY <2>1, <2>2, <2>3
<1> QED
  BY <1>5, <1>6 DEF AssessmentInv

LEMMA BeginRenderKeeps ==
  ASSUME AssessmentInv, NEW p \in Periods,
         BeginDraft(p) \/ BeginProof(p) \/ \E w \in Managers : BeginIssue(p, w)
  PROVE  AssessmentInv'
<1>1. AssessmentTypeOK /\ \A q \in Periods : RowOK(q)
  BY DEF AssessmentInv
<1>2. PICK r : /\ r \in {[task |-> "draft", shows |-> Null], [task |-> "proof", shows |-> entry[p].bound],
                        [task |-> "issue", shows |-> entry[p].bound]}
               /\ render' = [render EXCEPT ![p] = r]
               /\ r.task = "draft" => stage[p] = "in_review"
               /\ r.task # "draft" => stage[p] = "finalized"
  BY DEF BeginDraft, BeginProof, BeginIssue, BeginRender
<1>3. UNCHANGED <<stage, fresh, ended, entry, shared, draft, proof, final, figure, candidate, intake,
                  impact, changes>>
  BY DEF BeginDraft, BeginProof, BeginIssue, BeginRender, periodVars, monthVars
<1>4. entry[p].bound \in Amounts \cup {Null}
  BY <1>1 DEF AssessmentTypeOK, Entries
<1>5. r \in Renders /\ (r.task # "draft" => r.shows = entry[p].bound)
  BY <1>2, <1>4 DEF Renders
<1>6. render' \in [Periods -> Renders]
  BY <1>1, <1>2, <1>5 DEF AssessmentTypeOK
<1>7. AssessmentTypeOK'
  BY <1>1, <1>3, <1>6 DEF AssessmentTypeOK
<1>8. ASSUME NEW q \in Periods PROVE RowOK(q)'
  <2>1. CASE q = p
    <3>1. render'[q] = r
      BY <1>1, <1>2, <2>1 DEF AssessmentTypeOK
    <3>2. RowOK(q)
      BY <1>1
    <3> QED
      BY <3>1, <3>2, <1>2, <1>3, <1>5, <2>1
      DEF RowOK, ReviewedIsCurrent, SharedIsReviewed, NothingIsRendered,
         ProofIsOfFinalized, ProofIsBound, SeenIsInput, FirstMonth, IssueIsOfFinalized
  <2>2. CASE q # p
    <3>1. render'[q] = render[q]
      BY <1>1, <1>2, <2>2 DEF AssessmentTypeOK
    <3> QED
      BY <3>1, <1>1, <1>3, RowUntouched
  <2> QED
    BY <2>1, <2>2
<1> QED
  BY <1>7, <1>8 DEF AssessmentInv

LEMMA EndRenderKeeps ==
  ASSUME AssessmentInv, NEW p \in Periods,
         FinishDraft(p) \/ FinishProof(p) \/ FinishIssue(p) \/ Abandon(p)
  PROVE  AssessmentInv'
<1>1. AssessmentTypeOK /\ \A q \in Periods : RowOK(q)
  BY DEF AssessmentInv
<1>2. /\ render' = [render EXCEPT ![p] = NoRender]
      /\ UNCHANGED <<fresh, ended, entry, shared, figure, candidate, intake, impact, changes>>
  BY DEF FinishDraft, FinishProof, FinishIssue, Abandon, EndRender, periodVars, monthVars
<1>3. /\ stage' = stage \/ stage' = [stage EXCEPT ![p] = "issued"]
      /\ draft' = draft \/ draft' = [draft EXCEPT ![p] = "fresh"]
      /\ final' = final \/ final' = [final EXCEPT ![p] = render[p].shows]
      /\ \/ proof' = proof
         \/ proof' = [proof EXCEPT ![p] = Null]
         \/ render[p].task = "proof" /\ proof' = [proof EXCEPT ![p] = render[p].shows]
  BY DEF FinishDraft, FinishProof, FinishIssue, Abandon, periodVars
<1>4. render[p].shows \in Amounts \cup {Null}
  BY <1>1 DEF AssessmentTypeOK, Renders
<1>5. AssessmentTypeOK'
  <2>1. stage' \in [Periods -> Stages] /\ draft' \in [Periods -> {"none", "fresh", "old"}]
    BY <1>1, <1>3 DEF AssessmentTypeOK, Stages
  <2>2. final' \in [Periods -> Amounts \cup {Null}] /\ proof' \in [Periods -> Amounts \cup {Null}]
    BY <1>1, <1>3, <1>4 DEF AssessmentTypeOK
  <2>3. render' \in [Periods -> Renders]
    BY <1>1, <1>2, NoRenderIsRender DEF AssessmentTypeOK
  <2> QED
    BY <2>1, <2>2, <2>3, <1>1, <1>2 DEF AssessmentTypeOK
<1>6. ASSUME NEW q \in Periods PROVE RowOK(q)'
  <2>1. CASE q = p
    <3>1. /\ render'[q].task = "none"
          /\ stage'[q] \in {stage[q], "issued"}
          /\ proof'[q] \in {proof[q], Null} \/ (render[q].task = "proof" /\ proof'[q] = render[q].shows)
      BY <1>1, <1>2, <1>3, <2>1, NoRenderIsRender DEF AssessmentTypeOK
    <3>2. RowOK(q)
      BY <1>1
    <3> QED
      BY <3>1, <3>2, <1>2
      DEF RowOK, ReviewedIsCurrent, SharedIsReviewed, NothingIsRendered,
         ProofIsOfFinalized, ProofIsBound, SeenIsInput, FirstMonth, IssueIsOfFinalized
  <2>2. CASE q # p
    <3>1. stage'[q] = stage[q] /\ proof'[q] = proof[q] /\ render'[q] = render[q]
      BY <1>1, <1>2, <1>3, <2>2 DEF AssessmentTypeOK
    <3> QED
      BY <3>1, <1>1, <1>2, RowUntouched
  <2> QED
    BY <2>1, <2>2
<1> QED
  BY <1>5, <1>6 DEF AssessmentInv

LEMMA StepKeeps == AssessmentInv /\ [AssessmentNext]_assessmentVars => AssessmentInv'
<1> SUFFICES ASSUME AssessmentInv, [AssessmentNext]_assessmentVars PROVE AssessmentInv'
  OBVIOUS
<1>1. CASE UNCHANGED assessmentVars
  <2>1. UNCHANGED <<stage, fresh, ended, entry, shared, draft, proof, final, render, figure,
                    candidate, intake, impact, changes>>
    BY <1>1 DEF assessmentVars, periodVars, reportVars, monthVars
  <2>2. AssessmentTypeOK /\ \A q \in Periods : RowOK(q)
    BY DEF AssessmentInv
  <2>3. AssessmentTypeOK'
    BY <2>1, <2>2 DEF AssessmentTypeOK
  <2>4. \A q \in Periods : RowOK(q)'
    BY <2>1, <2>2, RowUntouched
  <2> QED
    BY <2>3, <2>4 DEF AssessmentInv
<1>2. ASSUME NEW p \in Periods, PeriodStep(p) PROVE AssessmentInv'
  BY <1>2, ComputeKeeps, ShareKeeps, WindowEndsKeeps, AddEvidenceKeeps, ReopenKeeps, ReviewKeeps,
     FinalizeKeeps DEF PeriodStep
<1>3. ASSUME NEW p \in Periods, RenderStep(p) PROVE AssessmentInv'
  BY <1>3, BeginRenderKeeps, EndRenderKeeps DEF RenderStep
<1>4. ASSUME NEW m \in Months, MonthStep(m) PROVE AssessmentInv'
  BY <1>4, OpenPeriodKeeps, IntakeReadKeeps, DecideClaimKeeps, EnterMetricKeeps, WriteIntakeKeeps
  DEF MonthStep
<1> QED
  BY <1>1, <1>2, <1>3, <1>4 DEF AssessmentNext

-----------------------------------------------------------------------------
(* The theorems.                                                              *)

\* The inductive invariant: what the handlers keep true of every period together.
THEOREM AssessmentInductive == AssessmentSpec => []AssessmentInv
BY InitIsInvariant, StepKeeps, PTL DEF AssessmentSpec

\* Every column stays in its domain.
THEOREM AssessmentTypeCorrect == AssessmentSpec => []AssessmentTypeOK
<1>1. AssessmentInv => AssessmentTypeOK
  BY DEF AssessmentInv
<1> QED
  BY <1>1, AssessmentInductive, PTL

\* What is with the contractor is current, and a live share has the hash that
\* finalizing compares, whatever handlers wrote since.
THEOREM SharesStillMatch == AssessmentSpec => []SharedStillMatches
<1>1. AssessmentInv => SharedStillMatches
  BY DEF AssessmentInv, RowOK, ReviewedIsCurrent, SharedIsReviewed, SharedStillMatches
<1> QED
  BY <1>1, AssessmentInductive, PTL

\* The proof that lies beside a finalized period shows what was finalized, although a
\* render is written long after its rows were read.
THEOREM ProofsShowFinalized == AssessmentSpec => []ProofShowsFinalized
<1>1. AssessmentInv => ProofShowsFinalized
  BY DEF AssessmentInv, RowOK, ProofIsBound, ProofShowsFinalized
<1> QED
  BY <1>1, AssessmentInductive, PTL

\* A review that is there is of the inputs the item has.
THEOREM ReviewsAreOfInputs == AssessmentSpec => []ReviewIsOfTheInput
<1>1. AssessmentInv => ReviewIsOfTheInput
  BY DEF AssessmentInv, RowOK, SeenIsInput, ReviewIsOfTheInput
<1> QED
  BY <1>1, AssessmentInductive, PTL

LEMMA FinalIsWrittenByIssue ==
  ASSUME AssessmentInv, AssessmentNext, NEW p \in Periods, final'[p] # final[p]
  PROVE  FinishIssue(p)
<1>1. final' # final
  OBVIOUS
<1>2. PICK q \in Periods : FinishIssue(q)
  <2>1. ASSUME NEW q \in Periods, PeriodStep(q) PROVE final' = final
    BY <2>1 DEF PeriodStep, Compute, Share, WindowEnds, AddEvidence, Reopen, Review, Finalize,
                reportVars
  <2>2. ASSUME NEW m \in Months, MonthStep(m) PROVE final' = final
    BY <2>2 DEF MonthStep, OpenPeriod, ReadForIntake, DropIntake, DecideClaim, EnterMetric,
                WriteIntake, reportVars
  <2>3. ASSUME NEW q \in Periods, RenderStep(q) PROVE final' = final \/ FinishIssue(q)
    BY <2>3 DEF RenderStep, BeginDraft, BeginProof, BeginIssue, BeginRender, FinishDraft,
                FinishProof, Abandon
  <2> QED
    BY <1>1, <2>1, <2>2, <2>3 DEF AssessmentNext
<1>3. q = p
  BY <1>2 DEF FinishIssue, AssessmentInv, AssessmentTypeOK
<1> QED
  BY <1>2, <1>3

\* What is issued of a month with none before it was finalized, is still, and shows
\* what was bound.
THEOREM IssuedWasFinalizedAlways == AssessmentSpec => IssuedWasFinalized
<1>1. AssessmentInv /\ [AssessmentNext]_assessmentVars =>
        [\A p \in Periods : FirstMonth(p) /\ final'[p] # final[p] =>
           stage[p] = "finalized" /\ final'[p] = entry[p].bound]_assessmentVars
  <2> SUFFICES ASSUME AssessmentInv, AssessmentNext, NEW p \in Periods,
                      FirstMonth(p), final'[p] # final[p]
               PROVE  stage[p] = "finalized" /\ final'[p] = entry[p].bound
    OBVIOUS
  <2>1. FinishIssue(p)
    BY FinalIsWrittenByIssue
  <2>2. /\ render[p].task = "issue" /\ proof[p] # Null
        /\ final'[p] = render[p].shows
    BY <2>1 DEF FinishIssue, AssessmentInv, AssessmentTypeOK
  <2>3. IssueIsOfFinalized(p)
    BY DEF AssessmentInv, RowOK
  <2> QED
    BY <2>2, <2>3 DEF IssueIsOfFinalized
<1> QED
  BY <1>1, AssessmentInductive, PTL DEF AssessmentSpec, IssuedWasFinalized

------------------------------------------------------------------------------
(* What is finalized, beside the finding.                                     *)

\* A review that stands made the recommendation, of the inputs the item has.
ReviewRecommended(p) ==
  entry[p].seen # Null => entry[p].rec # Null /\ entry[p].rec.on = entry[p].input

\* What is bound is what was recommended.
RecommendedIsBound(p) ==
  stage[p] = "finalized" => entry[p].bound = entry[p].rec

\* Both are kept beside AssessmentInv.
ReviewInv == \A p \in Periods : ReviewRecommended(p) /\ RecommendedIsBound(p)

\* Only computing, reviewing and finalizing write an item, and only finalizing
\* makes a period finalized.
LEMMA ItemsAreLeft ==
  ASSUME AssessmentInv, AssessmentNext,
         \A p \in Periods : ~Compute(p),
         \A p \in Periods, w \in Managers, adjusted \in BOOLEAN : ~Review(p, w, adjusted),
         \A p \in Periods, w \in Managers : ~Finalize(p, w)
  PROVE  entry' = entry /\ \A q \in Periods : stage'[q] = "finalized" => stage[q] = "finalized"
<1> AssessmentTypeOK
  BY DEF AssessmentInv
<1> DEFINE Goal == entry' = entry /\ \A q \in Periods : stage'[q] = "finalized" => stage[q] = "finalized"
<1>1. ASSUME NEW P, MaterialChange(P) PROVE \A q \in Periods : stage'[q] = "finalized" => stage[q] = "finalized"
  BY <1>1 DEF MaterialChange
<1>2. ASSUME NEW m, InputChanged(m) PROVE \A q \in Periods : stage'[q] = "finalized" => stage[q] = "finalized"
  BY <1>1, <1>2 DEF InputChanged
<1>3. ASSUME NEW p \in Periods, Share(p) \/ WindowEnds(p) PROVE Goal
  BY <1>3 DEF Share, WindowEnds, AssessmentTypeOK
<1>4. ASSUME NEW p \in Periods, AddEvidence(p) PROVE Goal
  BY <1>1, <1>4 DEF AddEvidence
<1>5. ASSUME NEW p \in Periods, Reopen(p) PROVE Goal
  BY <1>5 DEF Reopen
<1>6. ASSUME NEW p \in Periods, RenderStep(p) PROVE Goal
  BY <1>6 DEF RenderStep, BeginDraft, BeginProof, BeginIssue, BeginRender, FinishDraft, FinishProof,
              FinishIssue, Abandon, EndRender, periodVars, AssessmentTypeOK
<1>7. ASSUME NEW m \in Months, NEW f \in Figures, NEW c \in BOOLEAN,
             DecideClaim(m, f) \/ EnterMetric(m, f) \/ WriteIntake(m, f, c)
      PROVE  Goal
  BY <1>1, <1>2, <1>7 DEF DecideClaim, EnterMetric, WriteIntake
<1>8. ASSUME NEW m \in Months, OpenPeriod(m) \/ ReadForIntake(m) \/ DropIntake(m) PROVE Goal
  BY <1>8 DEF OpenPeriod, ReadForIntake, DropIntake, periodVars, AssessmentTypeOK
<1> HIDE DEF Goal
<1>9. ASSUME NEW p \in Periods, PeriodStep(p) PROVE Goal
  BY <1>3, <1>4, <1>5, <1>9 DEF PeriodStep
<1>10. ASSUME NEW m \in Months, MonthStep(m) PROVE Goal
  BY <1>7, <1>8, <1>10 DEF MonthStep
<1>11. Goal
  BY <1>6, <1>9, <1>10 DEF AssessmentNext
<1> QED  BY <1>11 DEF Goal

\* Computing withdraws the review with the hash it was of, reviewing recommends for
\* the inputs of the day, finalizing binds what is recommended.
LEMMA ReviewInvKeeps == AssessmentInv /\ ReviewInv /\ [AssessmentNext]_assessmentVars => ReviewInv'
<1> SUFFICES ASSUME AssessmentInv, ReviewInv, [AssessmentNext]_assessmentVars PROVE ReviewInv'
  OBVIOUS
<1> SUFFICES ASSUME NEW q \in Periods
             PROVE  (ReviewRecommended(q) /\ RecommendedIsBound(q))'
  BY DEF ReviewInv
<1> AssessmentTypeOK /\ ReviewRecommended(q) /\ RecommendedIsBound(q) /\ SeenIsInput(q)
  BY DEF AssessmentInv, ReviewInv, RowOK
<1>1. ASSUME NEW p \in Periods, Compute(p) PROVE (ReviewRecommended(q) /\ RecommendedIsBound(q))'
  <2>1. CASE p = q
    <3>1. stage'[q] = "in_review" /\ entry'[q] = Recomputed(entry[q], InputOf(q[1]))
      BY <1>1, <2>1 DEF Compute, AssessmentTypeOK
    <3>2. entry'[q] = entry[q] \/ entry'[q].seen = Null
      BY <3>1 DEF Recomputed
    <3> QED  BY <3>1, <3>2 DEF ReviewRecommended, RecommendedIsBound
  <2>2. CASE p # q
    BY <1>1, <2>2 DEF Compute, AssessmentTypeOK, ReviewRecommended, RecommendedIsBound
  <2> QED  BY <2>1, <2>2
<1>2. ASSUME NEW p \in Periods, NEW w \in Managers, NEW adjusted \in BOOLEAN, Review(p, w, adjusted)
      PROVE  (ReviewRecommended(q) /\ RecommendedIsBound(q))'
  <2>1. CASE p = q
    <3>1. /\ stage'[q] = "in_review" /\ entry'[q] = Reviewed(entry[q], w, adjusted)
          /\ entry[q].input \in Inputs
      BY <1>2, <2>1 DEF Review, AssessmentTypeOK, AssessmentInv, RowOK, ReviewedIsCurrent, periodVars, Entries
    <3>2. [on |-> entry[q].input, adjusted |-> adjusted] # Null
      BY <3>1, PeriodAssumption DEF Inputs, Figures
    <3> QED  BY <3>1, <3>2 DEF Reviewed, ReviewRecommended, RecommendedIsBound
  <2>2. CASE p # q
    BY <1>2, <2>2 DEF Review, AssessmentTypeOK, ReviewRecommended, RecommendedIsBound, periodVars
  <2> QED  BY <2>1, <2>2
<1>3. ASSUME NEW p \in Periods, NEW w \in Managers, Finalize(p, w)
      PROVE  (ReviewRecommended(q) /\ RecommendedIsBound(q))'
  <2>1. CASE p = q
    <3>1. entry'[q] = [entry[q] EXCEPT !.bound = entry[q].rec]
      BY <1>3, <2>1 DEF Finalize, AssessmentTypeOK
    <3>2. entry[q] \in Entries
      BY DEF AssessmentTypeOK
    <3>3. /\ entry'[q].bound = entry[q].rec /\ entry'[q].rec = entry[q].rec
          /\ entry'[q].seen = entry[q].seen /\ entry'[q].input = entry[q].input
      BY <3>1, <3>2 DEF Entries
    <3> QED  BY <3>3 DEF ReviewRecommended, RecommendedIsBound
  <2>2. CASE p # q
    BY <1>3, <2>2 DEF Finalize, AssessmentTypeOK, ReviewRecommended, RecommendedIsBound
  <2> QED  BY <2>1, <2>2
<1>4. CASE UNCHANGED assessmentVars
  BY <1>4 DEF assessmentVars, periodVars, ReviewRecommended, RecommendedIsBound
<1>5. ASSUME AssessmentNext,
             \A p \in Periods : ~Compute(p),
             \A p \in Periods, w \in Managers, adjusted \in BOOLEAN : ~Review(p, w, adjusted),
             \A p \in Periods, w \in Managers : ~Finalize(p, w)
      PROVE  (ReviewRecommended(q) /\ RecommendedIsBound(q))'
  BY <1>5, ItemsAreLeft DEF ReviewRecommended, RecommendedIsBound
<1> QED  BY <1>1, <1>2, <1>3, <1>4, <1>5

\* What is finalized is what somebody recommended last; and where a review still
\* stands, it was recommended for the inputs the item has. So FinalizedWasReviewed
\* fails only where the review had been withdrawn.
THEOREM FinalizedAsReviewedAlways == AssessmentSpec => []FinalizedAsReviewed
<1>1. AssessmentInit => ReviewInv
  BY NoEntryIsEntry DEF AssessmentInit, ReviewInv, ReviewRecommended, RecommendedIsBound
<1>2. ReviewInv => FinalizedAsReviewed
  BY DEF ReviewInv, ReviewRecommended, RecommendedIsBound, FinalizedAsReviewed
<1>3. AssessmentSpec => []AssessmentInv
  BY AssessmentInductive
<1> QED  BY <1>1, <1>2, <1>3, ReviewInvKeeps, PTL DEF AssessmentSpec

=============================================================================
