--------------------------- MODULE Detours_proofs ---------------------------
(* The three sides of a Detour, each for any values of its constants.         *)
(*                                                                            *)
(* Its life: confirmed overlaps are overridden although the other Detours are *)
(* read without a lock, corrections stand, what nobody reviewed is            *)
(* outstanding, and closed Detours stay closed. The queue of reported         *)
(* detours: decisions stand, and a Detour says what its intake says. Telling  *)
(* an audience: who counts as told was told, what counts as delivered was     *)
(* delivered, and what a person recorded counts unless mailing it was tried.  *)
EXTENDS DetourWorkflow, DetourIntake, DetourCommunication, TLAPS

-----------------------------------------------------------------------------
(* The life of a Detour: the inductive invariant.                             *)

\* An act in flight holds a row on which its decision still stands.
WorkerOK(w) ==
  /\ work[w].act = "idle" <=> work[w].on = None
  /\ work[w].act # "idle" =>
       Present(work[w].on) /\ work[w].on \in Detours /\ state[work[w].on] # "closed"
  /\ work[w].act = "entered" =>
       mode[work[w].on] = "avail" /\ state[work[w].on] \in {"awaiting_fulfillment", "fulfillment_failed"}

WorkOK == \A w \in Staff : WorkerOK(w)

\* What the synchronisation means to overwrite was Avail's own, and whatever a
\* person wrote on it since is known to be in danger.
FeedOK ==
  /\ feed.stage = "idle" => feed = NoFeed
  /\ feed.stage = "looked" => feed.place \in Places
  /\ feed.row # None =>
       /\ state[feed.row] # "none"
       /\ ~feed.keep => source[feed.row] = "avail" /\ (written[feed.row] = None \/ feed.row \in raced)

\* Nothing is written on a row that is not there, or on one of Avail without
\* the flag of an edit.
WrittenOK ==
  \A d \in Detours :
    /\ state[d] = "none" => source[d] = "manual" /\ written[d] = None
    /\ written[d] # None => source[d] = "manual" \/ d \in edited

Rows == DetourTypeOK /\ WorkOK /\ FeedOK /\ WrittenOK

\* A Detour whose build is confirmed as it stands, or is about to be.
Active(d) == d \in settled \/ \E w \in Staff : work[w].act = "entered" /\ work[w].on = d

\* d's override covers e and will go on doing so.
Guards(d, e) ==
  /\ e \in covered[d]
  /\ \A w \in Staff : work[w].act = "override" /\ work[w].on = d => e \in work[w].ids

Guarded ==
  \A d, e \in Detours :
    /\ d # e /\ Active(d) /\ Active(e)
    /\ Open(d) /\ Open(e) /\ facts[d] = facts[e]
    => Guards(d, e) \/ Guards(e, d)

DetourInv == Rows /\ CorrectionStands /\ UnreviewedIsOutstanding /\ Guarded

-----------------------------------------------------------------------------
(* What leaves the parts of the invariant alone.                              *)

LEMMA NoneApart == None \notin Detours /\ None \notin Places /\ None \notin Externals
  BY NoneIsApart

\* The rows that acts in flight hold are as they were.
LEMMA HeldRowsKept ==
  ASSUME WorkOK, work' = work,
         \A d \in Detours : Locked(d) =>
           state'[d] = state[d] /\ mode'[d] = mode[d] /\ (d \in deleted' => d \in deleted)
  PROVE  WorkOK'
  <1>1. ASSUME NEW w \in Staff PROVE WorkerOK(w)'
    <2>1. WorkerOK(w)
      BY DEF WorkOK
    <2>2. work[w].act # "idle" => Locked(work[w].on) /\ work[w].on \in Detours
      BY <2>1 DEF WorkerOK, Locked
    <2> QED
      BY <2>1, <2>2 DEF WorkerOK, Present
  <1> QED
    BY <1>1 DEF WorkOK

\* One act moves on, the rows it does not hold being as they were.
LEMMA OneActMoves ==
  ASSUME WorkOK, DetourTypeOK, NEW w \in Staff, NEW r \in WorkType,
         work' = [work EXCEPT ![w] = r], WorkerOK(w)', deleted' = deleted, mode' = mode,
         \A d \in Detours : d # work[w].on => state'[d] = state[d],
         \/ r.act = "idle"
         \/ \A v \in Staff : work[v].on # r.on
  PROVE  /\ WorkOK'
         /\ work' \in [Staff -> WorkType]
         /\ \A u, v \in Staff : u # v /\ work'[u].on = work'[v].on => work'[u].act = "idle"
  <1>1. work' \in [Staff -> WorkType] /\ work'[w] = r /\ \A v \in Staff \ {w} : work'[v] = work[v]
    BY DEF DetourTypeOK
  <1>2. ASSUME NEW v \in Staff \ {w} PROVE WorkerOK(v)'
    <2>1. WorkerOK(v) /\ (work[v].on = work[w].on => work[v].act = "idle")
      BY DEF WorkOK, DetourTypeOK
    <2> QED
      BY <1>1, <2>1 DEF WorkerOK, Present
  <1>3. ASSUME NEW u \in Staff, NEW v \in Staff, u # v, work'[u].on = work'[v].on
        PROVE  work'[u].act = "idle"
    <2>1. u # w /\ v # w => work[u].act = "idle"
      BY <1>1, <1>3 DEF DetourTypeOK
    <2>2. r.act = "idle" /\ u # w /\ v = w => work[u].act = "idle"
      BY <1>1, <1>2, <1>3 DEF WorkerOK
    <2> QED
      BY <1>1, <1>3, <2>1, <2>2
  <1> QED
    BY <1>1, <1>2, <1>3 DEF WorkOK

\* Nothing becomes active, opens or moves, and the overrides stay.
LEMMA QuietGuarded ==
  ASSUME Guarded, covered' = covered,
         \A d \in Detours : Active(d)' /\ Open(d)' => Active(d) /\ Open(d) /\ facts'[d] = facts[d],
         \A w \in Staff : work'[w].act = "override" => work'[w] = work[w]
  PROVE  Guarded'
  <1>1. ASSUME NEW d \in Detours, NEW e \in Detours, Guards(d, e) PROVE Guards(d, e)'
    BY <1>1 DEF Guards
  <1> QED
    BY <1>1 DEF Guarded

\* A row without a confirmed build that no act holds is not active.
LEMMA Inactive ==
  ASSUME NEW d \in Detours, d \notin settled, ~Locked(d)
  PROVE  ~Active(d)
  BY DEF Active, Locked

LEMMA SameWorkActive ==
  ASSUME work' = work, NEW d \in Detours, d \in settled' => d \in settled, Active(d)'
  PROVE  Active(d)
  BY DEF Active

-----------------------------------------------------------------------------
LEMMA InitDetour == Init => DetourInv
  <1> SUFFICES ASSUME Init PROVE DetourInv
    OBVIOUS
  <1>1. NoWork \in WorkType /\ NoFeed \in FeedType
    BY DEF NoWork, NoFeed, WorkType, FeedType
  <1>2. \A w \in Staff : work[w].act = "idle" /\ work[w].on = None
    BY DEF Init, NoWork
  <1>3. DetourTypeOK
    BY <1>1, <1>2 DEF Init, DetourTypeOK, States, Modes
  <1>4. WorkOK
    BY <1>2 DEF WorkOK, WorkerOK
  <1>5. FeedOK /\ WrittenOK
    BY DEF Init, FeedOK, WrittenOK, NoFeed
  <1>6. CorrectionStands /\ UnreviewedIsOutstanding /\ Guarded
    BY <1>2 DEF Init, CorrectionStands, UnreviewedIsOutstanding, Guarded, Open, Present, Active
  <1> QED
    BY <1>3, <1>4, <1>5, <1>6 DEF DetourInv, Rows

-----------------------------------------------------------------------------
(* The acts of one step.                                                      *)

LEMMA StartKeeps ==
  ASSUME DetourInv, NEW d \in Detours, NEW m \in Modes, NEW p \in Places, Start(d, m, p)
  PROVE  DetourInv'
  <1> USE NoneApart DEF DetourInv, Rows
  <1>a. ~Locked(d) /\ d \notin settled
    BY DEF Start, Locked, WorkOK, WorkerOK, Present, DetourTypeOK
  <1>1. DetourTypeOK'
    BY DEF Start, DetourTypeOK, StartState, States, Modes
  <1>2. WorkOK'
    BY <1>a, HeldRowsKept DEF Start, DetourTypeOK, Locked
  <1>3. FeedOK' /\ WrittenOK'
    BY DEF Start, DetourTypeOK, FeedOK, WrittenOK, StartState
  <1>4. CorrectionStands'
    BY DEF Start, DetourTypeOK, CorrectionStands
  <1>5. UnreviewedIsOutstanding'
    BY DEF Start, DetourTypeOK, UnreviewedIsOutstanding, Open, Present, WrittenOK
  <1>6. Guarded'
    <2>1. ASSUME NEW e \in Detours, Active(e)', Open(e)'
          PROVE  Active(e) /\ Open(e) /\ facts'[e] = facts[e]
      BY <2>1, <1>a, SameWorkActive, Inactive DEF Start, DetourTypeOK, Open, Present
    <2> QED
      BY <2>1, QuietGuarded DEF Start
  <1> QED
    BY <1>1, <1>2, <1>3, <1>4, <1>5, <1>6

LEMMA RecordAttemptKeeps ==
  ASSUME DetourInv, NEW d \in Detours, NEW next \in {"fulfillment_failed", "awaiting_fulfillment"},
         NEW x \in Externals \cup {None}, RecordAttempt(d, next, x)
  PROVE  DetourInv'
  <1> USE NoneApart DEF DetourInv, Rows
  <1>1. DetourTypeOK'
    BY DEF RecordAttempt, DetourTypeOK, States, Modes, history, Known, FreeFor, Available
  <1>2. WorkOK'
    BY HeldRowsKept DEF RecordAttempt, DetourTypeOK, Available
  <1>3. FeedOK' /\ WrittenOK'
    BY DEF RecordAttempt, DetourTypeOK, FeedOK, WrittenOK, history, Available, Present
  <1>4. CorrectionStands'
    BY DEF RecordAttempt, CorrectionStands, history
  <1>5. UnreviewedIsOutstanding'
    BY DEF RecordAttempt, DetourTypeOK, UnreviewedIsOutstanding, Open, Present, history, Available
  <1>6. Guarded'
    <2>1. ASSUME NEW e \in Detours, Active(e)', Open(e)'
          PROVE  Active(e) /\ Open(e) /\ facts'[e] = facts[e]
      BY <2>1, SameWorkActive DEF RecordAttempt, DetourTypeOK, Open, Present, Available, history
    <2> QED
      BY <2>1, QuietGuarded DEF RecordAttempt
  <1> QED
    BY <1>1, <1>2, <1>3, <1>4, <1>5, <1>6

LEMMA FallBackKeeps ==
  ASSUME DetourInv, NEW d \in Detours, FallBack(d)
  PROVE  DetourInv'
  <1> USE NoneApart DEF DetourInv, Rows
  <1>1. DetourTypeOK'
    BY DEF FallBack, DetourTypeOK, States, Modes, history, record, Available
  <1>2. WorkOK'
    BY HeldRowsKept DEF FallBack, DetourTypeOK, Available, record
  <1>3. FeedOK' /\ WrittenOK'
    BY DEF FallBack, DetourTypeOK, FeedOK, WrittenOK, history, record, Available, Present
  <1>4. CorrectionStands'
    BY DEF FallBack, CorrectionStands, history, record
  <1>5. UnreviewedIsOutstanding'
    BY DEF FallBack, DetourTypeOK, UnreviewedIsOutstanding, Open, Present, history, record, Available
  <1>6. Guarded'
    <2>1. ASSUME NEW e \in Detours, Active(e)', Open(e)'
          PROVE  Active(e) /\ Open(e) /\ facts'[e] = facts[e]
      BY <2>1, SameWorkActive DEF FallBack, DetourTypeOK, Open, Present, Available, history, record
    <2> QED
      BY <2>1, QuietGuarded DEF FallBack
  <1> QED
    BY <1>1, <1>2, <1>3, <1>4, <1>5, <1>6

LEMMA CloseKeeps ==
  ASSUME DetourInv, NEW d \in Detours, Close(d)
  PROVE  DetourInv'
  <1> USE NoneApart DEF DetourInv, Rows
  <1>1. DetourTypeOK'
    BY DEF Close, DetourTypeOK, States, Modes, history, record, Available, Present
  <1>2. WorkOK'
    BY HeldRowsKept DEF Close, DetourTypeOK, Available, record
  <1>3. FeedOK' /\ WrittenOK'
    BY DEF Close, DetourTypeOK, FeedOK, WrittenOK, history, record, Available, Present
  <1>4. CorrectionStands'
    BY DEF Close, CorrectionStands, history, record
  <1>5. UnreviewedIsOutstanding'
    BY DEF Close, DetourTypeOK, UnreviewedIsOutstanding, Open, Present, history, record, Available
  <1>6. Guarded'
    <2>1. ASSUME NEW e \in Detours, Active(e)', Open(e)'
          PROVE  Active(e) /\ Open(e) /\ facts'[e] = facts[e]
      BY <2>1, SameWorkActive DEF Close, DetourTypeOK, Open, Present, Available, history, record
    <2> QED
      BY <2>1, QuietGuarded DEF Close
  <1> QED
    BY <1>1, <1>2, <1>3, <1>4, <1>5, <1>6

LEMMA EditKeeps ==
  ASSUME DetourInv, NEW d \in Detours, NEW p \in Places, Edit(d, p)
  PROVE  DetourInv'
  <1> USE NoneApart DEF DetourInv, Rows
  <1>1. DetourTypeOK'
    BY DEF Edit, DetourTypeOK, workflow, Unsettled
  <1>2. WorkOK'
    BY HeldRowsKept DEF Edit, workflow
  <1>3. FeedOK' /\ WrittenOK'
    BY DEF Edit, DetourTypeOK, FeedOK, FeedType, WrittenOK, workflow, Available, Present
  <1>4. CorrectionStands'
    BY DEF Edit, DetourTypeOK, CorrectionStands
  <1>5. UnreviewedIsOutstanding'
    BY DEF Edit, DetourTypeOK, UnreviewedIsOutstanding, Open, Present, Raises, workflow
  <1>6. Guarded'
    <2>1. ASSUME NEW e \in Detours, Active(e)', Open(e)'
          PROVE  Active(e) /\ Open(e) /\ facts'[e] = facts[e]
      <3>1. Active(e) /\ Open(e)
        BY <2>1, SameWorkActive DEF Edit, Open, Present, Unsettled, workflow
      <3>2. e = d /\ p # facts[d] => ~Active(e)'
        BY DEF Edit, Available, Locked, Active, Unsettled
      <3> QED
        BY <2>1, <3>1, <3>2 DEF Edit, DetourTypeOK
    <2> QED
      BY <2>1, QuietGuarded DEF Edit, workflow
  <1> QED
    BY <1>1, <1>2, <1>3, <1>4, <1>5, <1>6

LEMMA CompleteReviewKeeps ==
  ASSUME DetourInv, NEW d \in Detours, CompleteReview(d)
  PROVE  DetourInv'
  <1> USE NoneApart DEF DetourInv, Rows
  <1>1. DetourTypeOK'
    BY DEF CompleteReview, DetourTypeOK, workflow, record
  <1>2. WorkOK'
    BY HeldRowsKept DEF CompleteReview, workflow, record
  <1>3. FeedOK' /\ WrittenOK'
    BY DEF CompleteReview, FeedOK, WrittenOK, workflow, record
  <1>4. CorrectionStands'
    BY DEF CompleteReview, CorrectionStands, record
  <1>5. UnreviewedIsOutstanding'
    BY DEF CompleteReview, DetourTypeOK, UnreviewedIsOutstanding, Open, Present, workflow, record
  <1>6. Guarded'
    <2>1. ASSUME NEW e \in Detours, Active(e)', Open(e)'
          PROVE  Active(e) /\ Open(e) /\ facts'[e] = facts[e]
      BY <2>1, SameWorkActive DEF CompleteReview, Open, Present, workflow, record
    <2> QED
      BY <2>1, QuietGuarded DEF CompleteReview, workflow
  <1> QED
    BY <1>1, <1>2, <1>3, <1>4, <1>5, <1>6

LEMMA DeleteKeeps ==
  ASSUME DetourInv, NEW d \in Detours, Delete(d)
  PROVE  DetourInv'
  <1> USE NoneApart DEF DetourInv, Rows
  <1>1. DetourTypeOK'
    BY DEF Delete, DetourTypeOK, workflow, history
  <1>2. WorkOK'
    BY HeldRowsKept DEF Delete, Available, workflow
  <1>3. FeedOK' /\ WrittenOK'
    BY DEF Delete, FeedOK, WrittenOK, workflow, history
  <1>4. CorrectionStands'
    BY DEF Delete, CorrectionStands, history
  <1>5. UnreviewedIsOutstanding'
    BY DEF Delete, UnreviewedIsOutstanding, Open, Present, workflow, history
  <1>6. Guarded'
    <2>1. ASSUME NEW e \in Detours, Active(e)', Open(e)'
          PROVE  Active(e) /\ Open(e) /\ facts'[e] = facts[e]
      BY <2>1, SameWorkActive DEF Delete, Open, Present, workflow, history
    <2> QED
      BY <2>1, QuietGuarded DEF Delete, workflow
  <1> QED
    BY <1>1, <1>2, <1>3, <1>4, <1>5, <1>6

-----------------------------------------------------------------------------
(* The acts of two steps.                                                     *)

\* Only the work and the overrides, the builds and the identifiers move: the
\* facts, the reviews and what persons wrote do not.
LEMMA WorkStepKeepsFacts ==
  ASSUME DetourInv, UNCHANGED <<mode, deleted, source, edited, facts, review, written, reviewed, raced, feed>>,
         \A d \in Detours : state'[d] # state[d] => state[d] # "none" /\ state'[d] \notin {"none", "closed"}
                                                 /\ state[d] # "closed"
  PROVE  FeedOK' /\ WrittenOK' /\ CorrectionStands' /\ UnreviewedIsOutstanding'
  <1>1. FeedOK' /\ WrittenOK'
    <2>1. feed.row # None => feed.row \in Detours
      BY DEF DetourInv, Rows, DetourTypeOK, FeedType
    <2> QED
      BY <2>1 DEF DetourInv, Rows, FeedOK, WrittenOK
  <1>2. CorrectionStands' /\ UnreviewedIsOutstanding'
    BY DEF DetourInv, CorrectionStands, UnreviewedIsOutstanding, Open, Present
  <1> QED
    BY <1>1, <1>2

LEMMA DecideEnteredKeeps ==
  ASSUME DetourInv, NEW w \in Staff, NEW d \in Detours, DecideEntered(w, d)
  PROVE  DetourInv'
  <1> DEFINE r == [act |-> "entered", on |-> d, ids |-> {}]
  <1> USE NoneApart DEF DetourInv, Rows
  <1>1. r \in WorkType /\ work' = [work EXCEPT ![w] = r]
    BY DEF WorkType, DecideEntered, Decide
  <1>2. work'[w] = r /\ \A v \in Staff \ {w} : work'[v] = work[v]
    BY <1>1 DEF DetourTypeOK
  <1>3. WorkerOK(w)'
    BY <1>2 DEF WorkerOK, DecideEntered, Decide, Available, Present, workflow, record
  <1>4. \A v \in Staff : work[v].on # r.on
    BY DEF DecideEntered, Decide, Available, Locked
  <1>5. /\ WorkOK'
        /\ work' \in [Staff -> WorkType]
        /\ \A u, v \in Staff : u # v /\ work'[u].on = work'[v].on => work'[u].act = "idle"
    BY <1>1, <1>3, <1>4, OneActMoves DEF DecideEntered, Decide, workflow, record
  <1>6. DetourTypeOK'
    BY <1>5 DEF DecideEntered, Decide, DetourTypeOK, workflow, record, history
  <1>7. FeedOK' /\ WrittenOK' /\ CorrectionStands' /\ UnreviewedIsOutstanding'
    BY WorkStepKeepsFacts DEF DecideEntered, Decide, workflow, record, history
  <1>8. Guarded'
    <2>1. ASSUME NEW a \in Detours, NEW b \in Detours, Guards(a, b) PROVE Guards(a, b)'
      BY <1>2, <2>1 DEF Guards, DecideEntered, Decide, workflow
    <2>2. ASSUME NEW a \in Detours, Active(a)' PROVE Active(a) \/ a = d
      BY <1>2, <2>2 DEF Active, DecideEntered, Decide, history
    <2>3. ASSUME NEW e \in Detours, e # d, Open(d), Open(e), facts[d] = facts[e] PROVE Guards(d, e)
      <3>1. e \in Conflicts(d)
        BY <2>3 DEF Conflicts
      <3>2. e \in covered[d]
        BY <3>1 DEF DecideEntered, Unresolved
      <3> QED
        BY <1>4, <3>2 DEF Guards
    <2>4. ASSUME NEW e \in Detours PROVE (Open(e)' <=> Open(e)) /\ facts'[e] = facts[e]
      BY DEF DecideEntered, Decide, workflow, record, Open, Present
    <2> QED
      BY <2>1, <2>2, <2>3, <2>4 DEF Guarded
  <1> QED
    BY <1>5, <1>6, <1>7, <1>8

LEMMA DecideOverrideKeeps ==
  ASSUME DetourInv, NEW w \in Staff, NEW d \in Detours, DecideOverride(w, d)
  PROVE  DetourInv'
  <1> DEFINE r == [act |-> "override", on |-> d, ids |-> Conflicts(d)]
  <1> USE NoneApart DEF DetourInv, Rows
  <1>1. r \in WorkType /\ work' = [work EXCEPT ![w] = r]
    BY DEF WorkType, DecideOverride, Decide, Conflicts
  <1>2. work'[w] = r /\ \A v \in Staff \ {w} : work'[v] = work[v]
    BY <1>1 DEF DetourTypeOK
  <1>3. WorkerOK(w)'
    BY <1>2 DEF WorkerOK, DecideOverride, Decide, Available, Present, workflow, record
  <1>4. \A v \in Staff : work[v].on # r.on
    BY DEF DecideOverride, Decide, Available, Locked
  <1>5. /\ WorkOK'
        /\ work' \in [Staff -> WorkType]
        /\ \A u, v \in Staff : u # v /\ work'[u].on = work'[v].on => work'[u].act = "idle"
    BY <1>1, <1>3, <1>4, OneActMoves DEF DecideOverride, Decide, workflow, record
  <1>6. DetourTypeOK'
    BY <1>5 DEF DecideOverride, Decide, DetourTypeOK, workflow, record, history
  <1>7. FeedOK' /\ WrittenOK' /\ CorrectionStands' /\ UnreviewedIsOutstanding'
    BY WorkStepKeepsFacts DEF DecideOverride, Decide, workflow, record, history
  <1>8. Guarded'
    <2>1. ASSUME NEW a \in Detours, NEW b \in Detours, a # b, Open(a), Open(b),
                 facts[a] = facts[b], Guards(a, b)
          PROVE  Guards(a, b)'
      <3>1. a = d => b \in r.ids
        BY <2>1 DEF Conflicts
      <3> QED
        BY <1>2, <2>1, <3>1 DEF Guards, DecideOverride, Decide, workflow
    <2>2. ASSUME NEW a \in Detours, Active(a)' PROVE Active(a)
      BY <1>2, <2>2 DEF Active, DecideOverride, Decide, history
    <2>3. ASSUME NEW e \in Detours PROVE (Open(e)' <=> Open(e)) /\ facts'[e] = facts[e]
      BY DEF DecideOverride, Decide, workflow, record, Open, Present
    <2> QED
      BY <2>1, <2>2, <2>3 DEF Guarded
  <1> QED
    BY <1>5, <1>6, <1>7, <1>8

LEMMA CommitEnteredKeeps ==
  ASSUME DetourInv, NEW w \in Staff, NEW x \in Externals \cup {None}, CommitEntered(w, x)
  PROVE  DetourInv'
  <1> DEFINE d == work[w].on
  <1> USE NoneApart DEF DetourInv, Rows
  <1>1. /\ d \in Detours /\ Present(d) /\ mode[d] = "avail"
        /\ state[d] \in {"awaiting_fulfillment", "fulfillment_failed"}
    BY DEF CommitEntered, WorkOK, WorkerOK
  <1>2. NoWork \in WorkType /\ NoWork.act = "idle" /\ NoWork.on = None
    BY DEF NoWork, WorkType
  <1>3. work'[w] = NoWork /\ \A v \in Staff \ {w} : work'[v] = work[v]
    BY DEF CommitEntered, DetourTypeOK
  <1>4. WorkerOK(w)'
    BY <1>2, <1>3 DEF WorkerOK
  <1>5. /\ WorkOK'
        /\ work' \in [Staff -> WorkType]
        /\ \A u, v \in Staff : u # v /\ work'[u].on = work'[v].on => work'[u].act = "idle"
    BY <1>2, <1>4, OneActMoves DEF CommitEntered, DetourTypeOK
  <1>6. DetourTypeOK'
    BY <1>1, <1>5 DEF CommitEntered, DetourTypeOK, States, Known, FreeFor
  <1>7. FeedOK' /\ WrittenOK' /\ CorrectionStands' /\ UnreviewedIsOutstanding'
    BY <1>1, WorkStepKeepsFacts DEF CommitEntered, DetourTypeOK
  <1>8. Guarded'
    <2>1. ASSUME NEW e \in Detours, Active(e)', Open(e)'
          PROVE  Active(e) /\ Open(e) /\ facts'[e] = facts[e]
      <3>1. Active(d) /\ Open(d)
        BY <1>1 DEF Active, CommitEntered, Open
      <3>2. e # d => Active(e)
        BY <1>3, <1>2, <2>1 DEF Active, CommitEntered
      <3>3. e # d => Open(e)
        BY <1>1, <2>1 DEF Open, Present, CommitEntered, DetourTypeOK
      <3> QED
        BY <3>1, <3>2, <3>3 DEF CommitEntered
    <2> QED
      BY <1>2, <1>3, <2>1, QuietGuarded DEF CommitEntered
  <1> QED
    BY <1>5, <1>6, <1>7, <1>8

LEMMA CommitOverrideKeeps ==
  ASSUME DetourInv, NEW w \in Staff, CommitOverride(w)
  PROVE  DetourInv'
  <1> DEFINE d == work[w].on
  <1> USE NoneApart DEF DetourInv, Rows
  <1>1. d \in Detours /\ work[w].ids \in SUBSET Detours
    BY DEF CommitOverride, WorkOK, WorkerOK, DetourTypeOK, WorkType
  <1>2. NoWork \in WorkType /\ NoWork.act = "idle" /\ NoWork.on = None
    BY DEF NoWork, WorkType
  <1>3. work'[w] = NoWork /\ \A v \in Staff \ {w} : work'[v] = work[v]
    BY DEF CommitOverride, DetourTypeOK
  <1>4. WorkerOK(w)'
    BY <1>2, <1>3 DEF WorkerOK
  <1>5. /\ WorkOK'
        /\ work' \in [Staff -> WorkType]
        /\ \A u, v \in Staff : u # v /\ work'[u].on = work'[v].on => work'[u].act = "idle"
    BY <1>2, <1>4, OneActMoves DEF CommitOverride, record
  <1>6. DetourTypeOK'
    BY <1>1, <1>5 DEF CommitOverride, DetourTypeOK, record, history
  <1>7. FeedOK' /\ WrittenOK' /\ CorrectionStands' /\ UnreviewedIsOutstanding'
    BY WorkStepKeepsFacts DEF CommitOverride, record, history
  <1>8. Guarded'
    <2>1. ASSUME NEW a \in Detours, NEW b \in Detours, Guards(a, b) PROVE Guards(a, b)'
      <3>1. a = d => b \in work[w].ids
        BY <2>1 DEF Guards, CommitOverride
      <3>2. b \in covered'[a]
        BY <1>1, <2>1, <3>1 DEF Guards, CommitOverride, DetourTypeOK
      <3> QED
        BY <1>2, <1>3, <2>1, <3>2 DEF Guards
    <2>2. ASSUME NEW a \in Detours, Active(a)' PROVE Active(a)
      BY <1>2, <1>3, <2>2 DEF Active, CommitOverride, history
    <2>3. ASSUME NEW e \in Detours PROVE (Open(e)' <=> Open(e)) /\ facts'[e] = facts[e]
      BY DEF CommitOverride, record, Open, Present
    <2> QED
      BY <2>1, <2>2, <2>3 DEF Guarded
  <1> QED
    BY <1>5, <1>6, <1>7, <1>8

LEMMA RollbackKeeps ==
  ASSUME DetourInv, NEW w \in Staff, Rollback(w)
  PROVE  DetourInv'
  <1> USE NoneApart DEF DetourInv, Rows
  <1>1. NoWork \in WorkType /\ NoWork.act = "idle" /\ NoWork.on = None
    BY DEF NoWork, WorkType
  <1>2. work'[w] = NoWork /\ \A v \in Staff \ {w} : work'[v] = work[v]
    BY DEF Rollback, DetourTypeOK
  <1>3. WorkerOK(w)'
    BY <1>1, <1>2 DEF WorkerOK
  <1>4. /\ WorkOK'
        /\ work' \in [Staff -> WorkType]
        /\ \A u, v \in Staff : u # v /\ work'[u].on = work'[v].on => work'[u].act = "idle"
    BY <1>1, <1>3, OneActMoves DEF Rollback, workflow, record
  <1>5. DetourTypeOK'
    BY <1>4 DEF Rollback, DetourTypeOK, workflow, record, history
  <1>6. FeedOK' /\ WrittenOK' /\ CorrectionStands' /\ UnreviewedIsOutstanding'
    BY WorkStepKeepsFacts DEF Rollback, workflow, record, history
  <1>7. Guarded'
    <2>1. ASSUME NEW e \in Detours, Active(e)', Open(e)'
          PROVE  Active(e) /\ Open(e) /\ facts'[e] = facts[e]
      BY <1>1, <1>2, <2>1 DEF Active, Open, Present, Rollback, workflow, record, history
    <2> QED
      BY <1>1, <1>2, <2>1, QuietGuarded DEF Rollback, workflow
  <1> QED
    BY <1>4, <1>5, <1>6, <1>7

-----------------------------------------------------------------------------
(* The synchronisation.                                                       *)

LEMMA LookupKeeps ==
  ASSUME DetourInv, NEW x \in Externals, NEW p \in Places, Lookup(x, p)
  PROVE  DetourInv'
  <1> USE NoneApart DEF DetourInv, Rows
  <1>1. feed' \in FeedType /\ FeedOK'
    <2>1. CASE \E d \in Detours :
             /\ Present(d) /\ external[d] = x
             /\ feed' = [stage |-> "looked", id |-> x, row |-> d, keep |-> Preserved(d), place |-> p]
      <3>1. PICK d \in Detours :
              /\ Present(d)
              /\ feed' = [stage |-> "looked", id |-> x, row |-> d, keep |-> Preserved(d), place |-> p]
        BY <2>1
      <3>2. Preserved(d) \in BOOLEAN
        BY DEF Preserved
      <3>3. /\ feed'.stage = "looked" /\ feed'.id = x /\ feed'.row = d
            /\ feed'.keep = Preserved(d) /\ feed'.place = p
        BY <3>1
      <3>4. feed' \in FeedType
        BY <3>1, <3>2 DEF FeedType
      <3>5. ~Preserved(d) => source[d] = "avail" /\ written[d] = None
        BY DEF Preserved, WrittenOK, DetourTypeOK
      <3> QED
        BY <3>1, <3>3, <3>4, <3>5 DEF FeedOK, Lookup, workflow, record, history, Present
    <2>2. CASE feed' = [stage |-> "looked", id |-> x, row |-> None, keep |-> FALSE, place |-> p]
      BY <2>2 DEF FeedType, FeedOK
    <2> QED
      BY <2>1, <2>2 DEF Lookup
  <1>2. DetourTypeOK'
    BY <1>1 DEF Lookup, DetourTypeOK, workflow, record, history
  <1>3. WorkOK'
    BY HeldRowsKept DEF Lookup, workflow, record
  <1>4. WrittenOK' /\ CorrectionStands' /\ UnreviewedIsOutstanding'
    BY DEF Lookup, WrittenOK, CorrectionStands, UnreviewedIsOutstanding, Open, Present,
           workflow, record, history
  <1>5. Guarded'
    <2>1. ASSUME NEW e \in Detours, Active(e)', Open(e)'
          PROVE  Active(e) /\ Open(e) /\ facts'[e] = facts[e]
      BY <2>1, SameWorkActive DEF Lookup, Open, Present, workflow, record, history
    <2> QED
      BY <2>1, QuietGuarded DEF Lookup, workflow
  <1> QED
    BY <1>1, <1>2, <1>3, <1>4, <1>5

LEMMA NoFeedOK == NoFeed \in FeedType /\ (feed' = NoFeed => FeedOK')
  BY DEF NoFeed, FeedType, FeedOK

LEMMA ApplyNewKeeps ==
  ASSUME DetourInv, NEW d \in Detours, ApplyNew(d)
  PROVE  DetourInv'
  <1> USE NoneApart DEF DetourInv, Rows
  <1>1. ~Locked(d) /\ d \notin settled
    BY DEF ApplyNew, Locked, WorkOK, WorkerOK, Present, DetourTypeOK
  <1>2. feed.place \in Places /\ feed.id \in Externals \cup {None}
    BY DEF ApplyNew, FeedOK, DetourTypeOK, FeedType
  <1>3. DetourTypeOK'
    BY <1>2, NoFeedOK DEF ApplyNew, DetourTypeOK, States, Modes, history, FreeFor
  <1>4. WorkOK'
    BY <1>1, HeldRowsKept DEF ApplyNew, DetourTypeOK
  <1>5. FeedOK' /\ WrittenOK'
    BY NoFeedOK DEF ApplyNew, DetourTypeOK, WrittenOK, history
  <1>6. CorrectionStands' /\ UnreviewedIsOutstanding'
    BY DEF ApplyNew, DetourTypeOK, WrittenOK, CorrectionStands, UnreviewedIsOutstanding,
           Open, Present, history
  <1>7. Guarded'
    <2>1. ASSUME NEW e \in Detours, Active(e)', Open(e)'
          PROVE  Active(e) /\ Open(e) /\ facts'[e] = facts[e]
      BY <2>1, <1>1, SameWorkActive, Inactive DEF ApplyNew, DetourTypeOK, Open, Present, history
    <2> QED
      BY <2>1, QuietGuarded DEF ApplyNew
  <1> QED
    BY <1>3, <1>4, <1>5, <1>6, <1>7

LEMMA ApplyRefreshKeeps ==
  ASSUME DetourInv, ApplyRefresh
  PROVE  DetourInv'
  <1> DEFINE d == feed.row
  <1> USE NoneApart DEF DetourInv, Rows
  <1>1. d \in Detours /\ feed.place \in Places
    BY DEF ApplyRefresh, FeedOK, DetourTypeOK, FeedType
  <1>2. source[d] = "avail" /\ (written[d] = None \/ d \in raced)
    BY DEF ApplyRefresh, FeedOK
  <1>3. DetourTypeOK'
    BY <1>1, NoFeedOK DEF ApplyRefresh, DetourTypeOK, Unsettled, workflow
  <1>4. WorkOK'
    BY HeldRowsKept DEF ApplyRefresh, workflow
  <1>5. FeedOK' /\ WrittenOK'
    BY NoFeedOK DEF ApplyRefresh, WrittenOK, workflow
  <1>6. CorrectionStands' /\ UnreviewedIsOutstanding'
    BY <1>1, <1>2 DEF ApplyRefresh, DetourTypeOK, CorrectionStands, UnreviewedIsOutstanding,
           Open, Present, workflow
  <1>7. Guarded'
    <2>1. ASSUME NEW e \in Detours, Active(e)', Open(e)'
          PROVE  Active(e) /\ Open(e) /\ facts'[e] = facts[e]
      <3>1. Active(e) /\ Open(e)
        BY <2>1, SameWorkActive DEF ApplyRefresh, Open, Present, Unsettled, workflow
      <3>2. e = d /\ feed.place # facts[d] => ~Active(e)'
        BY <1>1 DEF ApplyRefresh, Available, Locked, Active, Unsettled
      <3> QED
        BY <1>1, <2>1, <3>1, <3>2 DEF ApplyRefresh, DetourTypeOK
    <2> QED
      BY <2>1, QuietGuarded DEF ApplyRefresh, workflow
  <1> QED
    BY <1>3, <1>4, <1>5, <1>6, <1>7

LEMMA QuietStepKeeps ==
  ASSUME DetourInv, UNCHANGED <<workflow, record, review, history, work>>,
         feed' = feed \/ feed' = NoFeed
  PROVE  DetourInv'
  <1> USE DEF DetourInv, Rows, workflow, record, history
  <1>1. DetourTypeOK'
    BY NoFeedOK DEF DetourTypeOK
  <1>2. WorkOK' /\ WrittenOK' /\ CorrectionStands' /\ UnreviewedIsOutstanding'
    BY DEF WorkOK, WorkerOK, WrittenOK, CorrectionStands, UnreviewedIsOutstanding, Open, Present
  <1>3. FeedOK'
    BY NoFeedOK DEF FeedOK
  <1>4. Guarded'
    BY DEF Guarded, Guards, Active, Open, Present
  <1> QED
    BY <1>1, <1>2, <1>3, <1>4

-----------------------------------------------------------------------------
(* The invariant, and what follows from it.                                   *)

LEMMA NextDetour == DetourInv /\ [Next]_vars => DetourInv'
  <1> SUFFICES ASSUME DetourInv, [Next]_vars PROVE DetourInv'
    OBVIOUS
  <1>1. CASE OneStepAct
    BY <1>1, StartKeeps, RecordAttemptKeeps, FallBackKeeps, CloseKeeps, EditKeeps,
       CompleteReviewKeeps, DeleteKeeps DEF OneStepAct
  <1>2. CASE TwoStepAct
    BY <1>2, DecideEnteredKeeps, DecideOverrideKeeps, CommitEnteredKeeps, CommitOverrideKeeps,
       RollbackKeeps DEF TwoStepAct
  <1>3. CASE Sync
    <2>1. CASE ApplyNothing
      BY <2>1, QuietStepKeeps DEF ApplyNothing
    <2> QED
      BY <1>3, <2>1, LookupKeeps, ApplyNewKeeps, ApplyRefreshKeeps DEF Sync
  <1>4. CASE UNCHANGED vars
    BY <1>4, QuietStepKeeps DEF vars
  <1> QED
    BY <1>1, <1>2, <1>3, <1>4 DEF Next

LEMMA DetourInvariant == Spec => []DetourInv
  BY InitDetour, NextDetour, PTL DEF Spec

\* Modes, states, confirmed builds and identifiers of Avail agree, and a row is
\* held by one act at a time (decide.ts, migration-017, lockAndLoad).
THEOREM DetourTypeCorrect == Spec => []DetourTypeOK
  <1>1. DetourInv => DetourTypeOK
    BY DEF DetourInv, Rows
  <1> QED
    BY <1>1, DetourInvariant, PTL

\* Two confirmations, or a confirmation and an edit, never both miss the
\* overlap between their Detours, however many are at work.
THEOREM OverlapsAreOverridden == Spec => []ConfirmedOverlapIsOverridden
  <1>1. DetourInv => ConfirmedOverlapIsOverridden
    BY DEF DetourInv, Rows, DetourTypeOK, Guarded, Guards, Active, ConfirmedOverlapIsOverridden
  <1> QED
    BY <1>1, DetourInvariant, PTL

\* A person's facts are overwritten only by a synchronisation that had looked
\* the row up before they were written.
THEOREM CorrectionsStand == Spec => []CorrectionStands
  <1>1. DetourInv => CorrectionStands
    BY DEF DetourInv
  <1> QED
    BY <1>1, DetourInvariant, PTL

\* A Detour of OnBoard whose review is current has the facts that were reviewed.
THEOREM UnreviewedStaysOutstanding == Spec => []UnreviewedIsOutstanding
  <1>1. DetourInv => UnreviewedIsOutstanding
    BY DEF DetourInv
  <1> QED
    BY <1>1, DetourInvariant, PTL

\* An act decided before a Detour was closed does not write on it afterwards.
THEOREM ClosedDetoursStay == Spec => ClosedStays
  <1> DEFINE Stays == \A d \in Detours : state[d] = "closed" =>
                        /\ state'[d] = "closed" /\ mode'[d] = mode[d] /\ covered'[d] = covered[d]
                        /\ d \in confirmed' <=> d \in confirmed
  <1>1. DetourInv /\ [Next]_vars => Stays
    <2> SUFFICES ASSUME DetourInv, [Next]_vars, NEW d \in Detours, state[d] = "closed"
                 PROVE  /\ state'[d] = "closed" /\ mode'[d] = mode[d] /\ covered'[d] = covered[d]
                        /\ d \in confirmed' <=> d \in confirmed
      OBVIOUS
    <2> USE DEF DetourInv, Rows, DetourTypeOK
    <2>1. CASE OneStepAct
      BY <2>1 DEF OneStepAct, Start, RecordAttempt, FallBack, Close, Edit, CompleteReview, Delete,
                  workflow
    <2>2. CASE TwoStepAct
      <3>1. ASSUME NEW w \in Staff, work[w].act # "idle" PROVE work[w].on # d
        BY <3>1 DEF WorkOK, WorkerOK
      <3> QED
        BY <2>2, <3>1 DEF TwoStepAct, DecideEntered, DecideOverride, Decide, CommitEntered,
                          CommitOverride, Rollback, workflow
    <2>3. CASE Sync
      BY <2>3 DEF Sync, Lookup, ApplyNew, ApplyRefresh, ApplyNothing, workflow
    <2>4. CASE UNCHANGED vars
      BY <2>4 DEF vars, workflow
    <2> QED
      BY <2>1, <2>2, <2>3, <2>4 DEF Next
  <1>2. Spec => [][Stays]_vars
    BY <1>1, DetourInvariant, PTL DEF Spec
  <1> QED
    BY <1>2 DEF ClosedStays

-----------------------------------------------------------------------------
(* Reported detours: the inductive invariant.                                 *)

Blind   == {"creating", "updating"}
Promote == {"promoting", "copied"}

\* A request works on an intake that is in the table, and one that will write a
\* report has one. What is copied has no Detour yet.
TaskOK(w) ==
  task[w].act # "idle" =>
    /\ task[w].on \in Intakes /\ standing[task[w].on] # "none"
    /\ task[w].act \in Blind \cup Promote => task[w].read \in Reports
    /\ task[w].act = "copied" => detour[task[w].on] = NoDetour

\* Unless it was overtaken, a promotion has read what the intake says.
ReadOK(w) ==
  /\ task[w].act \in Promote /\ task[w].on \notin overtaken =>
       task[w].read = report[task[w].on]
  /\ task[w].act = "copied" /\ task[w].on \notin overtaken =>
       task[w].routes = routes[task[w].on]

\* The identifier of a Detour is used once.
OneCopy ==
  \A v, w \in Requests :
    task[v].act = "copied" /\ task[w].act = "copied" /\ task[v].on = task[w].on => v = w

\* A decision that was not hasty stands, and nothing is under way that would undo it.
DecidedOK(i) ==
  decided[i] # Nothing /\ i \notin hasty =>
    /\ standing[i] = decided[i]
    /\ \A w \in Requests : task[w].on = i =>
         /\ task[w].act \notin Blind
         /\ task[w].act \in Promote => decided[i] = "accepted"

\* The Detour says what the intake says, but for the dates that were given.
DetourOK(i) ==
  decided[i] = "accepted" /\ i \notin hasty \cup overtaken =>
    /\ detour[i].facts = report[i].facts /\ detour[i].routes = routes[i]
    /\ \A c \in DateColumns :
         detour[i].dates[c] = IF gave[i][c] = Nothing THEN report[i].dates[c] ELSE gave[i][c]

LEMMA UndatedIsDated == Undated \in Dated
BY DEF Undated, Dated

LEMMA ReportFields ==
  ASSUME NEW r \in Reports
  PROVE  r.facts \in Facts /\ r.dates \in Dated
BY ReportsAreReports

IntakeInv ==
  /\ IntakeTypeOK
  /\ \A w \in Requests : TaskOK(w) /\ ReadOK(w)
  /\ OneCopy
  /\ \A i \in Intakes : DecidedOK(i) /\ DetourOK(i)

LEMMA IntakeInitInv == IntakeInit => IntakeInv
BY NothingIsReported, UndatedIsDated DEF IntakeInit, IntakeInv, IntakeTypeOK, TaskType, NoTask, NoDetour, TaskOK, ReadOK, OneCopy,
   DecidedOK, DetourOK, Blind, Promote, OpenStatuses, Terminal

LEMMA InsertRowKeeps ==
  ASSUME IntakeInv, NEW w \in Requests, NEW i \in Intakes, NEW r \in Reports, InsertRow(w, i, r)
  PROVE  IntakeInv'
<1> USE NothingIsReported, UndatedIsDated DEF InsertRow, BeginTask, Blind, Promote
<1>1. IntakeTypeOK'
  BY DEF IntakeInv, IntakeTypeOK, TaskType, OpenStatuses, Terminal
<1>2. ASSUME NEW v \in Requests PROVE TaskOK(v)' /\ ReadOK(v)'
  BY DEF IntakeInv, IntakeTypeOK, TaskOK, ReadOK
<1>3. OneCopy'
  BY DEF IntakeInv, IntakeTypeOK, OneCopy
<1>4. ASSUME NEW j \in Intakes PROVE DecidedOK(j)' /\ DetourOK(j)'
  BY DEF IntakeInv, IntakeTypeOK, DecidedOK, DetourOK, Terminal
<1> QED
  BY <1>1, <1>2, <1>3, <1>4 DEF IntakeInv

LEMMA InsertSegmentsKeeps ==
  ASSUME IntakeInv, NEW w \in Requests, InsertSegments(w)
  PROVE  IntakeInv'
<1> USE NothingIsReported, UndatedIsDated DEF InsertSegments, Overtake, EndTask, NoTask, Blind, Promote
<1>1. IntakeTypeOK'
  BY ReportFields DEF IntakeInv, IntakeTypeOK, TaskType, OpenStatuses, Terminal, TaskOK
<1>2. ASSUME NEW v \in Requests PROVE TaskOK(v)' /\ ReadOK(v)'
  BY DEF IntakeInv, IntakeTypeOK, TaskOK, ReadOK, OpenStatuses, Terminal
<1>3. OneCopy'
  BY DEF IntakeInv, IntakeTypeOK, OneCopy
<1>4. ASSUME NEW j \in Intakes PROVE DecidedOK(j)' /\ DetourOK(j)'
  BY DEF IntakeInv, IntakeTypeOK, DecidedOK, DetourOK, OpenStatuses, Terminal, TaskOK
<1> QED
  BY <1>1, <1>2, <1>3, <1>4 DEF IntakeInv

LEMMA ReadForReviewKeeps ==
  ASSUME IntakeInv, NEW w \in Requests, NEW i \in Intakes, ReadForReview(w, i)
  PROVE  IntakeInv'
<1> USE NothingIsReported, UndatedIsDated DEF ReadForReview, BeginTask, intake, Blind, Promote
<1>1. IntakeTypeOK'
  BY DEF IntakeInv, IntakeTypeOK, TaskType, OpenStatuses, Terminal, TaskOK
<1>2. ASSUME NEW v \in Requests PROVE TaskOK(v)' /\ ReadOK(v)'
  BY DEF IntakeInv, IntakeTypeOK, TaskOK, ReadOK, OpenStatuses, Terminal
<1>3. OneCopy'
  BY DEF IntakeInv, IntakeTypeOK, OneCopy
<1>4. ASSUME NEW j \in Intakes PROVE DecidedOK(j)' /\ DetourOK(j)'
  BY DEF IntakeInv, IntakeTypeOK, DecidedOK, DetourOK, OpenStatuses, Terminal, TaskOK
<1> QED
  BY <1>1, <1>2, <1>3, <1>4 DEF IntakeInv

LEMMA ReviewKeeps ==
  ASSUME IntakeInv, NEW w \in Requests, NEW st \in Outcomes, Review(w, st)
  PROVE  IntakeInv'
<1> USE NothingIsReported, UndatedIsDated DEF Review, DecideTo, WritesBlindly, EndTask, NoTask, Reviewable, Outcomes, OpenStatuses, Terminal, Blind, Promote
<1>1. IntakeTypeOK'
  <2> DEFINE i == task[w].on
  <2>1. IntakeTypeOK /\ i \in Intakes /\ standing[i] \in OpenStatuses
    BY DEF IntakeInv, IntakeTypeOK, TaskType, TaskOK
  <2>2. task' \in [Requests -> TaskType]
    BY <2>1 DEF IntakeTypeOK, TaskType
  <2>3. /\ standing' \in [Intakes -> {"none"} \cup OpenStatuses \cup Terminal]
        /\ decided' \in [Intakes -> Terminal \cup {Nothing}]
        /\ hasty' \subseteq Intakes
    BY <2>1 DEF IntakeTypeOK
  <2>4. UNCHANGED <<report, routes, detour, gave, overtaken>>
    OBVIOUS
  <2>5. ASSUME NEW j \in Intakes
        PROVE  /\ standing'[j] = "none" <=> standing[j] = "none"
               /\ standing'[j] = "none" => decided'[j] = decided[j]
               /\ standing'[j] = "accepted" => standing[j] = "accepted"
    BY <2>1, <2>5 DEF IntakeTypeOK
  <2> QED
    BY <2>1, <2>2, <2>3, <2>4, <2>5 DEF IntakeTypeOK
<1>2. ASSUME NEW v \in Requests PROVE TaskOK(v)' /\ ReadOK(v)'
  BY DEF IntakeInv, IntakeTypeOK, TaskOK, ReadOK, OpenStatuses, Terminal
<1>3. OneCopy'
  BY DEF IntakeInv, IntakeTypeOK, OneCopy
<1>4. ASSUME NEW j \in Intakes PROVE DecidedOK(j)' /\ DetourOK(j)'
  BY DEF IntakeInv, IntakeTypeOK, DecidedOK, DetourOK, OpenStatuses, Terminal, TaskOK
<1> QED
  BY <1>1, <1>2, <1>3, <1>4 DEF IntakeInv

LEMMA ReadForUpdateKeeps ==
  ASSUME IntakeInv, NEW w \in Requests, NEW i \in Intakes, NEW r \in Reports, ReadForUpdate(w, i, r)
  PROVE  IntakeInv'
<1> USE NothingIsReported, UndatedIsDated DEF ReadForUpdate, BeginTask, Updatable, intake, Blind, Promote
<1>1. IntakeTypeOK'
  BY DEF IntakeInv, IntakeTypeOK, TaskType, OpenStatuses, Terminal, TaskOK
<1>2. ASSUME NEW v \in Requests PROVE TaskOK(v)' /\ ReadOK(v)'
  BY DEF IntakeInv, IntakeTypeOK, TaskOK, ReadOK, OpenStatuses, Terminal
<1>3. OneCopy'
  BY DEF IntakeInv, IntakeTypeOK, OneCopy
<1>4. ASSUME NEW j \in Intakes PROVE DecidedOK(j)' /\ DetourOK(j)'
  BY DEF IntakeInv, IntakeTypeOK, DecidedOK, DetourOK, OpenStatuses, Terminal, TaskOK
<1> QED
  BY <1>1, <1>2, <1>3, <1>4 DEF IntakeInv

LEMMA UpdateKeeps ==
  ASSUME IntakeInv, NEW w \in Requests, Update(w)
  PROVE  IntakeInv'
<1> USE NothingIsReported, UndatedIsDated DEF Update, Overtake, EndTask, NoTask, Blind, Promote
<1>1. IntakeTypeOK'
  BY ReportFields DEF IntakeInv, IntakeTypeOK, TaskType, OpenStatuses, Terminal, TaskOK
<1>2. ASSUME NEW v \in Requests PROVE TaskOK(v)' /\ ReadOK(v)'
  BY DEF IntakeInv, IntakeTypeOK, TaskOK, ReadOK, OpenStatuses, Terminal
<1>3. OneCopy'
  BY DEF IntakeInv, IntakeTypeOK, OneCopy
<1>4. ASSUME NEW j \in Intakes PROVE DecidedOK(j)' /\ DetourOK(j)'
  BY DEF IntakeInv, IntakeTypeOK, DecidedOK, DetourOK, OpenStatuses, Terminal, TaskOK
<1> QED
  BY <1>1, <1>2, <1>3, <1>4 DEF IntakeInv

LEMMA ReadForPromotionKeeps ==
  ASSUME IntakeInv, NEW w \in Requests, NEW i \in Intakes, NEW given \in Dated,
         ReadForPromotion(w, i, given)
  PROVE  IntakeInv'
<1> USE NothingIsReported DEF ReadForPromotion, BeginTask, intake, Blind, Promote
<1>1. IntakeTypeOK'
  BY DEF IntakeInv, IntakeTypeOK, TaskType, OpenStatuses, Terminal, TaskOK
<1>2. ASSUME NEW v \in Requests PROVE TaskOK(v)' /\ ReadOK(v)'
  BY DEF IntakeInv, IntakeTypeOK, TaskOK, ReadOK, OpenStatuses, Terminal
<1>3. OneCopy'
  BY DEF IntakeInv, IntakeTypeOK, OneCopy
<1>4. ASSUME NEW j \in Intakes PROVE DecidedOK(j)' /\ DetourOK(j)'
  BY DEF IntakeInv, IntakeTypeOK, DecidedOK, DetourOK, OpenStatuses, Terminal, TaskOK
<1> QED
  BY <1>1, <1>2, <1>3, <1>4 DEF IntakeInv

LEMMA CopyKeeps ==
  ASSUME IntakeInv, NEW w \in Requests, Copy(w)
  PROVE  IntakeInv'
<1> USE NothingIsReported DEF Copy, intake, Blind, Promote
<1>1. IntakeTypeOK'
  <2>1. task[w] \in TaskType /\ task[w].on \in Intakes /\ routes[task[w].on] \in Facts \cup {Nothing}
    BY DEF IntakeInv, IntakeTypeOK, TaskOK
  <2>2. [task[w] EXCEPT !.act = "copied", !.routes = routes[task[w].on]] \in TaskType
    BY <2>1 DEF TaskType
  <2>3. task' \in [Requests -> TaskType]
    <3>1. task' = [task EXCEPT ![w] = [task[w] EXCEPT !.act = "copied", !.routes = routes[task[w].on]]]
      BY DEF IntakeInv, IntakeTypeOK
    <3> QED
      BY <2>2, <3>1 DEF IntakeInv, IntakeTypeOK
  <2> QED
    BY <2>3 DEF IntakeInv, IntakeTypeOK
<1>2. ASSUME NEW v \in Requests PROVE TaskOK(v)' /\ ReadOK(v)'
  BY DEF IntakeInv, IntakeTypeOK, TaskOK, ReadOK, OpenStatuses, Terminal
<1>3. OneCopy'
  BY DEF IntakeInv, IntakeTypeOK, OneCopy
<1>4. ASSUME NEW j \in Intakes PROVE DecidedOK(j)' /\ DetourOK(j)'
  BY DEF IntakeInv, IntakeTypeOK, DecidedOK, DetourOK, OpenStatuses, Terminal, TaskOK
<1> QED
  BY <1>1, <1>2, <1>3, <1>4 DEF IntakeInv

LEMMA AcceptKeeps ==
  ASSUME IntakeInv, NEW w \in Requests, Accept(w)
  PROVE  IntakeInv'
<1> DEFINE i  == task[w].on
           mk == MadeOf(task[w])
<1> USE NothingIsReported DEF Blind, Promote
<1>0. /\ i \in Intakes /\ task[w].act = "copied" /\ task[w].read \in Reports
      /\ task[w].routes \in Facts \cup {Nothing} /\ task[w].given \in Dated
      /\ detour[i] = NoDetour /\ standing[i] # "none" /\ standing[i] # "accepted"
      /\ report[i] # Nothing
  BY DEF Accept, IntakeInv, TaskOK, IntakeTypeOK, TaskType, NoDetour
<1>01. task[w].read.facts \in Facts /\ task[w].read.dates \in Dated
  BY <1>0, ReportFields
<1>02. /\ mk.facts = task[w].read.facts /\ mk.routes = task[w].routes
       /\ \A c \in DateColumns :
            mk.dates[c] = IF task[w].given[c] # Nothing THEN task[w].given[c]
                                                        ELSE task[w].read.dates[c]
  BY DEF MadeOf
<1>03. mk.facts # Nothing /\ mk # NoDetour
  BY <1>01, <1>02 DEF NoDetour
<1>1. decided[i] = Nothing \/ i \in hasty
  BY <1>0 DEF IntakeInv, DecidedOK, IntakeTypeOK
<1>2. /\ standing' = [standing EXCEPT ![i] = "accepted"]
      /\ detour' = [detour EXCEPT ![i] = mk]
      /\ gave' = [gave EXCEPT ![i] = task[w].given]
      /\ decided' = [decided EXCEPT ![i] = IF @ = Nothing THEN "accepted" ELSE @]
      /\ hasty' = IF WritesBlindly(w, i, "accepted") THEN hasty \cup {i} ELSE hasty
      /\ task' = [task EXCEPT ![w] = NoTask]
      /\ UNCHANGED <<report, routes, overtaken>>
  BY DEF Accept, DecideTo, EndTask, Terminal
<1> HIDE DEF i, mk
<1>3. mk \in [facts : Facts \cup {Nothing}, dates : Dated, routes : Facts \cup {Nothing}]
  BY <1>0, <1>01 DEF mk, MadeOf, Dated
<1>4. IntakeTypeOK'
  <2>1. NoTask \in TaskType
    BY UndatedIsDated DEF NoTask, TaskType
  <2>2. /\ standing' \in [Intakes -> {"none"} \cup OpenStatuses \cup Terminal]
        /\ report' \in [Intakes -> Reports \cup {Nothing}]
        /\ routes' \in [Intakes -> Facts \cup {Nothing}]
        /\ gave' \in [Intakes -> Dated]
        /\ decided' \in [Intakes -> Terminal \cup {Nothing}]
        /\ hasty' \subseteq Intakes /\ overtaken' \subseteq Intakes
    BY <1>0, <1>2 DEF IntakeInv, IntakeTypeOK, Terminal
  <2>3. detour' \in [Intakes -> [facts : Facts \cup {Nothing}, dates : Dated,
                                routes : Facts \cup {Nothing}]]
    BY <1>0, <1>2, <1>3 DEF IntakeInv, IntakeTypeOK
  <2>4. task' \in [Requests -> TaskType]
    BY <1>2, <2>1 DEF IntakeInv, IntakeTypeOK
  <2>5. ASSUME NEW j \in Intakes
        PROVE  /\ standing'[j] = "none" <=> report'[j] = Nothing
               /\ standing'[j] = "none" => detour'[j] = NoDetour /\ decided'[j] = Nothing
               /\ standing'[j] = "accepted" => detour'[j] # NoDetour
    BY <1>0, <1>03, <1>2 DEF IntakeInv, IntakeTypeOK
  <2> QED
    BY <2>2, <2>3, <2>4, <2>5 DEF IntakeTypeOK, NoDetour
<1>5. ASSUME NEW v \in Requests PROVE TaskOK(v)' /\ ReadOK(v)'
  <2>1. CASE v = w
    BY <1>2, <2>1 DEF TaskOK, ReadOK, NoTask, IntakeInv, IntakeTypeOK
  <2>2. CASE v # w
    <3>1. task'[v] = task[v] /\ TaskOK(v) /\ ReadOK(v)
      BY <1>2, <2>2 DEF IntakeInv, IntakeTypeOK
    <3>2. task[v].act = "copied" => task[v].on # i
      BY <1>0, <2>2 DEF IntakeInv, OneCopy, i
    <3> QED
      BY <1>0, <1>2, <3>1, <3>2 DEF TaskOK, ReadOK, IntakeInv, IntakeTypeOK, NoDetour
  <2> QED
    BY <2>1, <2>2
<1>6. OneCopy'
  BY <1>2 DEF IntakeInv, IntakeTypeOK, OneCopy, NoTask
<1>7. ASSUME NEW j \in Intakes PROVE DecidedOK(j)' /\ DetourOK(j)'
  <2>1. CASE j # i
    <3>1. /\ standing'[j] = standing[j] /\ detour'[j] = detour[j] /\ decided'[j] = decided[j]
          /\ gave'[j] = gave[j]
          /\ j \in hasty' <=> j \in hasty
      BY <1>0, <1>2, <2>1 DEF IntakeInv, IntakeTypeOK
    <3>2. \A v \in Requests : task'[v].on = j => task'[v] = task[v]
      BY <1>2 DEF IntakeInv, IntakeTypeOK, NoTask
    <3> QED
      BY <1>2, <3>1, <3>2 DEF IntakeInv, DecidedOK, DetourOK
  <2>2. CASE j = i /\ i \in hasty'
    BY <2>2 DEF DecidedOK, DetourOK
  <2>3. CASE j = i /\ i \notin hasty'
    <3>1. i \notin hasty /\ decided[i] = Nothing /\ ~WritesBlindly(w, i, "accepted")
      BY <1>1, <1>2, <2>3
    <3>2. standing'[i] = "accepted" /\ decided'[i] = "accepted" /\ detour'[i] = mk
          /\ gave'[i] = task[w].given
      BY <1>0, <1>2, <3>1 DEF IntakeInv, IntakeTypeOK
    <3>3. \A v \in Requests : task'[v].on = i => task'[v].act \notin Blind
      BY <1>0, <1>2, <3>1 DEF WritesBlindly, NoTask, IntakeInv, IntakeTypeOK
    <3>4. i \notin overtaken => task[w].read = report[i] /\ task[w].routes = routes[i]
      BY <1>0 DEF IntakeInv, ReadOK, Promote, i
    <3> QED
      BY <1>02, <1>2, <2>3, <3>2, <3>3, <3>4 DEF DecidedOK, DetourOK
  <2> QED
    BY <2>1, <2>2, <2>3
<1> QED
  BY <1>4, <1>5, <1>6, <1>7 DEF IntakeInv

LEMMA AbandonKeeps ==
  ASSUME IntakeInv, NEW w \in Requests, Abandon(w)
  PROVE  IntakeInv'
<1> USE NothingIsReported, UndatedIsDated DEF Abandon, EndTask, NoTask, intake, Blind, Promote
<1>1. IntakeTypeOK'
  BY DEF IntakeInv, IntakeTypeOK, TaskType, OpenStatuses, Terminal, TaskOK
<1>2. ASSUME NEW v \in Requests PROVE TaskOK(v)' /\ ReadOK(v)'
  BY DEF IntakeInv, IntakeTypeOK, TaskOK, ReadOK, OpenStatuses, Terminal
<1>3. OneCopy'
  BY DEF IntakeInv, IntakeTypeOK, OneCopy
<1>4. ASSUME NEW j \in Intakes PROVE DecidedOK(j)' /\ DetourOK(j)'
  BY DEF IntakeInv, IntakeTypeOK, DecidedOK, DetourOK, OpenStatuses, Terminal, TaskOK
<1> QED
  BY <1>1, <1>2, <1>3, <1>4 DEF IntakeInv

LEMMA IntakeStepKeeps == IntakeInv /\ [IntakeNext]_intakeVars => IntakeInv'
<1> SUFFICES ASSUME IntakeInv, [IntakeNext]_intakeVars PROVE IntakeInv'
  OBVIOUS
<1>1. CASE IntakeNext
  BY <1>1, InsertRowKeeps, InsertSegmentsKeeps, ReadForReviewKeeps, ReviewKeeps, ReadForUpdateKeeps,
     UpdateKeeps, ReadForPromotionKeeps, CopyKeeps, AcceptKeeps, AbandonKeeps DEF IntakeNext
<1>2. CASE UNCHANGED intakeVars
  BY <1>2 DEF intakeVars, intake, IntakeInv, IntakeTypeOK, TaskType, TaskOK, ReadOK, OneCopy, DecidedOK,
     DetourOK
<1> QED
  BY <1>1, <1>2

\* Every variable has its type, and an accepted intake has its Detour.
THEOREM IntakeTypeCorrect == IntakeSpec => []IntakeTypeOK
<1>1. IntakeInv => IntakeTypeOK
  BY DEF IntakeInv
<1> QED
  BY IntakeInitInv, IntakeStepKeeps, <1>1, PTL DEF IntakeSpec

\* The first decision on an intake stands, whoever reviews it afterwards, unless
\* a creation, an update or a promotion was under way when it was made.
THEOREM DecisionsStand == IntakeSpec => []DecisionStandsUnlessRaced
<1>1. IntakeInv => DecisionStandsUnlessRaced
  BY DEF IntakeInv, DecidedOK, DecisionStandsUnlessRaced
<1> QED
  BY IntakeInitInv, IntakeStepKeeps, <1>1, PTL DEF IntakeSpec

\* A Detour that was promoted says what its intake says, and of each date that
\* the promotion gave what it gave, unless the intake was written while the
\* promotion was under way.
THEOREM DetoursSayWhatIntakesSay == IntakeSpec => []DetourSaysWhatIntakeSays
<1>1. IntakeInv => DetourSaysWhatIntakeSays
  BY DEF IntakeInv, DetourOK, DetourSaysWhatIntakeSays
<1> QED
  BY IntakeInitInv, IntakeStepKeeps, <1>1, PTL DEF IntakeSpec

-----------------------------------------------------------------------------
(* Telling an audience: the inductive invariant.                              *)

RunShape ==
  [phase : {"none", "mailing", "clearing", "inserting", "done"}, next : Positions,
   taken : SUBSET Positions, failed : SUBSET Positions, left : SUBSET Positions]

QueueShape ==
  [state : {"none", "queued", "locked", "completed", "dead"}, delivered : 0 .. MaxDeliveries]

RequestShape ==
  [phase : {"idle", "sending", "recording", "delivering", "reporting"},
   on : Comms \cup {Nobody}, result : {"none", "sent", "failed", "skipped"}]

HookShape ==
  [phase : {"idle", "reading", "writing"}, on : Comms \cup {Nobody},
   result : {"none", "sent", "partially_sent", "failed", "delivered"}]

Shape ==
  /\ channel \in [Comms -> {"email", "teams", "recorded"}]
  /\ to \in [Comms -> Lists]
  /\ status \in [Comms -> {"draft", "published", "failed"}]
  /\ delivery \in [Comms -> {"not_requested", "queued", "sent", "partially_sent",
                             "failed", "skipped", "delivered"}]
  /\ receipts \in [Comms -> [Addresses -> {"none", "accepted", "failed"} \cup Good \cup Bad]]
  /\ sends \in [Comms -> 0 .. MaxSends]
  /\ queue \in [Comms -> [Sends -> QueueShape]]
  /\ run \in [Comms -> [Sends -> [Runs -> RunShape]]]
  /\ request \in [Publishers -> RequestShape]
  /\ hook \in [Hooks -> HookShape]
  /\ reached \in [Comms -> SUBSET Addresses]
  /\ told \subseteq Comms /\ recorded \subseteq Comms /\ lost \subseteq Comms /\ torn \subseteq Comms

\* A message that waits has deliveries left, and one that is locked is in the
\* hands of its last run.
QueuesOK ==
  \A c \in Comms, k \in Sends :
    /\ queue[c][k].state = "none" <=> k > sends[c]
    /\ queue[c][k].state = "none" => queue[c][k].delivered = 0
    /\ queue[c][k].state = "queued" => queue[c][k].delivered < MaxDeliveries
    /\ queue[c][k].state = "locked" =>
         /\ queue[c][k].delivered \in Runs
         /\ run[c][k][queue[c][k].delivered].phase \notin {"none", "done"}

\* A run has mailed to the recipients before the next one, and in the end to all
\* of them or, when email is not configured, to none.
RunsOK ==
  \A c \in Comms, k \in Sends, n \in Runs :
    LET r == run[c][k][n] IN
    /\ n > queue[c][k].delivered => r.phase = "none"
    /\ r.taken # {} => c \in told
    /\ r.left \subseteq r.taken \cup r.failed
    /\ r.phase = "mailing" => \A p \in Positions : p \in r.taken \cup r.failed <=> p < r.next
    /\ r.phase \in {"clearing", "inserting"} => r.taken \cup r.failed \in {{}, Positions}

\* Unless they were torn, receipts are replaced by one run at a time, and
\* between two replacements all recipients have one or nobody has.
ReplacedOK ==
  \A c \in Comms \ torn :
    /\ \A k, m \in Sends : \A i, j \in Runs :
         run[c][k][i].phase = "inserting" /\ run[c][m][j].phase = "inserting" => k = m /\ i = j
    /\ \A k \in Sends, n \in Runs :
         LET r == run[c][k][n] IN
         r.phase = "inserting" =>
           /\ \A p \in (r.taken \cup r.failed) \ r.left : receipts[c][to[c][p]] # "none"
           /\ r.taken \cup r.failed = {} => \A a \in Addresses : receipts[c][a] = "none"
    /\ \/ Replacing(c)
       \/ \A a \in Addresses : receipts[c][a] = "none"
       \/ \A p \in Positions : receipts[c][to[c][p]] # "none"

\* A receipt that is reported on is of a mail that was taken.
ReceiptsOK ==
  \A c \in Comms, a \in Addresses :
    /\ receipts[c][a] \in {"accepted"} \cup Good \cup Bad => c \in told
    /\ receipts[c][a] \in Good => a \in reached[c]

DeliveriesOK ==
  \A c \in Comms :
    /\ delivery[c] \in {"sent", "partially_sent", "delivered"} => c \in told
    /\ delivery[c] = "not_requested" /\ status[c] = "published" => c \in recorded \cup told
    /\ delivery[c] = "delivered" /\ c \notin torn => \A p \in Positions : to[c][p] \in reached[c]

\* What a report is about to write is so.
HooksOK ==
  \A h \in Hooks :
    LET c == hook[h].on IN
    /\ hook[h].phase # "idle" => c \in Comms /\ c \in told
    /\ hook[h].phase = "writing" => hook[h].result # "none"
    /\ hook[h].phase = "writing" /\ hook[h].result = "delivered" /\ c \notin torn =>
         \A p \in Positions : to[c][p] \in reached[c]

RequestsOK ==
  \A w \in Publishers :
    /\ request[w].phase # "idle" => request[w].on \in Comms
    /\ request[w].phase = "reporting" => request[w].result # "none"
    /\ request[w].phase = "reporting" /\ request[w].result = "sent" => request[w].on \in told

CommunicationInv ==
  /\ Shape /\ QueuesOK /\ RunsOK /\ ReplacedOK
  /\ ReceiptsOK /\ DeliveriesOK /\ HooksOK /\ RequestsOK

\* The recipients of a communication have addresses.
LEMMA Addressed ==
  ASSUME Shape, NEW c \in Comms, NEW p \in Positions
  PROVE  to[c][p] \in Addresses
BY CommunicationAssumption DEF Shape, Positions

\* A request has its answer.
LEMMA Answered ==
  ASSUME Shape, NEW w \in Publishers, NEW x \in {"sent", "failed", "skipped"},
         request' = [request EXCEPT ![w].phase = "reporting", ![w].result = x]
  PROVE  /\ request' \in [Publishers -> RequestShape]
         /\ request'[w].phase = "reporting" /\ request'[w].result = x
         /\ request'[w].on = request[w].on
         /\ \A v \in Publishers \ {w} : request'[v] = request[v]
<1> DEFINE f == [request EXCEPT ![w].phase = "reporting"]
<1>1. /\ f \in [Publishers -> RequestShape]
      /\ f[w].phase = "reporting" /\ f[w].on = request[w].on
      /\ \A v \in Publishers \ {w} : f[v] = request[v]
  BY DEF Shape, RequestShape
<1>2. request' = [f EXCEPT ![w].result = x]
  OBVIOUS
<1> DEFINE g == [f[w] EXCEPT !.result = x]
<1>3. g \in RequestShape /\ g.phase = "reporting" /\ g.on = request[w].on /\ g.result = x
  <2>1. f[w] \in RequestShape
    BY <1>1
  <2> HIDE DEF f
  <2> QED
    BY <1>1, <2>1 DEF RequestShape
<1>4. request' = [f EXCEPT ![w] = g]
  BY <1>2
<1> HIDE DEF f, g
<1> QED
  BY <1>1, <1>3, <1>4

LEMMA CommunicationInitInv == CommunicationInit => CommunicationInv
<1> SUFFICES ASSUME CommunicationInit PROVE CommunicationInv
  OBVIOUS
<1>1. NoRun \in RunShape
  BY CommunicationAssumption DEF NoRun, RunShape, Positions
<1>2. Shape
  BY <1>1, CommunicationAssumption
     DEF CommunicationInit, Shape, QueueShape, RequestShape, HookShape, NoRequest, NoHook
<1>3. QueuesOK /\ RunsOK
  BY CommunicationAssumption DEF CommunicationInit, QueuesOK, RunsOK, NoRun, Sends, Runs
<1>4. ReplacedOK /\ ReceiptsOK /\ DeliveriesOK
  BY DEF CommunicationInit, ReplacedOK, ReceiptsOK, DeliveriesOK, NoRun, Good, Bad
<1>5. HooksOK /\ RequestsOK
  BY DEF CommunicationInit, HooksOK, RequestsOK, NoHook, NoRequest
<1> QED
  BY <1>2, <1>3, <1>4, <1>5 DEF CommunicationInv

\* What is kept of the queue and the runs by the steps that leave them alone.
LEMMA QueuesAreLeft ==
  ASSUME QueuesOK, UNCHANGED <<queue, sends, run>>
  PROVE  QueuesOK'
BY DEF QueuesOK

LEMMA RunsAreLeft ==
  ASSUME RunsOK, UNCHANGED <<queue, run>>, told \subseteq told'
  PROVE  RunsOK'
BY DEF RunsOK

LEMMA ReplacingIsLeft ==
  ASSUME NEW c \in Comms, \A k \in Sends, n \in Runs : run'[c][k][n] = run[c][k][n]
  PROVE  Replacing(c)' <=> Replacing(c)
BY DEF Replacing

\* The steps of a request that leave the mail, the receipts and the hooks alone.
LEMMA RequestKeeps ==
  ASSUME CommunicationInv, Shape', DeliveriesOK', RequestsOK',
         UNCHANGED <<to, receipts, sends, queue, run, hook, reached, torn>>, told \subseteq told'
  PROVE  CommunicationInv'
<1>1. QueuesOK' /\ RunsOK'
  BY QueuesAreLeft, RunsAreLeft DEF CommunicationInv
<1>2. ReplacedOK' /\ ReceiptsOK' /\ HooksOK'
  BY DEF CommunicationInv, ReplacedOK, ReceiptsOK, HooksOK, Replacing
<1> QED
  BY <1>1, <1>2 DEF CommunicationInv

LEMMA BeginKeeps ==
  ASSUME CommunicationInv, NEW w \in Publishers, NEW c \in Comms,
         NEW phase \in {"sending", "recording"}, Begin(w, c, phase)
  PROVE  CommunicationInv'
<1> USE DEF Begin, rowVars, mailVars, histVars
<1>1. Shape'
  BY DEF CommunicationInv, Shape, RequestShape
<1>2. DeliveriesOK' /\ RequestsOK'
  BY DEF CommunicationInv, Shape, RequestShape, DeliveriesOK, RequestsOK
<1> QED
  BY <1>1, <1>2, RequestKeeps

LEMMA SnapshotKeeps ==
  ASSUME CommunicationInv, NEW w \in Publishers, Snapshot(w)
  PROVE  CommunicationInv'
<1> USE DEF Snapshot, mailVars
<1>0. request[w].on \in Comms
  BY DEF CommunicationInv, RequestsOK
<1>1. Shape'
  <2>1. request' \in [Publishers -> RequestShape]
    <3> DEFINE e == [request[w] EXCEPT !.phase = "delivering"]
    <3>1. request \in [Publishers -> RequestShape]
      BY DEF CommunicationInv, Shape
    <3>2. e \in RequestShape
      BY <3>1 DEF RequestShape
    <3>3. request' = [request EXCEPT ![w] = e]
      OBVIOUS
    <3> HIDE DEF e, Snapshot
    <3> QED
      BY <3>1, <3>2, <3>3
  <2>2. told' \subseteq Comms /\ recorded' \subseteq Comms
    BY <1>0 DEF CommunicationInv, Shape
  <2> QED
    BY <1>0, <2>1, <2>2 DEF CommunicationInv, Shape
<1>2. DeliveriesOK' /\ RequestsOK'
  BY <1>0 DEF CommunicationInv, Shape, RequestShape, DeliveriesOK, RequestsOK
<1> QED
  BY <1>1, <1>2, RequestKeeps

LEMMA PostToTeamsKeeps ==
  ASSUME CommunicationInv, NEW w \in Publishers, NEW result \in {"sent", "failed", "skipped"},
         NEW took \in BOOLEAN, PostToTeams(w, result, took)
  PROVE  CommunicationInv'
<1> USE DEF PostToTeams, rowVars, mailVars
<1>0. request[w].on \in Comms
  BY DEF CommunicationInv, RequestsOK
<1>1. Shape'
  <2>1. request' \in [Publishers -> RequestShape]
    BY Answered DEF CommunicationInv
  <2>2. told' \subseteq Comms /\ recorded' \subseteq Comms
    BY <1>0 DEF CommunicationInv, Shape
  <2> QED
    BY <1>0, <2>1, <2>2 DEF CommunicationInv, Shape
<1>2. DeliveriesOK' /\ RequestsOK'
  BY <1>0 DEF CommunicationInv, Shape, RequestShape, DeliveriesOK, RequestsOK
<1> QED
  BY <1>1, <1>2, RequestKeeps

LEMMA ReportKeeps ==
  ASSUME CommunicationInv, NEW w \in Publishers, Report(w)
  PROVE  CommunicationInv'
<1> USE DEF Report, mailVars, NoRequest
<1>0. request[w].on \in Comms /\ request[w].result # "none"
  BY DEF CommunicationInv, RequestsOK
<1>1. Shape'
  BY <1>0 DEF CommunicationInv, Shape, RequestShape
<1>2. DeliveriesOK' /\ RequestsOK'
  BY <1>0 DEF CommunicationInv, Shape, RequestShape, DeliveriesOK, RequestsOK
<1> QED
  BY <1>1, <1>2, RequestKeeps

LEMMA RecordKeeps ==
  ASSUME CommunicationInv, NEW w \in Publishers, Record(w)
  PROVE  CommunicationInv'
<1> USE DEF Record, mailVars, NoRequest
<1>0. request[w].on \in Comms
  BY DEF CommunicationInv, RequestsOK
<1>1. Shape'
  BY <1>0 DEF CommunicationInv, Shape, RequestShape
<1>2. DeliveriesOK' /\ RequestsOK'
  BY <1>0 DEF CommunicationInv, Shape, RequestShape, DeliveriesOK, RequestsOK
<1> QED
  BY <1>1, <1>2, RequestKeeps

LEMMA VanishKeeps ==
  ASSUME CommunicationInv, NEW w \in Publishers, Vanish(w)
  PROVE  CommunicationInv'
<1> USE DEF Vanish, rowVars, mailVars, NoRequest
<1>0. request[w].on \in Comms
  BY DEF CommunicationInv, RequestsOK
<1>1. Shape'
  BY <1>0 DEF CommunicationInv, Shape, RequestShape
<1>2. DeliveriesOK' /\ RequestsOK'
  BY <1>0 DEF CommunicationInv, Shape, RequestShape, DeliveriesOK, RequestsOK
<1> QED
  BY <1>1, <1>2, RequestKeeps

\* One more event: it waits with all its deliveries left.
LEMMA QueuedKeeps ==
  ASSUME CommunicationInv, NEW c \in Comms, Queued(c), run' = run, told' = told
  PROVE  /\ sends' \in [Comms -> 0 .. MaxSends]
         /\ queue' \in [Comms -> [Sends -> QueueShape]]
         /\ QueuesOK' /\ RunsOK'
<1> DEFINE k == sends[c] + 1
           q == [queue[c][k] EXCEPT !.state = "queued"]
<1>1. k \in Sends /\ sends[c] \in Nat /\ MaxSends \in Nat /\ sends[c] < MaxSends
  BY CommunicationAssumption DEF Queued, CommunicationInv, Shape, Sends
<1>2. q \in QueueShape
  <2>1. queue[c][k] \in QueueShape
    BY <1>1 DEF CommunicationInv, Shape
  <2> QED
    BY <2>1 DEF QueueShape
<1>3. queue' = [queue EXCEPT ![c][k] = q]
  BY DEF Queued
<1>4. queue[c][k].delivered = 0 /\ queue[c][k] \in QueueShape
  BY <1>1 DEF CommunicationInv, QueuesOK, Shape
<1>5. q.state = "queued" /\ q.delivered = 0
  BY <1>4 DEF QueueShape
<1>6. sends' \in [Comms -> 0 .. MaxSends] /\ sends'[c] = k /\ \A d \in Comms \ {c} : sends'[d] = sends[d]
  BY <1>1 DEF Queued, CommunicationInv, Shape
<1> HIDE DEF q
<1>7. /\ queue' \in [Comms -> [Sends -> QueueShape]]
      /\ queue'[c][k] = q
      /\ \A d \in Comms, m \in Sends : ~(d = c /\ m = k) => queue'[d][m] = queue[d][m]
  BY <1>1, <1>2, <1>3 DEF CommunicationInv, Shape
<1>8. QueuesOK'
  <2> SUFFICES ASSUME NEW d \in Comms, NEW m \in Sends
               PROVE  /\ queue'[d][m].state = "none" <=> m > sends'[d]
                      /\ queue'[d][m].state = "none" => queue'[d][m].delivered = 0
                      /\ queue'[d][m].state = "queued" => queue'[d][m].delivered < MaxDeliveries
                      /\ queue'[d][m].state = "locked" =>
                           /\ queue'[d][m].delivered \in Runs
                           /\ run'[d][m][queue'[d][m].delivered].phase \notin {"none", "done"}
    BY DEF QueuesOK
  <2>1. CASE d = c /\ m = k
    <3>1. queue'[d][m] = q
      BY <1>1, <1>7, <2>1
    <3>2. m = sends'[d] /\ m \in Nat
      BY <1>1, <1>6, <2>1 DEF Sends
    <3>3. 0 < MaxDeliveries
      BY CommunicationAssumption
    <3> QED
      BY <1>5, <3>1, <3>2, <3>3
  <2>2. CASE ~(d = c /\ m = k)
    <3>1. m > sends'[d] <=> m > sends[d]
      BY <1>1, <1>6, <2>2 DEF Sends, CommunicationInv, Shape
    <3> QED
      BY <1>7, <2>2, <3>1 DEF CommunicationInv, QueuesOK
  <2> QED
    BY <2>1, <2>2
<1>9. RunsOK'
  <2>1. \A d \in Comms, m \in Sends : queue'[d][m].delivered = queue[d][m].delivered
    BY <1>4, <1>5, <1>7
  <2> QED
    BY <2>1 DEF CommunicationInv, RunsOK
<1> QED
  BY <1>6, <1>7, <1>8, <1>9

LEMMA EnqueueKeeps ==
  ASSUME CommunicationInv, NEW w \in Publishers, NEW took \in BOOLEAN, Enqueue(w) \/ EnqueueFails(w, took)
  PROVE  CommunicationInv'
<1>0. request[w].on \in Comms
  BY DEF CommunicationInv, RequestsOK, Enqueue, EnqueueFails
<1>1. /\ UNCHANGED <<channel, to, status, delivery, receipts, run, hook, reached, told, recorded, lost, torn>>
      /\ \/ request' = [request EXCEPT ![w] = NoRequest]
         \/ request' = [request EXCEPT ![w].phase = "reporting", ![w].result = "skipped"]
      /\ Queued(request[w].on) \/ UNCHANGED <<queue, sends>>
  BY DEF Enqueue, EnqueueFails, rowVars, histVars
<1>2. /\ sends' \in [Comms -> 0 .. MaxSends]
      /\ queue' \in [Comms -> [Sends -> QueueShape]]
      /\ QueuesOK' /\ RunsOK'
  <2>1. CASE Queued(request[w].on)
    BY <1>0, <1>1, <2>1, QueuedKeeps
  <2>2. CASE UNCHANGED <<queue, sends>>
    <3>1. sends' \in [Comms -> 0 .. MaxSends] /\ queue' \in [Comms -> [Sends -> QueueShape]]
      BY <2>2 DEF CommunicationInv, Shape
    <3>2. QueuesOK'
      BY <1>1, <2>2 DEF CommunicationInv, QueuesOK
    <3>3. RunsOK'
      BY <1>1, <2>2 DEF CommunicationInv, RunsOK
    <3> QED
      BY <3>1, <3>2, <3>3
  <2> QED
    BY <1>1, <2>1, <2>2
<1>3. request' \in [Publishers -> RequestShape]
  <2>1. NoRequest \in RequestShape
    BY DEF NoRequest, RequestShape
  <2> QED
    BY <1>1, <2>1, Answered DEF CommunicationInv, Shape
<1>4. Shape'
  BY <1>1, <1>2, <1>3 DEF CommunicationInv, Shape
<1>5. RequestsOK'
  <2>1. CASE request' = [request EXCEPT ![w] = NoRequest]
    BY <1>1, <2>1 DEF CommunicationInv, Shape, RequestsOK, NoRequest
  <2>2. CASE request' = [request EXCEPT ![w].phase = "reporting", ![w].result = "skipped"]
    BY <1>0, <1>1, <2>2, Answered DEF CommunicationInv, RequestsOK
  <2> QED
    BY <1>1, <2>1, <2>2
<1>6. DeliveriesOK' /\ HooksOK' /\ ReceiptsOK' /\ ReplacedOK'
  BY <1>1 DEF CommunicationInv, DeliveriesOK, HooksOK, ReceiptsOK, ReplacedOK, Replacing
<1> QED
  BY <1>2, <1>4, <1>5, <1>6 DEF CommunicationInv

\* Others' receipts are not touched, and this run is not replacing them.
LEMMA QuietReplaced ==
  ASSUME CommunicationInv, NEW c \in Comms, NEW k \in Sends, NEW n \in Runs,
         run[c][k][n].phase # "inserting", run'[c][k][n].phase # "inserting",
         \A d \in Comms, m \in Sends, j \in Runs :
           ~(d = c /\ m = k /\ j = n) => run'[d][m][j] = run[d][m][j],
         UNCHANGED <<to, receipts, torn>>
  PROVE  ReplacedOK'
<1>1. \A d \in Comms, m \in Sends, j \in Runs :
        run'[d][m][j].phase = "inserting" \/ run[d][m][j].phase = "inserting"
          => run'[d][m][j] = run[d][m][j]
  OBVIOUS
<1>2. \A d \in Comms : Replacing(d)' <=> Replacing(d)
  BY <1>1 DEF Replacing
<1> QED
  BY <1>1, <1>2 DEF CommunicationInv, ReplacedOK

\* The steps of a run that leave the rows and the receipts alone.
LEMMA RunKeeps ==
  ASSUME CommunicationInv, Shape', QueuesOK', RunsOK', ReplacedOK',
         UNCHANGED <<to, status, delivery, receipts, request, hook, recorded, reached>>,
         told \subseteq told', torn \subseteq torn'
  PROVE  CommunicationInv'
<1>1. ReceiptsOK' /\ HooksOK' /\ RequestsOK'
  BY DEF CommunicationInv, ReceiptsOK, HooksOK, RequestsOK
<1>2. DeliveriesOK'
  BY DEF CommunicationInv, DeliveriesOK
<1> QED
  BY <1>1, <1>2 DEF CommunicationInv

LEMMA DeliverKeeps ==
  ASSUME CommunicationInv, NEW c \in Comms, NEW k \in Sends, Deliver(c, k)
  PROVE  CommunicationInv'
<1> DEFINE n == queue[c][k].delivered + 1
           q == [state |-> "locked", delivered |-> n]
           r == [NoRun EXCEPT !.phase = "mailing"]
<1>1. /\ queue[c][k].delivered \in Nat /\ n \in Runs /\ n > queue[c][k].delivered
      /\ queue[c][k].state = "queued"
      /\ \A j \in Runs : j > n => j > queue[c][k].delivered
  BY CommunicationAssumption DEF Deliver, CommunicationInv, QueuesOK, Shape, QueueShape, Runs
<1>2. q \in QueueShape /\ q.state = "locked" /\ q.delivered = n
  BY <1>1 DEF QueueShape, Runs
<1>3. /\ r \in RunShape /\ r.phase = "mailing" /\ r.taken = {} /\ r.failed = {} /\ r.left = {}
      /\ r.next = 1
  BY CommunicationAssumption DEF NoRun, RunShape, Positions
<1>4. run[c][k][n].phase = "none"
  BY <1>1 DEF CommunicationInv, RunsOK
<1>a. queue' = [queue EXCEPT ![c][k] = q]
  BY DEF Deliver
<1>b. run' = [run EXCEPT ![c][k][n] = r]
  BY DEF Deliver
<1>5. UNCHANGED <<rowVars, receipts, sends, request, hook, histVars>>
  BY DEF Deliver
<1>c. Shape
  BY DEF CommunicationInv
<1> HIDE DEF n, q, r
<1>6. /\ run' \in [Comms -> [Sends -> [Runs -> RunShape]]] /\ run'[c][k][n] = r
      /\ \A d \in Comms, m \in Sends, j \in Runs :
           ~(d = c /\ m = k /\ j = n) => run'[d][m][j] = run[d][m][j]
  BY <1>1, <1>3, <1>b, <1>c DEF Shape
<1>7. /\ queue' \in [Comms -> [Sends -> QueueShape]] /\ queue'[c][k] = q
      /\ \A d \in Comms, m \in Sends : ~(d = c /\ m = k) => queue'[d][m] = queue[d][m]
  BY <1>2, <1>a, <1>c DEF Shape
<1>8. Shape'
  BY <1>5, <1>6, <1>7 DEF CommunicationInv, Shape, rowVars, histVars
<1>9. QueuesOK'
  <2> SUFFICES ASSUME NEW d \in Comms, NEW m \in Sends
               PROVE  /\ queue'[d][m].state = "none" <=> m > sends[d]
                      /\ queue'[d][m].state = "none" => queue'[d][m].delivered = 0
                      /\ queue'[d][m].state = "queued" => queue'[d][m].delivered < MaxDeliveries
                      /\ queue'[d][m].state = "locked" =>
                           /\ queue'[d][m].delivered \in Runs
                           /\ run'[d][m][queue'[d][m].delivered].phase \notin {"none", "done"}
    BY <1>5 DEF QueuesOK
  <2>1. CASE d = c /\ m = k
    BY <1>1, <1>2, <1>3, <1>6, <1>7, <2>1 DEF CommunicationInv, QueuesOK
  <2>2. CASE ~(d = c /\ m = k)
    <3>1. queue'[d][m] = queue[d][m] /\ \A j \in Runs : run'[d][m][j] = run[d][m][j]
      BY <1>6, <1>7, <2>2
    <3> QED
      BY <3>1 DEF CommunicationInv, QueuesOK
  <2> QED
    BY <2>1, <2>2
<1>10. RunsOK'
  <2> SUFFICES ASSUME NEW d \in Comms, NEW m \in Sends, NEW j \in Runs
               PROVE  /\ j > queue'[d][m].delivered => run'[d][m][j].phase = "none"
                      /\ run'[d][m][j].taken # {} => d \in told'
                      /\ run'[d][m][j].left \subseteq run'[d][m][j].taken \cup run'[d][m][j].failed
                      /\ run'[d][m][j].phase = "mailing" =>
                           \A p \in Positions : p \in run'[d][m][j].taken \cup run'[d][m][j].failed
                                                  <=> p < run'[d][m][j].next
                      /\ run'[d][m][j].phase \in {"clearing", "inserting"} =>
                           run'[d][m][j].taken \cup run'[d][m][j].failed \in {{}, Positions}
    BY DEF RunsOK
  <2>1. told' = told
    BY <1>5 DEF histVars
  <2>2. CASE d = c /\ m = k /\ j = n
    <3>1. ~(n > n)
      BY <1>1 DEF Runs
    <3>2. \A p \in Positions : ~(p < 1)
      BY DEF Positions
    <3> QED
      BY <1>2, <1>3, <1>6, <1>7, <2>2, <3>1, <3>2
  <2>3. CASE ~(d = c /\ m = k /\ j = n)
    <3>1. j > queue'[d][m].delivered => j > queue[d][m].delivered
      BY <1>1, <1>2, <1>7 DEF Runs
    <3>2. run'[d][m][j] = run[d][m][j]
      BY <1>6, <2>3
    <3> QED
      BY <2>1, <3>1, <3>2 DEF CommunicationInv, RunsOK
  <2> QED
    BY <2>2, <2>3
<1>11. ReplacedOK'
  BY <1>1, <1>3, <1>4, <1>5, <1>6, QuietReplaced DEF rowVars, histVars
<1> QED
  BY <1>5, <1>8, <1>9, <1>10, <1>11, RunKeeps DEF rowVars, histVars

\* A message leaves a run: it is completed, dead, or waits with deliveries left.
LEMMA LeavesRun ==
  ASSUME CommunicationInv, NEW c \in Comms, NEW k \in Sends, NEW n \in Runs,
         queue' = Completed(c, k, n) \/ queue' = Returned(c, k, n)
  PROVE  /\ queue' \in [Comms -> [Sends -> QueueShape]]
         /\ \A d \in Comms, m \in Sends :
              /\ queue'[d][m].delivered = queue[d][m].delivered
              /\ queue'[d][m].state = "none" <=> queue[d][m].state = "none"
              /\ queue'[d][m].state = "queued" => queue[d][m].delivered < MaxDeliveries
              /\ queue'[d][m].state = "locked" =>
                   queue[d][m].state = "locked" /\ ~(d = c /\ m = k /\ queue[d][m].delivered = n)
<1>1. CASE ~Holds(c, k, n)
  BY <1>1 DEF Completed, Returned, Holds, CommunicationInv, Shape, QueuesOK
<1>2. CASE Holds(c, k, n)
  <2> DEFINE s == queue'[c][k].state
             q == [queue[c][k] EXCEPT !.state = s]
  <2>1. queue[c][k] \in QueueShape /\ queue[c][k].state = "locked" /\ queue[c][k].delivered = n
    BY <1>2 DEF Holds, CommunicationInv, Shape
  <2>2. PICK st \in {"completed", "dead", "queued"} :
          /\ queue' = [queue EXCEPT ![c][k].state = st]
          /\ st = "queued" => n # MaxDeliveries
    BY <1>2 DEF Completed, Returned
  <2> DEFINE e == [queue[c][k] EXCEPT !.state = st]
  <2>3. e \in QueueShape /\ e.state = st /\ e.delivered = n
    BY <2>1 DEF QueueShape
  <2>4. queue' = [queue EXCEPT ![c][k] = e]
    BY <2>2
  <2> HIDE DEF e
  <2>5. /\ queue' \in [Comms -> [Sends -> QueueShape]] /\ queue'[c][k] = e
        /\ \A d \in Comms, m \in Sends : ~(d = c /\ m = k) => queue'[d][m] = queue[d][m]
    <3>1. Shape
      BY DEF CommunicationInv
    <3> QED
      BY <2>3, <2>4, <3>1 DEF Shape
  <2>6. st = "queued" => n < MaxDeliveries
    BY <2>2, CommunicationAssumption DEF Runs
  <2> QED
    BY <2>1, <2>3, <2>5, <2>6 DEF CommunicationInv, QueuesOK
<1> QED
  BY <1>1, <1>2

LEMMA ExpireKeeps ==
  ASSUME CommunicationInv, NEW c \in Comms, NEW k \in Sends, Expire(c, k)
  PROVE  CommunicationInv'
<1> DEFINE q == [queue[c][k] EXCEPT !.state = "dead"]
<1>1. queue[c][k] \in QueueShape /\ queue[c][k].state = "queued"
  BY DEF Expire, CommunicationInv, Shape
<1>2. q \in QueueShape /\ q.state = "dead" /\ q.delivered = queue[c][k].delivered
  BY <1>1 DEF QueueShape
<1>3. UNCHANGED <<rowVars, receipts, run, sends, request, hook, histVars>>
  BY DEF Expire
<1>a. queue' = [queue EXCEPT ![c][k] = q]
  BY DEF Expire
<1>b. Shape
  BY DEF CommunicationInv
<1> HIDE DEF q
<1>4. /\ queue' \in [Comms -> [Sends -> QueueShape]] /\ queue'[c][k] = q
      /\ \A d \in Comms, m \in Sends : ~(d = c /\ m = k) => queue'[d][m] = queue[d][m]
  BY <1>2, <1>a, <1>b DEF Shape
<1>5. Shape' /\ QueuesOK'
  <2>1. Shape'
    BY <1>3, <1>4 DEF CommunicationInv, Shape, rowVars, histVars
  <2>2. QueuesOK'
    BY <1>1, <1>2, <1>3, <1>4 DEF CommunicationInv, QueuesOK
  <2> QED
    BY <2>1, <2>2
<1>6. RunsOK' /\ ReplacedOK'
  <2>1. \A d \in Comms, m \in Sends : queue'[d][m].delivered = queue[d][m].delivered
    BY <1>2, <1>4
  <2> QED
    BY <1>3, <2>1 DEF CommunicationInv, RunsOK, ReplacedOK, Replacing, rowVars, histVars
<1> QED
  BY <1>3, <1>5, <1>6, RunKeeps DEF rowVars, histVars

LEMMA LoseLockKeeps ==
  ASSUME CommunicationInv, NEW c \in Comms, NEW k \in Sends, NEW n \in Runs, LoseLock(c, k, n)
  PROVE  CommunicationInv'
<1>1. queue' = Returned(c, k, n) /\ UNCHANGED <<rowVars, receipts, run, sends, request, hook, histVars>>
  BY DEF LoseLock
<1>2. /\ queue' \in [Comms -> [Sends -> QueueShape]]
      /\ \A d \in Comms, m \in Sends :
           /\ queue'[d][m].delivered = queue[d][m].delivered
           /\ queue'[d][m].state = "none" <=> queue[d][m].state = "none"
           /\ queue'[d][m].state = "queued" => queue[d][m].delivered < MaxDeliveries
           /\ queue'[d][m].state = "locked" => queue[d][m].state = "locked"
  BY <1>1, LeavesRun
<1>3. Shape'
  BY <1>1, <1>2 DEF CommunicationInv, Shape, rowVars, histVars
<1>4. QueuesOK'
  BY <1>1, <1>2 DEF CommunicationInv, QueuesOK
<1>5. RunsOK' /\ ReplacedOK'
  <2>1. UNCHANGED <<run, receipts, to, told, torn>>
    BY <1>1 DEF rowVars, histVars
  <2>2. RunsOK'
    BY <1>2, <2>1 DEF CommunicationInv, RunsOK
  <2>3. ReplacedOK'
    BY <2>1 DEF CommunicationInv, ReplacedOK, Replacing
  <2> QED
    BY <2>2, <2>3
<1> QED
  BY <1>1, <1>3, <1>4, <1>5, RunKeeps DEF rowVars, histVars

\* The next mail is taken or not.
LEMMA MailKeeps ==
  ASSUME CommunicationInv, NEW c \in Comms, NEW k \in Sends, NEW n \in Runs,
         NEW ok \in BOOLEAN, NEW took \in BOOLEAN, Mail(c, k, n, ok, took)
  PROVE  CommunicationInv'
<1> DEFINE r == run[c][k][n]
           p == r.next
           s == [phase |-> IF p = Recipients THEN "clearing" ELSE "mailing",
                 next |-> IF p = Recipients THEN 1 ELSE p + 1,
                 taken |-> IF ok THEN r.taken \cup {p} ELSE r.taken,
                 failed |-> IF ok THEN r.failed ELSE r.failed \cup {p},
                 left |-> {}]
<1>1. /\ run' = [run EXCEPT ![c][k][n] = s]
      /\ told' = IF took THEN told \cup {c} ELSE told
      /\ UNCHANGED <<rowVars, receipts, queue, sends, request, hook, reached, recorded, lost, torn>>
      /\ r.phase = "mailing" /\ (ok => took)
  BY DEF Mail
<1>2. /\ r \in RunShape /\ p \in Positions
      /\ \A q \in Positions : q \in r.taken \cup r.failed <=> q < p
      /\ n <= queue[c][k].delivered /\ (r.taken # {} => c \in told)
  <2>1. r \in RunShape
    BY DEF CommunicationInv, Shape
  <2>2. /\ \A q \in Positions : q \in r.taken \cup r.failed <=> q < p
        /\ ~(n > queue[c][k].delivered) /\ (r.taken # {} => c \in told)
    BY <1>1 DEF CommunicationInv, RunsOK
  <2>3. queue[c][k].delivered \in Nat /\ n \in Nat
    BY DEF CommunicationInv, Shape, QueueShape, Runs
  <2>4. p \in Positions
    BY <2>1 DEF RunShape
  <2> HIDE DEF r
  <2> QED
    BY <2>1, <2>2, <2>3, <2>4
<1>3. /\ s.phase = IF p = Recipients THEN "clearing" ELSE "mailing"
      /\ s.left = {}
      /\ s.taken \cup s.failed = r.taken \cup r.failed \cup {p}
      /\ s.taken # {} => ok \/ r.taken # {}
      /\ p # Recipients => s.next = p + 1
  OBVIOUS
<1>4. s \in RunShape
  BY <1>2, CommunicationAssumption DEF RunShape, Positions
<1>5. /\ s.phase = "mailing" => \A q \in Positions : q \in s.taken \cup s.failed <=> q < s.next
      /\ s.phase = "clearing" => s.taken \cup s.failed = Positions
  <2>1. \A q \in Positions : q \in s.taken \cup s.failed <=> q <= p
    BY <1>2, <1>3 DEF Positions
  <2>2. s.phase = "mailing" => \A q \in Positions : q <= p <=> q < s.next
    BY <1>2, <1>3 DEF Positions
  <2>3. s.phase = "clearing" => \A q \in Positions : q <= p
    BY <1>3 DEF Positions
  <2>4. s.taken \cup s.failed \subseteq Positions
    BY <1>4 DEF RunShape
  <2> HIDE DEF s, p
  <2> QED
    BY <2>1, <2>2, <2>3, <2>4
<1>6. s.phase \in {"mailing", "clearing"}
  BY <1>3
<1>7. s.taken # {} => c \in told'
  BY <1>1, <1>2, <1>3
<1> HIDE DEF r, p, s
<1>8. Shape
  BY DEF CommunicationInv
<1>9. /\ run' \in [Comms -> [Sends -> [Runs -> RunShape]]] /\ run'[c][k][n] = s
      /\ \A d \in Comms, m \in Sends, j \in Runs :
           ~(d = c /\ m = k /\ j = n) => run'[d][m][j] = run[d][m][j]
  BY <1>1, <1>4, <1>8 DEF Shape
<1>10. Shape'
  BY <1>1, <1>8, <1>9 DEF Shape, rowVars
<1>11. QueuesOK'
  <2>1. \A d \in Comms, m \in Sends, j \in Runs :
          run[d][m][j].phase \notin {"none", "done"} => run'[d][m][j].phase \notin {"none", "done"}
    BY <1>6, <1>9
  <2> QED
    BY <1>1, <2>1 DEF CommunicationInv, QueuesOK
<1>12. RunsOK'
  <2> SUFFICES ASSUME NEW d \in Comms, NEW m \in Sends, NEW j \in Runs
               PROVE  /\ j > queue[d][m].delivered => run'[d][m][j].phase = "none"
                      /\ run'[d][m][j].taken # {} => d \in told'
                      /\ run'[d][m][j].left \subseteq run'[d][m][j].taken \cup run'[d][m][j].failed
                      /\ run'[d][m][j].phase = "mailing" =>
                           \A q \in Positions : q \in run'[d][m][j].taken \cup run'[d][m][j].failed
                                                  <=> q < run'[d][m][j].next
                      /\ run'[d][m][j].phase \in {"clearing", "inserting"} =>
                           run'[d][m][j].taken \cup run'[d][m][j].failed \in {{}, Positions}
    <3>1. queue' = queue
      BY <1>1
    <3> QED
      BY <3>1 DEF RunsOK
  <2>1. CASE d = c /\ m = k /\ j = n
    <3>1. ~(n > queue[c][k].delivered)
      BY <1>2, <1>8 DEF Shape, QueueShape, Runs
    <3> QED
      BY <1>3, <1>5, <1>6, <1>7, <1>9, <2>1, <3>1
  <2>2. CASE ~(d = c /\ m = k /\ j = n)
    <3>1. run'[d][m][j] = run[d][m][j] /\ told \subseteq told'
      BY <1>1, <1>9, <2>2
    <3> QED
      BY <3>1 DEF CommunicationInv, RunsOK
  <2> QED
    BY <2>1, <2>2
<1>13. ReplacedOK'
  BY <1>1, <1>6, <1>9, QuietReplaced DEF r, rowVars
<1> QED
  BY <1>1, <1>10, <1>11, <1>12, <1>13, RunKeeps DEF rowVars

\* What the remaining steps of a run have in common.
LEMMA RunMoves ==
  ASSUME CommunicationInv, NEW c \in Comms, NEW k \in Sends, NEW n \in Runs, NEW s \in RunShape,
         run'[c][k][n] = s,
         \A d \in Comms, m \in Sends, j \in Runs :
           ~(d = c /\ m = k /\ j = n) => run'[d][m][j] = run[d][m][j],
         run[c][k][n].phase \notin {"none", "done"}, s.phase \notin {"none", "done", "mailing"}, UNCHANGED <<queue, sends, told>>,
         s.taken = run[c][k][n].taken, s.failed = run[c][k][n].failed,
         s.left \subseteq s.taken \cup s.failed, s.taken \cup s.failed \in {{}, Positions}
  PROVE  QueuesOK' /\ RunsOK'
<1>1. QueuesOK'
  <2>1. \A d \in Comms, m \in Sends, j \in Runs :
          run[d][m][j].phase \notin {"none", "done"} => run'[d][m][j].phase \notin {"none", "done"}
    OBVIOUS
  <2> QED
    BY <2>1 DEF CommunicationInv, QueuesOK
<1>2. RunsOK'
  <2>1. queue' = queue /\ told' = told
    OBVIOUS
  <2>2. /\ ~(n > queue[c][k].delivered) /\ (s.taken # {} => c \in told)
        /\ s.left \subseteq s.taken \cup s.failed /\ s.taken \cup s.failed \in {{}, Positions}
        /\ s.phase # "mailing"
    BY DEF CommunicationInv, RunsOK
  <2> SUFFICES ASSUME NEW d \in Comms, NEW m \in Sends, NEW j \in Runs
               PROVE  /\ j > queue'[d][m].delivered => run'[d][m][j].phase = "none"
                      /\ run'[d][m][j].taken # {} => d \in told'
                      /\ run'[d][m][j].left \subseteq run'[d][m][j].taken \cup run'[d][m][j].failed
                      /\ run'[d][m][j].phase = "mailing" =>
                           \A q \in Positions : q \in run'[d][m][j].taken \cup run'[d][m][j].failed
                                                  <=> q < run'[d][m][j].next
                      /\ run'[d][m][j].phase \in {"clearing", "inserting"} =>
                           run'[d][m][j].taken \cup run'[d][m][j].failed \in {{}, Positions}
    BY DEF RunsOK
  <2>3. CASE d = c /\ m = k /\ j = n
    <3>1. run'[d][m][j] = s
      BY <2>3
    <3> QED
      BY <2>1, <2>2, <2>3, <3>1
  <2>4. CASE ~(d = c /\ m = k /\ j = n)
    <3>1. run'[d][m][j] = run[d][m][j]
      BY <2>4
    <3>2. /\ j > queue[d][m].delivered => run[d][m][j].phase = "none"
          /\ run[d][m][j].taken # {} => d \in told
          /\ run[d][m][j].left \subseteq run[d][m][j].taken \cup run[d][m][j].failed
          /\ run[d][m][j].phase = "mailing" =>
               \A q \in Positions : q \in run[d][m][j].taken \cup run[d][m][j].failed
                                      <=> q < run[d][m][j].next
          /\ run[d][m][j].phase \in {"clearing", "inserting"} =>
               run[d][m][j].taken \cup run[d][m][j].failed \in {{}, Positions}
      BY DEF CommunicationInv, RunsOK
    <3> QED
      BY <2>1, <3>1, <3>2
  <2> QED
    BY <2>3, <2>4
<1> QED
  BY <1>1, <1>2

LEMMA SkipMailingKeeps ==
  ASSUME CommunicationInv, NEW c \in Comms, NEW k \in Sends, NEW n \in Runs, SkipMailing(c, k, n)
  PROVE  CommunicationInv'
<1> DEFINE r == run[c][k][n]
           s == [r EXCEPT !.phase = "clearing"]
<1>1. Shape
  BY DEF CommunicationInv
<1>2. r \in RunShape /\ r.phase = "mailing" /\ r.next = 1
  BY <1>1 DEF SkipMailing, Shape
<1>3. /\ s \in RunShape /\ s.phase = "clearing" /\ s.taken = r.taken /\ s.failed = r.failed
      /\ s.left = r.left
  BY <1>2 DEF RunShape
<1>4. r.left \subseteq r.taken \cup r.failed /\ r.taken \cup r.failed = {}
  <2>1. \A p \in Positions : p \in r.taken \cup r.failed <=> p < 1
    BY <1>2 DEF CommunicationInv, RunsOK
  <2>2. r.taken \cup r.failed \subseteq Positions
    BY <1>2 DEF RunShape
  <2>3. \A p \in Positions : ~(p < 1)
    BY DEF Positions
  <2>4. r.left \subseteq r.taken \cup r.failed
    BY DEF CommunicationInv, RunsOK
  <2> HIDE DEF r
  <2> QED
    BY <2>1, <2>2, <2>3, <2>4
<1>5. run' = [run EXCEPT ![c][k][n] = s]
  BY DEF SkipMailing
<1>6. UNCHANGED <<rowVars, receipts, queue, sends, request, hook, histVars>>
  BY DEF SkipMailing
<1> HIDE DEF r, s
<1>7. /\ run' \in [Comms -> [Sends -> [Runs -> RunShape]]] /\ run'[c][k][n] = s
      /\ \A d \in Comms, m \in Sends, j \in Runs :
           ~(d = c /\ m = k /\ j = n) => run'[d][m][j] = run[d][m][j]
  BY <1>1, <1>3, <1>5 DEF Shape
<1>8. Shape'
  BY <1>1, <1>6, <1>7 DEF Shape, rowVars, histVars
<1>9. QueuesOK' /\ RunsOK'
  <2>1. UNCHANGED <<queue, sends, told>> /\ run[c][k][n].phase \notin {"none", "done"}
    BY <1>2, <1>6 DEF histVars, r
  <2>2. s.taken = run[c][k][n].taken /\ s.failed = run[c][k][n].failed
    BY <1>3 DEF r
  <2>3. s.left \subseteq s.taken \cup s.failed /\ s.taken \cup s.failed \in {{}, Positions}
    BY <1>3, <1>4
  <2>4. s \in RunShape /\ s.phase \notin {"none", "done", "mailing"}
    BY <1>3
  <2> QED
    BY <1>7, <2>1, <2>2, <2>3, <2>4, RunMoves
<1>10. ReplacedOK'
  BY <1>2, <1>3, <1>6, <1>7, QuietReplaced DEF r, rowVars, histVars
<1> QED
  BY <1>6, <1>8, <1>9, <1>10, RunKeeps DEF rowVars, histVars

\* The receipts go: unless another run was replacing them, this one alone does.
LEMMA ClearReceiptsKeeps ==
  ASSUME CommunicationInv, NEW c \in Comms, NEW k \in Sends, NEW n \in Runs, ClearReceipts(c, k, n)
  PROVE  CommunicationInv'
<1> DEFINE r == run[c][k][n]
           s == [r EXCEPT !.phase = "inserting", !.left = r.taken \cup r.failed]
<1>1. Shape
  BY DEF CommunicationInv
<1>2. r \in RunShape /\ r.phase = "clearing" /\ r.taken \cup r.failed \in {{}, Positions}
  <2>1. r \in RunShape /\ r.phase = "clearing"
    BY <1>1 DEF ClearReceipts, Shape
  <2> QED
    BY <2>1 DEF CommunicationInv, RunsOK
<1>3. /\ s \in RunShape /\ s.phase = "inserting" /\ s.taken = r.taken /\ s.failed = r.failed
      /\ s.left = r.taken \cup r.failed
  BY <1>2 DEF RunShape
<1>4. run' = [run EXCEPT ![c][k][n] = s]
  BY DEF ClearReceipts
<1>5. /\ receipts' = [receipts EXCEPT ![c] = [a \in Addresses |-> "none"]]
      /\ torn' = IF Replacing(c) THEN torn \cup {c} ELSE torn
      /\ UNCHANGED <<channel, to, status, delivery, queue, sends, request, hook, reached, told, recorded, lost>>
  BY DEF ClearReceipts, rowVars
<1> HIDE DEF r, s
<1>6. /\ run' \in [Comms -> [Sends -> [Runs -> RunShape]]] /\ run'[c][k][n] = s
      /\ \A d \in Comms, m \in Sends, j \in Runs :
           ~(d = c /\ m = k /\ j = n) => run'[d][m][j] = run[d][m][j]
  BY <1>1, <1>3, <1>4 DEF Shape
<1>7. /\ receipts' \in [Comms -> [Addresses -> {"none", "accepted", "failed"} \cup Good \cup Bad]]
      /\ \A a \in Addresses : receipts'[c][a] = "none"
      /\ \A d \in Comms \ {c} : receipts'[d] = receipts[d]
  BY <1>1, <1>5 DEF Shape
<1>8. Shape'
  BY <1>1, <1>5, <1>6, <1>7 DEF Shape
<1>9. QueuesOK' /\ RunsOK'
  <2>1. UNCHANGED <<queue, sends, told>> /\ run[c][k][n].phase \notin {"none", "done"}
    BY <1>2, <1>5 DEF r
  <2>2. s.taken = run[c][k][n].taken /\ s.failed = run[c][k][n].failed
    BY <1>3 DEF r
  <2>3. s.left \subseteq s.taken \cup s.failed /\ s.taken \cup s.failed \in {{}, Positions}
    BY <1>2, <1>3
  <2>4. s \in RunShape /\ s.phase \notin {"none", "done", "mailing"}
    BY <1>3
  <2> QED
    BY <1>6, <2>1, <2>2, <2>3, <2>4, RunMoves
<1>10. ReplacedOK'
  <2>1. ASSUME NEW d \in Comms \ torn', d # c PROVE d \notin torn /\ (Replacing(d)' <=> Replacing(d))
    <3>1. d \notin torn
      BY <1>5
    <3>2. \A m \in Sends, j \in Runs : run'[d][m][j] = run[d][m][j]
      BY <1>6, <2>1
    <3> QED
      BY <3>1, <3>2 DEF Replacing
  <2>2. c \notin torn' => \A m \in Sends, j \in Runs : run'[c][m][j].phase = "inserting" => m = k /\ j = n
    BY <1>5, <1>6 DEF Replacing
  <2>3. Replacing(c)'
    BY <1>3, <1>6 DEF Replacing
  <2>4. (s.taken \cup s.failed) \ s.left = {}
    BY <1>3
  <2>5. ASSUME NEW d \in Comms \ torn', d # c
        PROVE  /\ \A m, h \in Sends : \A i, j \in Runs :
                    run'[d][m][i].phase = "inserting" /\ run'[d][h][j].phase = "inserting" => m = h /\ i = j
               /\ \A m \in Sends, j \in Runs :
                    run'[d][m][j].phase = "inserting" =>
                      /\ \A p \in (run'[d][m][j].taken \cup run'[d][m][j].failed) \ run'[d][m][j].left :
                           receipts'[d][to'[d][p]] # "none"
                      /\ run'[d][m][j].taken \cup run'[d][m][j].failed = {} =>
                           \A a \in Addresses : receipts'[d][a] = "none"
               /\ \/ Replacing(d)'
                  \/ \A a \in Addresses : receipts'[d][a] = "none"
                  \/ \A p \in Positions : receipts'[d][to'[d][p]] # "none"
    <3>1. d \in Comms \ torn /\ (Replacing(d)' <=> Replacing(d))
      BY <2>1, <2>5
    <3>2. \A m \in Sends, j \in Runs : run'[d][m][j] = run[d][m][j]
      BY <1>6, <2>5
    <3>3. receipts'[d] = receipts[d] /\ to' = to
      BY <1>5, <1>7, <2>5
    <3>4. /\ \A m, h \in Sends : \A i, j \in Runs :
               run[d][m][i].phase = "inserting" /\ run[d][h][j].phase = "inserting" => m = h /\ i = j
          /\ \A m \in Sends, j \in Runs :
               run[d][m][j].phase = "inserting" =>
                 /\ \A p \in (run[d][m][j].taken \cup run[d][m][j].failed) \ run[d][m][j].left :
                      receipts[d][to[d][p]] # "none"
                 /\ run[d][m][j].taken \cup run[d][m][j].failed = {} =>
                      \A a \in Addresses : receipts[d][a] = "none"
          /\ \/ Replacing(d)
             \/ \A a \in Addresses : receipts[d][a] = "none"
             \/ \A p \in Positions : receipts[d][to[d][p]] # "none"
      BY <3>1 DEF CommunicationInv, ReplacedOK
    <3> QED
      BY <3>1, <3>2, <3>3, <3>4
  <2>6. ASSUME c \notin torn', NEW m \in Sends, NEW j \in Runs, run'[c][m][j].phase = "inserting"
        PROVE  /\ \A p \in (run'[c][m][j].taken \cup run'[c][m][j].failed) \ run'[c][m][j].left :
                           receipts'[c][to'[c][p]] # "none"
               /\ \A a \in Addresses : receipts'[c][a] = "none"
    BY <1>6, <1>7, <2>2, <2>4, <2>6
  <2> QED
    BY <2>2, <2>3, <2>5, <2>6 DEF ReplacedOK
<1>11. ReceiptsOK' /\ HooksOK' /\ RequestsOK'
  <2>1. ReceiptsOK'
    BY <1>5, <1>7 DEF CommunicationInv, ReceiptsOK, Good, Bad
  <2>2. HooksOK' /\ RequestsOK'
    BY <1>5 DEF CommunicationInv, HooksOK, RequestsOK
  <2> QED
    BY <2>1, <2>2
<1>12. DeliveriesOK'
  BY <1>5 DEF CommunicationInv, DeliveriesOK
<1> QED
  BY <1>8, <1>9, <1>10, <1>11, <1>12 DEF CommunicationInv

\* One receipt is inserted.
LEMMA InsertReceiptKeeps ==
  ASSUME CommunicationInv, NEW c \in Comms, NEW k \in Sends, NEW n \in Runs, NEW p \in Positions,
         InsertReceipt(c, k, n, p)
  PROVE  CommunicationInv'
<1> DEFINE r == run[c][k][n]
           s == [r EXCEPT !.left = r.left \ {p}]
           a == to[c][p]
           st == IF p \in r.taken THEN "accepted" ELSE "failed"
<1>1. Shape /\ a \in Addresses
  BY Addressed DEF CommunicationInv
<1>2. /\ r \in RunShape /\ r.phase = "inserting" /\ r.taken \cup r.failed \in {{}, Positions}
      /\ r.left \subseteq r.taken \cup r.failed /\ p \in r.left
  <2>1. r \in RunShape /\ r.phase = "inserting"
    BY <1>1 DEF InsertReceipt, Shape
  <2>2. r.taken \cup r.failed \in {{}, Positions} /\ r.left \subseteq r.taken \cup r.failed
    BY <2>1 DEF CommunicationInv, RunsOK
  <2>3. p \in r.left
    BY DEF InsertReceipt, IsNext
  <2> QED
    BY <2>1, <2>2, <2>3
<1>3. /\ s \in RunShape /\ s.phase = "inserting" /\ s.taken = r.taken /\ s.failed = r.failed
      /\ s.left = r.left \ {p}
  BY <1>2 DEF RunShape
<1>4. run' = [run EXCEPT ![c][k][n] = s]
  BY DEF InsertReceipt
<1>5. UNCHANGED <<channel, to, status, delivery, queue, sends, request, hook, reached, told, recorded, lost, torn>>
  BY DEF InsertReceipt, rowVars, histVars
<1>6. receipts' = [receipts EXCEPT ![c][a] = st] /\ st \in {"accepted", "failed"} /\ (st = "accepted" => c \in told)
  BY DEF InsertReceipt, CommunicationInv, RunsOK
<1> HIDE DEF r, s, st
<1>7. /\ run' \in [Comms -> [Sends -> [Runs -> RunShape]]] /\ run'[c][k][n] = s
      /\ \A d \in Comms, m \in Sends, j \in Runs :
           ~(d = c /\ m = k /\ j = n) => run'[d][m][j] = run[d][m][j]
  BY <1>1, <1>3, <1>4 DEF Shape
<1>8. /\ receipts' \in [Comms -> [Addresses -> {"none", "accepted", "failed"} \cup Good \cup Bad]]
      /\ receipts'[c][a] = st
      /\ \A d \in Comms, b \in Addresses : ~(d = c /\ b = a) => receipts'[d][b] = receipts[d][b]
  BY <1>1, <1>6 DEF Shape
<1>9. Shape'
  BY <1>1, <1>5, <1>7, <1>8 DEF Shape
<1>10. QueuesOK' /\ RunsOK'
  <2>1. UNCHANGED <<queue, sends, told>> /\ run[c][k][n].phase \notin {"none", "done"}
    BY <1>2, <1>5 DEF r
  <2>2. s.taken = run[c][k][n].taken /\ s.failed = run[c][k][n].failed
    BY <1>3 DEF r
  <2>3. s.left \subseteq s.taken \cup s.failed /\ s.taken \cup s.failed \in {{}, Positions}
    BY <1>2, <1>3
  <2>4. s \in RunShape /\ s.phase \notin {"none", "done", "mailing"}
    BY <1>3
  <2> QED
    BY <1>7, <2>1, <2>2, <2>3, <2>4, RunMoves
<1>11. ReplacedOK'
  <2>1. \A d \in Comms, m \in Sends, j \in Runs :
          /\ run'[d][m][j].phase = "inserting" <=> run[d][m][j].phase = "inserting"
          /\ run'[d][m][j].taken = run[d][m][j].taken /\ run'[d][m][j].failed = run[d][m][j].failed
    <3> SUFFICES ASSUME NEW d \in Comms, NEW m \in Sends, NEW j \in Runs
                 PROVE  /\ run'[d][m][j].phase = "inserting" <=> run[d][m][j].phase = "inserting"
                        /\ run'[d][m][j].taken = run[d][m][j].taken
                        /\ run'[d][m][j].failed = run[d][m][j].failed
      OBVIOUS
    <3>1. CASE d = c /\ m = k /\ j = n
      BY <1>2, <1>3, <1>7, <3>1 DEF r
    <3>2. CASE ~(d = c /\ m = k /\ j = n)
      BY <1>7, <3>2
    <3> QED
      BY <3>1, <3>2
  <2>2. \A d \in Comms : Replacing(d)' <=> Replacing(d)
    BY <2>1 DEF Replacing
  <2>3. Replacing(c)'
    BY <1>3, <1>7 DEF Replacing
  <2>4. \A d \in Comms, b \in Addresses : receipts[d][b] # "none" => receipts'[d][b] # "none"
    BY <1>6, <1>8
  <2>5. ASSUME NEW d \in Comms \ torn, NEW m \in Sends, NEW j \in Runs, run'[d][m][j].phase = "inserting"
        PROVE  /\ \A q \in (run'[d][m][j].taken \cup run'[d][m][j].failed) \ run'[d][m][j].left :
                           receipts'[d][to[d][q]] # "none"
               /\ run'[d][m][j].taken \cup run'[d][m][j].failed = {} =>
                           \A b \in Addresses : receipts'[d][b] = "none"
    <3>1. CASE d = c /\ m = k /\ j = n
      <4>1. \A q \in (r.taken \cup r.failed) \ r.left : receipts[c][to[c][q]] # "none"
        BY <1>2, <2>5, <3>1 DEF CommunicationInv, ReplacedOK, r
      <4>2. \A q \in (r.taken \cup r.failed) \ r.left : to[c][q] \in Addresses
        BY <1>1, <1>2, Addressed DEF RunShape
      <4>3. receipts'[c][to[c][p]] # "none"
        BY <1>6, <1>8
      <4>4. r.taken \cup r.failed # {}
        BY <1>2
      <4>5. run'[d][m][j] = s
        BY <1>7, <3>1
      <4> HIDE DEF a
      <4> QED
        BY <1>3, <2>4, <3>1, <4>1, <4>2, <4>3, <4>4, <4>5
    <3>2. CASE ~(d = c /\ m = k /\ j = n)
      <4>1. d # c
        <5>1. run[d][m][j].phase = "inserting" /\ run[c][k][n].phase = "inserting"
          BY <1>2, <2>1, <2>5 DEF r
        <5> QED
          BY <3>2, <5>1 DEF CommunicationInv, ReplacedOK
      <4>2. run'[d][m][j] = run[d][m][j]
        BY <1>7, <3>2
      <4>3. \A b \in Addresses : receipts'[d][b] = receipts[d][b]
        BY <1>8, <4>1
      <4>4. \A q \in run[d][m][j].taken \cup run[d][m][j].failed : to[d][q] \in Addresses
        BY <1>1, Addressed DEF Shape, RunShape
      <4> QED
        BY <2>5, <4>2, <4>3, <4>4 DEF CommunicationInv, ReplacedOK
    <3> QED
      BY <3>1, <3>2
  <2>6. ASSUME NEW d \in Comms \ torn
        PROVE  \/ Replacing(d)'
               \/ \A b \in Addresses : receipts'[d][b] = "none"
               \/ \A q \in Positions : receipts'[d][to[d][q]] # "none"
    <3>1. CASE d = c
      BY <2>3, <3>1
    <3>2. CASE d # c
      <4>1. \A b \in Addresses : receipts'[d][b] = receipts[d][b]
        BY <1>8, <3>2
      <4>2. \A q \in Positions : to[d][q] \in Addresses
        BY <1>1, Addressed
      <4> QED
        BY <2>2, <4>1, <4>2 DEF CommunicationInv, ReplacedOK
    <3> QED
      BY <3>1, <3>2
  <2>7. \A d \in Comms \ torn : \A m, h \in Sends : \A i, j \in Runs :
          run'[d][m][i].phase = "inserting" /\ run'[d][h][j].phase = "inserting" => m = h /\ i = j
    BY <2>1 DEF CommunicationInv, ReplacedOK
  <2> QED
    BY <1>5, <2>5, <2>6, <2>7 DEF ReplacedOK
<1>12. ReceiptsOK'
  BY <1>5, <1>6, <1>8 DEF CommunicationInv, ReceiptsOK, Good, Bad
<1>13. HooksOK' /\ RequestsOK' /\ DeliveriesOK'
  BY <1>5 DEF CommunicationInv, HooksOK, RequestsOK, DeliveriesOK
<1> QED
  BY <1>9, <1>10, <1>11, <1>12, <1>13 DEF CommunicationInv

\* A run ends, and its message leaves it.
Ends(c, k, n) == run' = [run EXCEPT ![c][k][n] = [NoRun EXCEPT !.phase = "done"]]

LEMMA RunEnds ==
  ASSUME CommunicationInv, NEW c \in Comms, NEW k \in Sends, NEW n \in Runs,
         Ends(c, k, n),
         run[c][k][n].phase # "none",
         queue' = Completed(c, k, n) \/ queue' = Returned(c, k, n), UNCHANGED <<sends, told>>
  PROVE  /\ run' \in [Comms -> [Sends -> [Runs -> RunShape]]] /\ run'[c][k][n].phase = "done"
         /\ \A d \in Comms, m \in Sends, j \in Runs :
              ~(d = c /\ m = k /\ j = n) => run'[d][m][j] = run[d][m][j]
         /\ queue' \in [Comms -> [Sends -> QueueShape]]
         /\ QueuesOK' /\ RunsOK'
<1> DEFINE s == [NoRun EXCEPT !.phase = "done"]
<1>1. s \in RunShape /\ s.phase = "done" /\ s.taken = {} /\ s.failed = {} /\ s.left = {}
  BY CommunicationAssumption DEF NoRun, RunShape, Positions
<1>2. run' = [run EXCEPT ![c][k][n] = s]
  BY DEF Ends
<1> HIDE DEF s
<1>3. /\ run' \in [Comms -> [Sends -> [Runs -> RunShape]]] /\ run'[c][k][n] = s
      /\ \A d \in Comms, m \in Sends, j \in Runs :
           ~(d = c /\ m = k /\ j = n) => run'[d][m][j] = run[d][m][j]
  <2>1. Shape
    BY DEF CommunicationInv
  <2> QED
    BY <1>1, <1>2, <2>1 DEF Shape
<1>4. /\ queue' \in [Comms -> [Sends -> QueueShape]]
      /\ \A d \in Comms, m \in Sends :
           /\ queue'[d][m].delivered = queue[d][m].delivered
           /\ queue'[d][m].state = "none" <=> queue[d][m].state = "none"
           /\ queue'[d][m].state = "queued" => queue[d][m].delivered < MaxDeliveries
           /\ queue'[d][m].state = "locked" =>
                queue[d][m].state = "locked" /\ ~(d = c /\ m = k /\ queue[d][m].delivered = n)
  BY LeavesRun
<1>5. sends' = sends /\ told' = told
  OBVIOUS
<1>6. QueuesOK'
  <2> SUFFICES ASSUME NEW d \in Comms, NEW m \in Sends
               PROVE  /\ queue'[d][m].state = "none" <=> m > sends'[d]
                      /\ queue'[d][m].state = "none" => queue'[d][m].delivered = 0
                      /\ queue'[d][m].state = "queued" => queue'[d][m].delivered < MaxDeliveries
                      /\ queue'[d][m].state = "locked" =>
                           /\ queue'[d][m].delivered \in Runs
                           /\ run'[d][m][queue'[d][m].delivered].phase \notin {"none", "done"}
    BY DEF QueuesOK
  <2>1. /\ queue'[d][m].state = "none" <=> m > sends'[d]
        /\ queue'[d][m].state = "none" => queue'[d][m].delivered = 0
        /\ queue'[d][m].state = "queued" => queue'[d][m].delivered < MaxDeliveries
    BY <1>4, <1>5 DEF CommunicationInv, QueuesOK
  <2>2. ASSUME queue'[d][m].state = "locked"
        PROVE  /\ queue'[d][m].delivered \in Runs
               /\ run'[d][m][queue'[d][m].delivered].phase \notin {"none", "done"}
    <3>1. /\ queue[d][m].delivered \in Runs
          /\ run[d][m][queue[d][m].delivered].phase \notin {"none", "done"}
      BY <1>4, <2>2 DEF CommunicationInv, QueuesOK
    <3>2. run'[d][m][queue[d][m].delivered] = run[d][m][queue[d][m].delivered]
      BY <1>3, <1>4, <2>2, <3>1
    <3> QED
      BY <1>4, <3>1, <3>2
  <2> QED
    BY <2>1, <2>2
<1>7. RunsOK'
  <2> SUFFICES ASSUME NEW d \in Comms, NEW m \in Sends, NEW j \in Runs
               PROVE  /\ j > queue'[d][m].delivered => run'[d][m][j].phase = "none"
                      /\ run'[d][m][j].taken # {} => d \in told'
                      /\ run'[d][m][j].left \subseteq run'[d][m][j].taken \cup run'[d][m][j].failed
                      /\ run'[d][m][j].phase = "mailing" =>
                           \A q \in Positions : q \in run'[d][m][j].taken \cup run'[d][m][j].failed
                                                  <=> q < run'[d][m][j].next
                      /\ run'[d][m][j].phase \in {"clearing", "inserting"} =>
                           run'[d][m][j].taken \cup run'[d][m][j].failed \in {{}, Positions}
    BY DEF RunsOK
  <2>1. queue'[d][m].delivered = queue[d][m].delivered
    BY <1>4
  <2>2. CASE d = c /\ m = k /\ j = n
    <3>1. run'[d][m][j] = s
      BY <1>3, <2>2
    <3>2. ~(j > queue[d][m].delivered)
      BY <2>2 DEF CommunicationInv, RunsOK
    <3> QED
      BY <1>1, <2>1, <3>1, <3>2
  <2>3. CASE ~(d = c /\ m = k /\ j = n)
    <3>1. run'[d][m][j] = run[d][m][j]
      BY <1>3, <2>3
    <3>2. /\ j > queue[d][m].delivered => run[d][m][j].phase = "none"
          /\ run[d][m][j].taken # {} => d \in told
          /\ run[d][m][j].left \subseteq run[d][m][j].taken \cup run[d][m][j].failed
          /\ run[d][m][j].phase = "mailing" =>
               \A q \in Positions : q \in run[d][m][j].taken \cup run[d][m][j].failed
                                      <=> q < run[d][m][j].next
          /\ run[d][m][j].phase \in {"clearing", "inserting"} =>
               run[d][m][j].taken \cup run[d][m][j].failed \in {{}, Positions}
      BY DEF CommunicationInv, RunsOK
    <3> QED
      BY <1>5, <2>1, <3>1, <3>2
  <2> QED
    BY <2>2, <2>3
<1> QED
  BY <1>1, <1>3, <1>4, <1>6, <1>7

\* What a run adds up to says that somebody was told only if a mail was taken.
LEMMA ResultOfTaken ==
  ASSUME NEW r
  PROVE  /\ Result(r) \in {"skipped", "sent", "failed", "partially_sent"}
         /\ Result(r) \in {"sent", "partially_sent"} => r.taken # {}
BY DEF Result

LEMMA WriteResultKeeps ==
  ASSUME CommunicationInv, NEW c \in Comms, NEW k \in Sends, NEW n \in Runs, WriteResult(c, k, n)
  PROVE  CommunicationInv'
<1> DEFINE r == run[c][k][n]
           result == Result(r)
<1>1. /\ r.phase = "inserting" /\ r.left = {}
      /\ delivery' = [delivery EXCEPT ![c] = result]
      /\ queue' = Completed(c, k, n)
      /\ UNCHANGED <<channel, to, status, receipts, sends, request, hook, reached, told, recorded, lost, torn>>
  BY DEF WriteResult, histVars
<1>2. Ends(c, k, n)
  BY DEF WriteResult, Ends
<1>3. Shape
  BY DEF CommunicationInv
<1>4. /\ result \in {"skipped", "sent", "failed", "partially_sent"}
      /\ result \in {"sent", "partially_sent"} => c \in told
  <2>1. r.taken # {} => c \in told
    BY DEF CommunicationInv, RunsOK
  <2> QED
    BY <2>1, ResultOfTaken
<1>5. r.taken \cup r.failed \in {{}, Positions}
  BY <1>1 DEF CommunicationInv, RunsOK
<1>6. /\ run' \in [Comms -> [Sends -> [Runs -> RunShape]]] /\ run'[c][k][n].phase = "done"
      /\ \A d \in Comms, m \in Sends, j \in Runs :
           ~(d = c /\ m = k /\ j = n) => run'[d][m][j] = run[d][m][j]
      /\ queue' \in [Comms -> [Sends -> QueueShape]]
      /\ QueuesOK' /\ RunsOK'
  BY <1>1, <1>2, RunEnds
<1> HIDE DEF result
<1>7. delivery' \in [Comms -> {"not_requested", "queued", "sent", "partially_sent",
                               "failed", "skipped", "delivered"}]
  BY <1>1, <1>3, <1>4 DEF Shape
<1>8. Shape'
  BY <1>1, <1>3, <1>6, <1>7 DEF Shape
<1>9. ReplacedOK'
  <2>1. ASSUME NEW d \in Comms \ torn, NEW m \in Sends, NEW j \in Runs, run'[d][m][j].phase = "inserting"
        PROVE  d # c /\ run'[d][m][j] = run[d][m][j]
    <3>1. ~(d = c /\ m = k /\ j = n) /\ run'[d][m][j] = run[d][m][j]
      BY <1>6, <2>1
    <3> QED
      BY <1>1, <2>1, <3>1 DEF CommunicationInv, ReplacedOK
  <2>2. ASSUME c \notin torn
        PROVE  \/ \A a \in Addresses : receipts[c][a] = "none"
               \/ \A p \in Positions : receipts[c][to[c][p]] # "none"
    <3>1. /\ \A p \in (r.taken \cup r.failed) \ r.left : receipts[c][to[c][p]] # "none"
          /\ r.taken \cup r.failed = {} => \A a \in Addresses : receipts[c][a] = "none"
      BY <1>1, <2>2 DEF CommunicationInv, ReplacedOK
    <3> QED
      BY <1>1, <1>5, <3>1
  <2>3. ASSUME NEW d \in Comms \ torn, d # c
        PROVE  Replacing(d)' <=> Replacing(d)
    BY <1>6, <2>3, ReplacingIsLeft
  <2>4. ASSUME NEW d \in Comms \ torn
        PROVE  \/ Replacing(d)'
               \/ \A a \in Addresses : receipts[d][a] = "none"
               \/ \A p \in Positions : receipts[d][to[d][p]] # "none"
    BY <2>2, <2>3 DEF CommunicationInv, ReplacedOK
  <2> QED
    BY <1>1, <2>1, <2>4 DEF CommunicationInv, ReplacedOK
<1>10. DeliveriesOK'
  BY <1>1, <1>3, <1>4 DEF CommunicationInv, DeliveriesOK, Shape
<1>11. ReceiptsOK' /\ HooksOK' /\ RequestsOK'
  BY <1>1 DEF CommunicationInv, ReceiptsOK, HooksOK, RequestsOK
<1> QED
  BY <1>6, <1>8, <1>9, <1>10, <1>11 DEF CommunicationInv

\* A run that dies between its DELETE and its last INSERT leaves the receipts torn.
LEMMA AbortKeeps ==
  ASSUME CommunicationInv, NEW c \in Comms, NEW k \in Sends, NEW n \in Runs, Abort(c, k, n)
  PROVE  CommunicationInv'
<1>1. /\ run[c][k][n].phase # "none"
      /\ torn' = IF run[c][k][n].phase = "inserting" THEN torn \cup {c} ELSE torn
      /\ queue' = Returned(c, k, n)
      /\ UNCHANGED <<rowVars, receipts, sends, request, hook, reached, told, recorded, lost>>
  BY DEF Abort
<1>2. Ends(c, k, n)
  BY DEF Abort, Ends
<1>3. /\ run' \in [Comms -> [Sends -> [Runs -> RunShape]]] /\ run'[c][k][n].phase = "done"
      /\ \A d \in Comms, m \in Sends, j \in Runs :
           ~(d = c /\ m = k /\ j = n) => run'[d][m][j] = run[d][m][j]
      /\ queue' \in [Comms -> [Sends -> QueueShape]]
      /\ QueuesOK' /\ RunsOK'
  BY <1>1, <1>2, RunEnds
<1>4. Shape'
  <2>1. torn' \subseteq Comms
    BY <1>1 DEF CommunicationInv, Shape
  <2> QED
    BY <1>1, <1>3, <2>1 DEF CommunicationInv, Shape, rowVars
<1>5. ReplacedOK'
  <2>1. CASE run[c][k][n].phase # "inserting"
    BY <1>1, <1>3, <2>1, QuietReplaced DEF rowVars
  <2>2. CASE run[c][k][n].phase = "inserting"
    <3>1. c \in torn' /\ \A d \in Comms \ torn' : d \notin torn /\ d # c
      BY <1>1, <2>2
    <3>2. ASSUME NEW d \in Comms \ torn'
          PROVE  /\ \A m \in Sends, j \in Runs : run'[d][m][j] = run[d][m][j]
                 /\ Replacing(d)' <=> Replacing(d)
      <4>1. \A m \in Sends, j \in Runs : run'[d][m][j] = run[d][m][j]
        BY <1>3, <3>1, <3>2
      <4> QED
        BY <3>2, <4>1, ReplacingIsLeft
    <3>3. UNCHANGED <<receipts, to>>
      BY <1>1 DEF rowVars
    <3> QED
      BY <3>1, <3>2, <3>3 DEF CommunicationInv, ReplacedOK
  <2> QED
    BY <2>1, <2>2
<1>6. torn \subseteq torn'
  BY <1>1
<1> QED
  BY <1>1, <1>3, <1>4, <1>5, <1>6, RunKeeps DEF rowVars

\* A report touches one receipt of a mail that was taken.
LEMMA TakeReportKeeps ==
  ASSUME CommunicationInv, NEW h \in Hooks, NEW c \in Comms, NEW a \in Addresses,
         NEW what \in Good \cup Bad, TakeReport(h, c, a, what)
  PROVE  CommunicationInv'
<1>1. Shape /\ receipts[c][a] # "none" /\ what # "none" /\ c \in told
  BY DEF TakeReport, CommunicationInv, ReceiptsOK, Good, Bad
<1>2. receipts' = [receipts EXCEPT ![c][a] = what]
  BY DEF TakeReport
<1>3. /\ reached' = IF what \in Good THEN [reached EXCEPT ![c] = @ \cup {a}] ELSE reached
      /\ hook' = [hook EXCEPT ![h] = [phase |-> "reading", on |-> c, result |-> "none"]]
      /\ UNCHANGED <<rowVars, mailVars, request, told, recorded, lost, torn>>
  BY DEF TakeReport
<1>4. /\ receipts' \in [Comms -> [Addresses -> {"none", "accepted", "failed"} \cup Good \cup Bad]]
      /\ receipts'[c][a] = what
      /\ \A d \in Comms, b \in Addresses : ~(d = c /\ b = a) => receipts'[d][b] = receipts[d][b]
  BY <1>1, <1>2 DEF Shape
<1>5. /\ reached' \in [Comms -> SUBSET Addresses]
      /\ \A d \in Comms : reached[d] \subseteq reached'[d]
      /\ what \in Good => a \in reached'[c]
  BY <1>1, <1>3 DEF Shape
<1>6. hook' \in [Hooks -> HookShape]
  BY <1>1, <1>3 DEF Shape, HookShape
<1>7. Shape'
  BY <1>1, <1>3, <1>4, <1>5, <1>6 DEF Shape, rowVars, mailVars
<1>8. QueuesOK' /\ RunsOK'
  BY <1>3, QueuesAreLeft, RunsAreLeft DEF CommunicationInv, mailVars
<1>9. ReplacedOK'
  <2>1. \A d \in Comms, b \in Addresses : receipts'[d][b] = "none" <=> receipts[d][b] = "none"
    BY <1>1, <1>4
  <2>2. UNCHANGED <<run, to, torn>> /\ \A d \in Comms : Replacing(d)' <=> Replacing(d)
    BY <1>3 DEF rowVars, mailVars, Replacing
  <2>3. \A d \in Comms, p \in Positions : to[d][p] \in Addresses
    BY <1>1, Addressed
  <2>4. \A d \in Comms, p \in Positions : receipts'[d][to[d][p]] = "none" <=> receipts[d][to[d][p]] = "none"
    BY <2>1, <2>3
  <2>5. \A d \in Comms, m \in Sends, j \in Runs : run[d][m][j].taken \cup run[d][m][j].failed \subseteq Positions
    BY <1>1 DEF Shape, RunShape
  <2>6. \A d \in Comms \ torn : \A m, i \in Sends : \A j, g \in Runs :
          run[d][m][j].phase = "inserting" /\ run[d][i][g].phase = "inserting" => m = i /\ j = g
    BY DEF CommunicationInv, ReplacedOK
  <2>7. ASSUME NEW d \in Comms \ torn, NEW m \in Sends, NEW j \in Runs, run[d][m][j].phase = "inserting"
        PROVE  /\ \A p \in (run[d][m][j].taken \cup run[d][m][j].failed) \ run[d][m][j].left :
                    receipts'[d][to[d][p]] # "none"
               /\ run[d][m][j].taken \cup run[d][m][j].failed = {} =>
                    \A b \in Addresses : receipts'[d][b] = "none"
    BY <2>1, <2>4, <2>5, <2>7 DEF CommunicationInv, ReplacedOK
  <2>8. ASSUME NEW d \in Comms \ torn
        PROVE  \/ Replacing(d)'
               \/ \A b \in Addresses : receipts'[d][b] = "none"
               \/ \A p \in Positions : receipts'[d][to[d][p]] # "none"
    BY <2>1, <2>2, <2>4 DEF CommunicationInv, ReplacedOK
  <2> QED
    BY <2>2, <2>6, <2>7, <2>8 DEF ReplacedOK
<1>10. ReceiptsOK'
  <2> SUFFICES ASSUME NEW d \in Comms, NEW b \in Addresses
               PROVE  /\ receipts'[d][b] \in {"accepted"} \cup Good \cup Bad => d \in told'
                      /\ receipts'[d][b] \in Good => b \in reached'[d]
    BY DEF ReceiptsOK
  <2>1. told' = told
    BY <1>3
  <2>2. CASE d = c /\ b = a
    BY <1>1, <1>4, <1>5, <2>1, <2>2
  <2>3. CASE ~(d = c /\ b = a)
    BY <1>4, <1>5, <2>1, <2>3 DEF CommunicationInv, ReceiptsOK
  <2> QED
    BY <2>2, <2>3
<1>11. DeliveriesOK'
  <2>1. UNCHANGED <<delivery, status, to, told, recorded, torn>>
    BY <1>3 DEF rowVars
  <2> QED
    BY <1>5, <2>1 DEF CommunicationInv, DeliveriesOK
<1>12. HooksOK'
  <2> SUFFICES ASSUME NEW g \in Hooks
               PROVE  /\ hook'[g].phase # "idle" => hook'[g].on \in Comms /\ hook'[g].on \in told'
                      /\ hook'[g].phase = "writing" => hook'[g].result # "none"
                      /\ hook'[g].phase = "writing" /\ hook'[g].result = "delivered" /\ hook'[g].on \notin torn' =>
                           \A p \in Positions : to'[hook'[g].on][p] \in reached'[hook'[g].on]
    BY DEF HooksOK
  <2>1. UNCHANGED <<to, told, torn>>
    BY <1>3 DEF rowVars
  <2>2. CASE g = h
    BY <1>1, <1>3, <2>1, <2>2 DEF Shape
  <2>3. CASE g # h
    <3>1. hook'[g] = hook[g]
      BY <1>1, <1>3, <2>3 DEF Shape
    <3> QED
      BY <1>5, <2>1, <3>1 DEF CommunicationInv, HooksOK
  <2> QED
    BY <2>2, <2>3
<1>13. RequestsOK'
  BY <1>3 DEF CommunicationInv, RequestsOK
<1> QED
  BY <1>7, <1>8, <1>9, <1>10, <1>11, <1>12, <1>13 DEF CommunicationInv

LEMMA AggregateOfStates ==
  ASSUME NEW states
  PROVE  /\ Aggregate(states) \in {"sent", "partially_sent", "failed", "delivered"}
         /\ Aggregate(states) = "delivered" => states # {} /\ states \subseteq Good
BY DEF Aggregate

\* What was read of whole receipts says that all were delivered only if they were.
LEMMA ReadReceiptsKeeps ==
  ASSUME CommunicationInv, NEW h \in Hooks, ReadReceipts(h)
  PROVE  CommunicationInv'
<1> DEFINE c == hook[h].on
           states == {receipts[c][a] : a \in Addresses} \ {"none"}
           result == Aggregate(states)
<1>1. /\ hook[h].phase = "reading"
      /\ torn' = IF Replacing(c) THEN torn \cup {c} ELSE torn
      /\ UNCHANGED <<rowVars, receipts, mailVars, request, reached, told, recorded, lost>>
  BY DEF ReadReceipts
<1>2. hook' = [hook EXCEPT ![h].phase = "writing", ![h].result = result]
  BY DEF ReadReceipts
<1>3. Shape /\ c \in Comms /\ c \in told
  BY <1>1 DEF CommunicationInv, HooksOK
<1>4. /\ result \in {"sent", "partially_sent", "failed", "delivered"}
      /\ result = "delivered" => states # {} /\ states \subseteq Good
  BY AggregateOfStates
<1>5. ASSUME result = "delivered", c \notin torn' PROVE \A p \in Positions : to[c][p] \in reached[c]
  <2>1. c \notin torn /\ ~Replacing(c)
    BY <1>1, <1>5
  <2>2. PICK a \in Addresses : receipts[c][a] # "none"
    BY <1>4, <1>5
  <2>3. \A p \in Positions : receipts[c][to[c][p]] # "none"
    BY <1>3, <2>1, <2>2 DEF CommunicationInv, ReplacedOK
  <2>4. \A p \in Positions : to[c][p] \in Addresses
    BY <1>3, Addressed
  <2>5. \A p \in Positions : receipts[c][to[c][p]] \in Good
    BY <1>4, <1>5, <2>3, <2>4
  <2> QED
    BY <1>3, <2>4, <2>5 DEF CommunicationInv, ReceiptsOK
<1> HIDE DEF c, states, result
<1>6. /\ hook' \in [Hooks -> HookShape]
      /\ hook'[h].phase = "writing" /\ hook'[h].result = result /\ hook'[h].on = c
      /\ \A g \in Hooks \ {h} : hook'[g] = hook[g]
  <2> DEFINE e == [hook[h] EXCEPT !.phase = "writing", !.result = result]
  <2>1. hook[h] \in HookShape
    BY <1>3 DEF Shape
  <2>2. e \in HookShape /\ e.phase = "writing" /\ e.result = result /\ e.on = c
    BY <1>4, <2>1 DEF HookShape, c
  <2>3. hook' = [hook EXCEPT ![h] = e]
    BY <1>2
  <2> HIDE DEF e
  <2> QED
    BY <1>3, <2>2, <2>3 DEF Shape
<1>7. torn \subseteq torn' /\ torn' \subseteq Comms
  BY <1>1, <1>3 DEF Shape
<1>8. Shape'
  BY <1>1, <1>3, <1>6, <1>7 DEF Shape, rowVars, mailVars
<1>9. QueuesOK' /\ RunsOK' /\ ReceiptsOK' /\ RequestsOK'
  <2>1. QueuesOK' /\ RunsOK'
    BY <1>1, QueuesAreLeft, RunsAreLeft DEF CommunicationInv, mailVars
  <2>2. ReceiptsOK'
    BY <1>1 DEF CommunicationInv, ReceiptsOK
  <2>3. RequestsOK'
    BY <1>1 DEF CommunicationInv, RequestsOK
  <2> QED
    BY <2>1, <2>2, <2>3
<1>10. ReplacedOK'
  BY <1>1, <1>7 DEF CommunicationInv, ReplacedOK, Replacing, rowVars, mailVars
<1>11. DeliveriesOK'
  BY <1>1, <1>7 DEF CommunicationInv, DeliveriesOK, rowVars
<1>12. HooksOK'
  <2> SUFFICES ASSUME NEW g \in Hooks
               PROVE  /\ hook'[g].phase # "idle" => hook'[g].on \in Comms /\ hook'[g].on \in told'
                      /\ hook'[g].phase = "writing" => hook'[g].result # "none"
                      /\ hook'[g].phase = "writing" /\ hook'[g].result = "delivered" /\ hook'[g].on \notin torn' =>
                           \A p \in Positions : to'[hook'[g].on][p] \in reached'[hook'[g].on]
    BY DEF HooksOK
  <2>1. UNCHANGED <<to, told, reached>>
    BY <1>1 DEF rowVars
  <2>2. CASE g = h
    BY <1>3, <1>4, <1>5, <1>6, <2>1, <2>2
  <2>3. CASE g # h
    BY <1>6, <1>7, <2>1, <2>3 DEF CommunicationInv, HooksOK
  <2> QED
    BY <2>2, <2>3
<1> QED
  BY <1>8, <1>9, <1>10, <1>11, <1>12 DEF CommunicationInv

LEMMA WriteAggregateKeeps ==
  ASSUME CommunicationInv, NEW h \in Hooks, WriteAggregate(h) \/ DropReport(h)
  PROVE  CommunicationInv'
<1> DEFINE c == hook[h].on
<1>1. /\ hook[h].phase # "idle"
      /\ hook' = [hook EXCEPT ![h] = NoHook]
      /\ UNCHANGED <<channel, to, receipts, mailVars, request, histVars>>
  BY DEF WriteAggregate, DropReport, rowVars
<1>2. Shape /\ c \in Comms /\ c \in told
  BY <1>1 DEF CommunicationInv, HooksOK
<1>3. /\ hook' \in [Hooks -> HookShape]
      /\ hook'[h].phase = "idle"
      /\ \A g \in Hooks \ {h} : hook'[g] = hook[g]
  BY <1>1, <1>2 DEF Shape, HookShape, NoHook
<1>4. \/ UNCHANGED <<delivery, status>>
      \/ /\ delivery' = [delivery EXCEPT ![c] = hook[h].result]
         /\ status' = [status EXCEPT ![c] = "failed"] \/ status' = status
         /\ hook[h].phase = "writing"
  BY DEF WriteAggregate, DropReport, rowVars
<1>5. hook[h].result \in {"none", "sent", "partially_sent", "failed", "delivered"}
  BY <1>2 DEF Shape, HookShape
<1>6. hook[h].phase = "writing" => hook[h].result # "none"
  BY DEF CommunicationInv, HooksOK
<1>7. hook[h].phase = "writing" /\ hook[h].result = "delivered" /\ c \notin torn =>
        \A p \in Positions : to[c][p] \in reached[c]
  BY DEF CommunicationInv, HooksOK
<1> HIDE DEF c
<1>8. /\ status' \in [Comms -> {"draft", "published", "failed"}]
      /\ delivery' \in [Comms -> {"not_requested", "queued", "sent", "partially_sent",
                                  "failed", "skipped", "delivered"}]
  <2> DEFINE Deliveries == {"not_requested", "queued", "sent", "partially_sent",
                            "failed", "skipped", "delivered"}
  <2>1. /\ status \in [Comms -> {"draft", "published", "failed"}]
        /\ delivery \in [Comms -> Deliveries]
    BY <1>2 DEF Shape
  <2>2. hook[h].phase = "writing" => hook[h].result \in Deliveries
    BY <1>5, <1>6
  <2> HIDE DEF Deliveries
  <2>3. CASE UNCHANGED <<delivery, status>>
    BY <2>1, <2>3 DEF Deliveries
  <2>4. ASSUME delivery' = [delivery EXCEPT ![c] = hook[h].result],
               status' = [status EXCEPT ![c] = "failed"] \/ status' = status,
               hook[h].phase = "writing"
        PROVE  /\ status' \in [Comms -> {"draft", "published", "failed"}]
               /\ delivery' \in [Comms -> Deliveries]
    BY <1>2, <2>1, <2>2, <2>4
  <2> QED
    BY <1>4, <2>3, <2>4 DEF Deliveries
<1>9. Shape'
  BY <1>1, <1>2, <1>3, <1>8 DEF Shape, mailVars, histVars
<1>10. DeliveriesOK'
  <2> SUFFICES ASSUME NEW d \in Comms
               PROVE  /\ delivery'[d] \in {"sent", "partially_sent", "delivered"} => d \in told'
                      /\ delivery'[d] = "not_requested" /\ status'[d] = "published" => d \in recorded' \cup told'
                      /\ delivery'[d] = "delivered" /\ d \notin torn' => \A p \in Positions : to'[d][p] \in reached'[d]
    BY DEF DeliveriesOK
  <2>1. UNCHANGED <<to, told, recorded, torn, reached>>
    BY <1>1 DEF histVars
  <2>2. CASE UNCHANGED <<delivery, status>>
    BY <2>1, <2>2 DEF CommunicationInv, DeliveriesOK
  <2>3. CASE d # c
    <3>1. delivery'[d] = delivery[d] /\ status'[d] = status[d]
      BY <1>2, <1>4, <2>3 DEF Shape
    <3> QED
      BY <2>1, <3>1 DEF CommunicationInv, DeliveriesOK
  <2>4. CASE d = c /\ ~UNCHANGED <<delivery, status>>
    <3>1. hook[h].phase = "writing" /\ delivery'[d] = hook[h].result
      BY <1>2, <1>4, <2>4 DEF Shape
    <3> QED
      BY <1>2, <1>6, <1>7, <2>1, <2>4, <3>1
  <2> QED
    BY <2>2, <2>3, <2>4
<1>11. QueuesOK' /\ RunsOK' /\ ReplacedOK'
  <2>1. UNCHANGED <<queue, sends, run, receipts, to, told, torn>>
    BY <1>1 DEF mailVars, histVars
  <2>2. QueuesOK' /\ RunsOK'
    BY <2>1, QueuesAreLeft, RunsAreLeft DEF CommunicationInv
  <2>3. ReplacedOK'
    BY <2>1 DEF CommunicationInv, ReplacedOK, Replacing
  <2> QED
    BY <2>2, <2>3
<1>12. ReceiptsOK' /\ HooksOK' /\ RequestsOK'
  <2>1. UNCHANGED <<receipts, request, to, told, torn, reached>>
    BY <1>1 DEF histVars
  <2>2. HooksOK'
    BY <1>3, <2>1 DEF CommunicationInv, HooksOK
  <2>3. ReceiptsOK' /\ RequestsOK'
    BY <2>1 DEF CommunicationInv, ReceiptsOK, RequestsOK
  <2> QED
    BY <2>2, <2>3
<1> QED
  BY <1>9, <1>10, <1>11, <1>12 DEF CommunicationInv

LEMMA CommunicationStepKeeps ==
  CommunicationInv /\ [CommunicationNext]_communicationVars => CommunicationInv'
<1> SUFFICES ASSUME CommunicationInv, [CommunicationNext]_communicationVars PROVE CommunicationInv'
  OBVIOUS
<1>1. ASSUME NEW w \in Publishers, NEW c \in Comms, ReadForSend(w, c) \/ ReadForRecord(w, c)
      PROVE  CommunicationInv'
  BY <1>1, BeginKeeps DEF ReadForSend, ReadForRecord
<1>2. ASSUME NEW w \in Publishers, RequestStep(w) \/ Vanish(w) PROVE CommunicationInv'
  BY <1>2, SnapshotKeeps, EnqueueKeeps, ReportKeeps, RecordKeeps, PostToTeamsKeeps, VanishKeeps DEF RequestStep
<1>3. ASSUME NEW c \in Comms, NEW k \in Sends, Deliver(c, k) \/ Expire(c, k) PROVE CommunicationInv'
  BY <1>3, DeliverKeeps, ExpireKeeps
<1>4. ASSUME NEW c \in Comms, NEW k \in Sends, NEW n \in Runs, RunStep(c, k, n) \/ LoseLock(c, k, n)
      PROVE  CommunicationInv'
  BY <1>4, MailKeeps, SkipMailingKeeps, ClearReceiptsKeeps, InsertReceiptKeeps, WriteResultKeeps, AbortKeeps,
     LoseLockKeeps DEF RunStep
<1>5. ASSUME NEW h \in Hooks, NEW c \in Comms, NEW a \in Addresses, NEW what \in Good \cup Bad,
             TakeReport(h, c, a, what)
      PROVE  CommunicationInv'
  BY <1>5, TakeReportKeeps
<1>6. ASSUME NEW h \in Hooks, HookStep(h) \/ DropReport(h) PROVE CommunicationInv'
  BY <1>6, ReadReceiptsKeeps, WriteAggregateKeeps DEF HookStep
<1>7. CASE UNCHANGED communicationVars
  <2>1. UNCHANGED <<channel, to, status, delivery, receipts, sends, queue, run, request, hook,
                    reached, told, recorded, lost, torn>>
    BY <1>7 DEF communicationVars, rowVars, mailVars, histVars
  <2>2. Shape' /\ DeliveriesOK' /\ RequestsOK'
    BY <2>1 DEF CommunicationInv, Shape, DeliveriesOK, RequestsOK
  <2> QED
    BY <2>1, <2>2, RequestKeeps
<1> QED
  BY <1>1, <1>2, <1>3, <1>4, <1>5, <1>6, <1>7 DEF CommunicationNext

LEMMA CommunicationInvariant == CommunicationSpec => []CommunicationInv
BY CommunicationInitInv, CommunicationStepKeeps, PTL DEF CommunicationSpec

\* Every variable has its type, and a message that is locked is in the hands of a
\* run that has not ended.
THEOREM CommunicationTypeCorrect == CommunicationSpec => []CommunicationTypeOK
<1>1. CommunicationInv => CommunicationTypeOK
  <2> SUFFICES ASSUME CommunicationInv PROVE CommunicationTypeOK
    OBVIOUS
  <2>1. Shape /\ QueuesOK
    BY DEF CommunicationInv
  <2>2. ASSUME NEW c \in Comms, NEW k \in Sends
        PROVE  /\ queue[c][k].state \in {"none", "queued", "locked", "completed", "dead"}
               /\ queue[c][k].delivered \in 0 .. MaxDeliveries
               /\ queue[c][k].state = "none" <=> k > sends[c]
               /\ queue[c][k].state = "locked" =>
                    run[c][k][queue[c][k].delivered].phase \notin {"none", "done"}
    BY <2>1 DEF Shape, QueueShape, QueuesOK
  <2> QED
    BY <2>1, <2>2 DEF CommunicationTypeOK, Shape
<1> QED
  BY CommunicationInvariant, <1>1, PTL

\* An audience counts as told only when some mail to it or post was taken, or a
\* person recorded theirs.
THEOREM CountedWereTold == CommunicationSpec => []CountedWasTold
<1>1. CommunicationInv => CountedWasTold
  <2> SUFFICES ASSUME CommunicationInv, NEW c \in Comms, Counted(c) PROVE c \in recorded \cup told
    BY DEF CountedWasTold
  <2>1. \/ delivery[c] \in {"sent", "partially_sent", "delivered"}
        \/ delivery[c] = "not_requested" /\ status[c] = "published"
    BY DEF Counted, State, CommunicationInv, Shape
  <2> QED
    BY <2>1 DEF CommunicationInv, DeliveriesOK
<1> QED
  BY CommunicationInvariant, <1>1, PTL

\* What is marked delivered was delivered to everybody, unless its receipts were
\* torn when they were read or left.
THEOREM DeliveredWereReported == CommunicationSpec => []DeliveredWasReported
<1>1. CommunicationInv => DeliveredWasReported
  BY DEF CommunicationInv, DeliveriesOK, DeliveredWasReported
<1> QED
  BY CommunicationInvariant, <1>1, PTL

-----------------------------------------------------------------------------
(* Recorded by a person: what holds where RecordedIsCounted does not.         *)

\* What was recorded is no draft, and a row that is marked failed was tried.
MarkOK(c) ==
  /\ c \in recorded => status[c] # "draft"
  /\ status[c] = "failed" => delivery[c] \notin {"not_requested", "queued"}

\* Kept beside CommunicationInv.
MarksOK == \A c \in Comms : MarkOK(c)

\* The steps that write neither the marks of a row nor who recorded it.
LEMMA OthersLeaveMarks ==
  ASSUME CommunicationInv, CommunicationNext,
         \A w \in Publishers : ~Snapshot(w) /\ ~Report(w) /\ ~Record(w),
         \A c \in Comms, k \in Sends, n \in Runs : ~WriteResult(c, k, n),
         \A h \in Hooks : ~WriteAggregate(h)
  PROVE  UNCHANGED <<status, delivery, recorded>>
<1>1. ASSUME NEW w \in Publishers, RequestStep(w) \/ Vanish(w) PROVE UNCHANGED <<status, delivery, recorded>>
  BY <1>1 DEF RequestStep, Enqueue, EnqueueFails, PostToTeams, Vanish, rowVars, histVars
<1>2. ASSUME NEW w \in Publishers, NEW c \in Comms, ReadForSend(w, c) \/ ReadForRecord(w, c)
      PROVE  UNCHANGED <<status, delivery, recorded>>
  BY <1>2 DEF ReadForSend, ReadForRecord, Begin, rowVars, histVars
<1>3. ASSUME NEW c \in Comms, NEW k \in Sends, Deliver(c, k) \/ Expire(c, k)
      PROVE  UNCHANGED <<status, delivery, recorded>>
  BY <1>3 DEF Deliver, Expire, rowVars, histVars
<1>4. ASSUME NEW c \in Comms, NEW k \in Sends, NEW n \in Runs, RunStep(c, k, n) \/ LoseLock(c, k, n)
      PROVE  UNCHANGED <<status, delivery, recorded>>
  BY <1>4 DEF RunStep, Mail, SkipMailing, ClearReceipts, InsertReceipt, Abort, LoseLock, rowVars, histVars
<1>5. ASSUME NEW h \in Hooks, HookStep(h) \/ DropReport(h) PROVE UNCHANGED <<status, delivery, recorded>>
  BY <1>5 DEF HookStep, ReadReceipts, DropReport, rowVars, histVars
<1>6. ASSUME NEW h \in Hooks, NEW c \in Comms, NEW a \in Addresses, NEW what \in Good \cup Bad,
             TakeReport(h, c, a, what)
      PROVE  UNCHANGED <<status, delivery, recorded>>
  BY <1>6 DEF TakeReport, rowVars
<1> QED  BY <1>1, <1>2, <1>3, <1>4, <1>5, <1>6 DEF CommunicationNext

\* Sending again takes the record back, and only a report marks a row failed.
LEMMA MarksKept ==
  CommunicationInv /\ MarksOK /\ [CommunicationNext]_communicationVars => MarksOK'
<1> SUFFICES ASSUME CommunicationInv, [CommunicationNext]_communicationVars,
                    NEW d \in Comms, MarkOK(d)
             PROVE  MarkOK(d)'
  BY DEF MarksOK
<1> Shape /\ RequestsOK /\ HooksOK
  BY DEF CommunicationInv
<1>1. ASSUME NEW w \in Publishers, Snapshot(w) PROVE MarkOK(d)'
  BY <1>1 DEF Snapshot, MarkOK, Shape
<1>2. ASSUME NEW w \in Publishers, Report(w) PROVE MarkOK(d)'
  <2> DEFINE c == request[w].on
  <2>1. c \in Comms /\ request[w].result \in {"sent", "failed", "skipped"}
    BY <1>2 DEF Report, RequestsOK, Shape, RequestShape
  <2>2. /\ delivery'[d] = IF d = c THEN request[w].result ELSE delivery[d]
        /\ status'[d] = status[d] \/ (d = c /\ status'[d] = "draft")
        /\ recorded' = recorded \ {c}
    BY <1>2, <2>1 DEF Report, Shape
  <2> QED  BY <2>1, <2>2 DEF MarkOK
<1>3. ASSUME NEW w \in Publishers, Record(w) PROVE MarkOK(d)'
  BY <1>3 DEF Record, MarkOK, Shape
<1>4. ASSUME NEW c \in Comms, NEW k \in Sends, NEW n \in Runs, WriteResult(c, k, n) PROVE MarkOK(d)'
  <2>1. Result(run[c][k][n]) \notin {"not_requested", "queued"}
    BY DEF Result
  <2>2. /\ delivery'[d] = delivery[d] \/ delivery'[d] = Result(run[c][k][n])
        /\ UNCHANGED <<status, recorded>>
    BY <1>4 DEF WriteResult, Shape, histVars
  <2> QED  BY <2>1, <2>2 DEF MarkOK
<1>5. ASSUME NEW h \in Hooks, WriteAggregate(h) PROVE MarkOK(d)'
  <2>1. /\ recorded' = recorded
        /\ hook[h].result \in {"sent", "partially_sent", "failed", "delivered"}
    BY <1>5 DEF WriteAggregate, HooksOK, Shape, HookShape, histVars
  <2>2. \/ delivery'[d] = delivery[d] /\ status'[d] = status[d]
        \/ /\ delivery'[d] = hook[h].result
           /\ status'[d] = status[d] \/ status'[d] = "failed"
    BY <1>5 DEF WriteAggregate, Shape
  <2> QED  BY <2>1, <2>2 DEF MarkOK
<1>6. CASE UNCHANGED communicationVars
  BY <1>6 DEF communicationVars, rowVars, histVars, MarkOK
<1>7. CASE UNCHANGED <<status, delivery, recorded>>
  BY <1>7 DEF MarkOK
<1> QED  BY <1>1, <1>2, <1>3, <1>4, <1>5, <1>6, <1>7, OthersLeaveMarks

\* What a person recorded as sent counts, unless mailing it was tried: it is queued
\* still, or it failed, was skipped, or bounced before it was delivered. Recording is
\* never lost but to an attempt, which is what RecordedIsCounted is refuted by.
THEOREM RecordedCountsUnlessTried == CommunicationSpec => []RecordedIsCountedUnlessTried
<1>1. CommunicationInit => MarksOK
  BY DEF CommunicationInit, MarksOK, MarkOK
<1>2. CommunicationSpec => []MarksOK
  BY <1>1, CommunicationInvariant, MarksKept, PTL DEF CommunicationSpec
<1>3. CommunicationInv /\ MarksOK => RecordedIsCountedUnlessTried
  <2> SUFFICES ASSUME CommunicationInv, NEW c \in recorded, MarkOK(c)
               PROVE  \/ Counted(c)
                      \/ delivery[c] \in {"queued", "failed", "skipped"}
                      \/ delivery[c] = "delivered" /\ status[c] = "failed"
    BY DEF RecordedIsCountedUnlessTried, CommunicationInv, Shape, MarksOK
  <2> QED  BY DEF CommunicationInv, Shape, MarkOK, Counted, State
<1> QED  BY <1>2, <1>3, CommunicationInvariant, PTL

=============================================================================
