--------------------------- MODULE DetourWorkflow ---------------------------
(* The life of a Detour: the acts people perform on it and the feed of Avail. *)
(*                                                                            *)
(* Every act of lib/detourWorkflow locks the Detour's row, decides on what it *)
(* then reads and writes in the same transaction (performDetourAct), so an    *)
(* act is one step, but two of them: confirming that the Detour was built in  *)
(* Avail, and overriding its conflicts, also read every other open Detour,    *)
(* and those rows are not locked (lockAndLoad, loadDetourConflictContext).    *)
(* They are a Decide and a Commit, with whatever others do in between.        *)
(* availDetoursSync looks a Detour up on the pool, outside the transaction in *)
(* which it then writes: a Lookup and an Apply.                               *)
(*                                                                            *)
(* What a reviewer approves of a Detour (dates, routes, place) is its place:  *)
(* two Detours overlap when their places are equal. Not modelled: the owner   *)
(* (act "assign"), the fields nobody reviews, the history entries, the time   *)
(* at which Avail was last seen to report the Detour.                         *)
EXTENDS FiniteSets

CONSTANTS
  Detours,    \* the identifiers rows can take
  Places,     \* what the reviewed facts can say
  Externals,  \* the identifiers Avail gives to its own detours
  Staff,      \* the requests that perform an act in two steps
  None        \* no row, no identifier, nothing written

ASSUME NoneIsApart == None \notin Detours \cup Places \cup Externals

VARIABLES
  state,      \* lifecycle_state, "none" before the row is inserted
  deleted,    \* the rows whose is_deleted is set
  mode,       \* fulfillment_mode
  confirmed,  \* the rows whose avail_build_confirmed_at is set
  review,     \* review_status
  source,     \* who created the row
  edited,     \* the rows whose last_edited_manually is set
  external,   \* external_detour_id
  facts,      \* the reviewed facts
  covered,    \* conflict_override_ids, {} when there is no override
  work,       \* what each two-step act has decided
  feed,       \* what the synchronisation has looked up
  settled,    \* history: the confirmed rows whose facts did not change since
  written,    \* history: the facts a person last wrote on the row
  reviewed,   \* history: the facts when the review was last current
  raced       \* history: rows written by a person between a Lookup and its Apply

workflow == <<state, mode, confirmed, covered>>
record   == <<deleted, source, external, edited, facts>>
history  == <<settled, written, reviewed, raced>>
vars     == <<workflow, record, review, history, work, feed>>

States == {"none", "awaiting_fulfillment", "fulfilled", "fulfillment_failed", "closed"}
Modes  == {"avail", "fixed_route_manual"}

NoWork == [act |-> "idle", on |-> None, ids |-> {}]
NoFeed == [stage |-> "idle", id |-> None, row |-> None, keep |-> FALSE, place |-> None]

Init ==
  /\ state = [d \in Detours |-> "none"]
  /\ mode = [d \in Detours |-> "fixed_route_manual"]
  /\ review = [d \in Detours |-> "current"]
  /\ source = [d \in Detours |-> "manual"]
  /\ external = [d \in Detours |-> None]
  /\ facts = [d \in Detours |-> None]
  /\ covered = [d \in Detours |-> {}]
  /\ deleted = {} /\ confirmed = {} /\ edited = {}
  /\ work = [w \in Staff |-> NoWork]
  /\ feed = NoFeed
  /\ settled = {} /\ raced = {}
  /\ written = [d \in Detours |-> None]
  /\ reviewed = [d \in Detours |-> None]

-----------------------------------------------------------------------------
(* What a step reads.                                                         *)

Present(d) == state[d] # "none" /\ d \notin deleted
Open(d) == Present(d) /\ state[d] # "closed"
Locked(d) == \E w \in Staff : work[w].on = d

\* No act in flight holds the row, which exists and is not deleted.
Available(d) == Present(d) /\ ~Locked(d)

\* Mutant of Conflicts: a Detour still waiting to be entered in Avail is none.
ConflictsFulfilled(d) ==
  {e \in Detours \ {d} : Open(d) /\ Open(e) /\ facts[e] = facts[d] /\ state[e] = "fulfilled"}

\* The other open Detours in the same place, with or without an override.
Conflicts(d) == {e \in Detours \ {d} : Open(d) /\ Open(e) /\ facts[e] = facts[d]}

\* conflictStatus: unless there is none, or every one is known to the override.
Unresolved(conflicts, ids) == ~(conflicts \subseteq ids)

\* The unique index on external_detour_id: it also holds the deleted rows.
FreeFor(x, d) == x = None \/ \A e \in Detours \ {d} : external[e] # x

\* COALESCE(@external_detour_id, external_detour_id).
Known(d, x) == IF x = None THEN external[d] ELSE x

StartState(m) == IF m = "avail" THEN "awaiting_fulfillment" ELSE "fulfilled"

\* Writing facts on a row ends what was settled about it, if they differ.
Unsettled(d, p) == IF p = facts[d] THEN settled ELSE settled \ {d}

-----------------------------------------------------------------------------
(* The acts of one step.                                                      *)

\* "create" and "promote": the caller inserts the row and starts its workflow.
Start(d, m, p) ==
  /\ state[d] = "none"
  /\ state' = [state EXCEPT ![d] = StartState(m)]
  /\ mode' = [mode EXCEPT ![d] = m]
  /\ facts' = [facts EXCEPT ![d] = p]
  /\ written' = [written EXCEPT ![d] = p]
  /\ reviewed' = [reviewed EXCEPT ![d] = p]
  /\ UNCHANGED <<confirmed, covered, deleted, source, external, edited, review,
                 settled, raced, work, feed>>

\* "avail_entry" with result "conflict" or "not_entered".
RecordAttempt(d, to, x) ==
  /\ Available(d) /\ mode[d] = "avail"
  /\ state[d] \in {"awaiting_fulfillment", "fulfillment_failed"}
  /\ FreeFor(x, d)
  /\ state' = [state EXCEPT ![d] = to]
  /\ external' = [external EXCEPT ![d] = Known(d, x)]
  /\ confirmed' = confirmed \ {d}
  /\ UNCHANGED <<mode, covered, deleted, source, edited, facts, review, history, work, feed>>

\* "manual_fallback".
FallBack(d) ==
  /\ Available(d) /\ mode[d] = "avail"
  /\ state[d] = "fulfillment_failed" /\ review[d] = "current"
  /\ state' = [state EXCEPT ![d] = "fulfilled"]
  /\ mode' = [mode EXCEPT ![d] = "fixed_route_manual"]
  /\ UNCHANGED <<confirmed, covered, record, review, history, work, feed>>

\* "close".
Close(d) ==
  /\ Available(d) /\ state[d] # "closed"
  /\ state' = [state EXCEPT ![d] = "closed"]
  /\ UNCHANGED <<mode, confirmed, covered, record, review, history, work, feed>>

\* Mutant of Raises: a Detour that is fulfilled is past its review.
RaisesBeforeFulfilled(d, p) == state[d] \notin {"closed", "fulfilled"} /\ p # facts[d]

\* decide.ts, "record_edit": an edit of a reviewed fact asks for a new review.
Raises(d, p) == state[d] # "closed" /\ p # facts[d]

\* "record_edit", and then the update of the row, in one transaction.
Edit(d, p) ==
  /\ Available(d)
  /\ review' = IF Raises(d, p) THEN [review EXCEPT ![d] = "needs_review"] ELSE review
  /\ facts' = [facts EXCEPT ![d] = p]
  /\ edited' = IF source[d] = "avail" THEN edited \cup {d} ELSE edited
  /\ settled' = Unsettled(d, p)
  /\ written' = [written EXCEPT ![d] = p]
  /\ raced' = IF feed.row = d /\ ~feed.keep THEN raced \cup {d} ELSE raced \ {d}
  /\ UNCHANGED <<workflow, deleted, source, external, reviewed, work, feed>>

\* "complete_re_review".
CompleteReview(d) ==
  /\ Available(d) /\ review[d] = "needs_review"
  /\ review' = [review EXCEPT ![d] = "current"]
  /\ reviewed' = [reviewed EXCEPT ![d] = facts[d]]
  /\ UNCHANGED <<workflow, record, settled, written, raced, work, feed>>

\* detoursDelete: no act of the workflow, one UPDATE.
Delete(d) ==
  /\ Available(d)
  /\ deleted' = deleted \cup {d}
  /\ UNCHANGED <<workflow, source, external, edited, facts, review, history, work, feed>>

-----------------------------------------------------------------------------
(* The acts of two steps.                                                     *)

\* The row is locked, the other rows are read, and the act is accepted. (An act
\* that is refused changes nothing and is no step.)
Decide(w, d, decision) ==
  /\ work[w].act = "idle" /\ Available(d)
  /\ work' = [work EXCEPT ![w] = decision]
  /\ UNCHANGED <<workflow, record, review, history, feed>>

\* "avail_entry" with result "entered".
DecideEntered(w, d) ==
  /\ mode[d] = "avail" /\ state[d] \in {"awaiting_fulfillment", "fulfillment_failed"}
  /\ review[d] = "current" /\ ~Unresolved(Conflicts(d), covered[d])
  /\ Decide(w, d, [act |-> "entered", on |-> d, ids |-> {}])

\* x came with the request.
CommitEntered(w, x) ==
  LET d == work[w].on IN
  /\ work[w].act = "entered" /\ FreeFor(x, d)
  /\ state' = [state EXCEPT ![d] = "fulfilled"]
  /\ external' = [external EXCEPT ![d] = Known(d, x)]
  /\ confirmed' = confirmed \cup {d}
  /\ settled' = settled \cup {d}
  /\ work' = [work EXCEPT ![w] = NoWork]
  /\ UNCHANGED <<mode, covered, deleted, source, edited, facts, review,
                 written, reviewed, raced, feed>>

\* "override_conflict": it covers the conflicts known when it was decided.
DecideOverride(w, d) ==
  /\ state[d] # "closed" /\ Conflicts(d) # {}
  /\ Decide(w, d, [act |-> "override", on |-> d, ids |-> Conflicts(d)])

CommitOverride(w) ==
  /\ work[w].act = "override"
  /\ covered' = [covered EXCEPT ![work[w].on] = work[w].ids]
  /\ work' = [work EXCEPT ![w] = NoWork]
  /\ UNCHANGED <<state, mode, confirmed, record, review, history, feed>>

\* The database or the host fails, or the identifier is taken: nothing is written.
Rollback(w) ==
  /\ work[w].act # "idle"
  /\ work' = [work EXCEPT ![w] = NoWork]
  /\ UNCHANGED <<workflow, record, review, history, feed>>

-----------------------------------------------------------------------------
(* The synchronisation with Avail, one detour of the feed at a time.          *)

\* Mutant of Preserved: the flag an edit leaves is not looked at.
PreservedIfManual(d) == source[d] = "manual"

\* A row of OnBoard, or one of Avail that a person has edited since.
Preserved(d) == source[d] = "manual" \/ d \in edited

Lookup(x, p) ==
  /\ feed.stage = "idle"
  /\ \/ \E d \in Detours :
          /\ Present(d) /\ external[d] = x
          /\ feed' = [stage |-> "looked", id |-> x, row |-> d, keep |-> Preserved(d), place |-> p]
     \/ /\ \A d \in Detours : Present(d) => external[d] # x
        /\ feed' = [stage |-> "looked", id |-> x, row |-> None, keep |-> FALSE, place |-> p]
  /\ UNCHANGED <<workflow, record, review, history, work>>

\* No row: one is inserted, fulfilled, and the observation recorded.
ApplyNew(d) ==
  /\ feed.stage = "looked" /\ feed.row = None
  /\ state[d] = "none" /\ FreeFor(feed.id, d)
  /\ state' = [state EXCEPT ![d] = "fulfilled"]
  /\ mode' = [mode EXCEPT ![d] = "avail"]
  /\ source' = [source EXCEPT ![d] = "avail"]
  /\ external' = [external EXCEPT ![d] = feed.id]
  /\ facts' = [facts EXCEPT ![d] = feed.place]
  /\ feed' = NoFeed
  /\ UNCHANGED <<confirmed, covered, deleted, edited, review, history, work>>

\* The row Avail created and nobody had edited: its facts are overwritten.
ApplyRefresh ==
  LET d == feed.row IN
  /\ feed.stage = "looked" /\ d # None /\ ~feed.keep
  /\ Available(d)
  /\ facts' = [facts EXCEPT ![d] = feed.place]
  /\ settled' = Unsettled(d, feed.place)
  /\ feed' = NoFeed
  /\ UNCHANGED <<workflow, deleted, source, external, edited, review,
                 written, reviewed, raced, work>>

\* The row is preserved (only the sighting is recorded), or the transaction is
\* rolled back: the row is gone, the identifier taken, the database away.
ApplyNothing ==
  /\ feed.stage = "looked"
  /\ feed' = NoFeed
  /\ UNCHANGED <<workflow, record, review, history, work>>

-----------------------------------------------------------------------------
OneStepAct ==
  \E d \in Detours :
    \/ \E m \in Modes, p \in Places : Start(d, m, p)
    \/ \E to \in {"fulfillment_failed", "awaiting_fulfillment"}, x \in Externals \cup {None} :
         RecordAttempt(d, to, x)
    \/ FallBack(d)
    \/ Close(d)
    \/ \E p \in Places : Edit(d, p)
    \/ CompleteReview(d)
    \/ Delete(d)

TwoStepAct ==
  \E w \in Staff :
    \/ \E d \in Detours : DecideEntered(w, d) \/ DecideOverride(w, d)
    \/ \E x \in Externals \cup {None} : CommitEntered(w, x)
    \/ CommitOverride(w)
    \/ Rollback(w)

Sync ==
  \/ \E x \in Externals, p \in Places : Lookup(x, p)
  \/ \E d \in Detours : ApplyNew(d)
  \/ ApplyRefresh
  \/ ApplyNothing

Next == OneStepAct \/ TwoStepAct \/ Sync

Spec == Init /\ [][Next]_vars

-----------------------------------------------------------------------------
(* Properties.                                                                *)

WorkType == [act : {"idle", "entered", "override"}, on : Detours \cup {None},
             ids : SUBSET Detours]
FeedType == [stage : {"idle", "looked"}, id : Externals \cup {None},
             row : Detours \cup {None}, keep : BOOLEAN, place : Places \cup {None}]

\* Every variable has its type; a Detour run by hand is never waiting for
\* Avail, a confirmed build is one of an Avail-backed Detour that has left the
\* states an entry is made from, one Avail identifier is on one row, and a row
\* is held by one act (decide.ts: avail_entry, manual_fallback; migration-017's
\* unique index; the row lock of lockAndLoad).
DetourTypeOK ==
  /\ state \in [Detours -> States] /\ mode \in [Detours -> Modes]
  /\ review \in [Detours -> {"current", "needs_review"}]
  /\ source \in [Detours -> {"manual", "avail"}]
  /\ external \in [Detours -> Externals \cup {None}]
  /\ facts \in [Detours -> Places \cup {None}]
  /\ covered \in [Detours -> SUBSET Detours]
  /\ deleted \subseteq Detours /\ confirmed \subseteq Detours /\ edited \subseteq Detours
  /\ work \in [Staff -> WorkType] /\ feed \in FeedType
  /\ settled \subseteq confirmed /\ raced \subseteq Detours
  /\ written \in [Detours -> Places \cup {None}]
  /\ reviewed \in [Detours -> Places \cup {None}]
  /\ \A d \in Detours :
       /\ mode[d] = "fixed_route_manual" => state[d] \in {"none", "fulfilled", "closed"}
       /\ d \in confirmed => mode[d] = "avail" /\ state[d] \in {"fulfilled", "closed"}
       /\ \A e \in Detours \ {d} : external[d] # None => external[d] # external[e]
  /\ \A v, w \in Staff : v # w /\ work[v].on = work[w].on => work[v].act = "idle"

\* Of two open Detours in one place that were both confirmed as built in Avail
\* as they now stand, one was confirmed by someone who had overridden the
\* overlap with the other: two confirmations, or a confirmation and an edit,
\* that read each other's rows without a lock cannot both miss it (decide.ts:
\* "conflict_unresolved"; loadDetourConflictContext takes no lock).
ConfirmedOverlapIsOverridden ==
  \A d, e \in settled :
    d # e /\ Open(d) /\ Open(e) /\ facts[d] = facts[e] => e \in covered[d] \/ d \in covered[e]

\* What a person wrote on a Detour stands, whatever Avail reports after it,
\* but for a correction made while the synchronisation held an older lookup of
\* that row (availDetoursSync.ts: "the human correction wins, every run").
CorrectionStands ==
  \A d \in Detours : written[d] # None /\ d \notin raced => facts[d] = written[d]

\* An open Detour OnBoard created whose review is current has the facts that
\* were reviewed: no order of edits, entries and observations changes them
\* without raising the review (decide.ts: record_edit; detoursUpdate.ts).
UnreviewedIsOutstanding ==
  \A d \in Detours :
    Open(d) /\ source[d] = "manual" /\ review[d] = "current" => facts[d] = reviewed[d]

\* A closed Detour is never re-opened, re-moded or confirmed by an act that had
\* loaded it before it was closed (decide.ts and the row lock of lockAndLoad).
ClosedStays ==
  [][\A d \in Detours : state[d] = "closed" =>
       /\ state'[d] = "closed" /\ mode'[d] = mode[d] /\ covered'[d] = covered[d]
       /\ d \in confirmed' <=> d \in confirmed]_vars
=============================================================================
