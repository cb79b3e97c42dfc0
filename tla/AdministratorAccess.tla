------------------------ MODULE AdministratorAccess ------------------------
(***************************************************************************)
(* Access Management: OnBoard's roles are assignments in the tenant's      *)
(* directory.  A change to an administrator's role (OCC.Admin or           *)
(* OCC.AccessAdmin) waits for a second administrator, who claims it, looks *)
(* at the directory and carries it out.  What was granted for a time is    *)
(* taken away by an expiry run.  The other roles are left out here: they   *)
(* are changed at once and let nobody in again.                            *)
(*                                                                         *)
(* The directory answers listings from a replica that lags behind, and its *)
(* calls can fail before or after they took effect.  Requests are handled  *)
(* concurrently, each by a worker; every worker may stop at any point.     *)
(***************************************************************************)
EXTENDS Naturals, FiniteSets

CONSTANTS
    People,        \* who can hold a role
    Roles,         \* the administrators' roles
    Initial,       \* the assignments OnBoard starts with
    Temporary,     \* those of them that have an expiry
    Asked,         \* what is asked for
    Actors,        \* who may call the API: access administrators
    Nobody,        \* no actor
    NoTask,        \* no task
    Minimum,       \* minimumRecoverableAdministrators (1)
    Workers,       \* requests being handled
    MaxChanges,    \* bound on the changes put up for approval
    MaxClaims,     \* bound on the claims taken on one change
    MaxRows        \* bound on the metadata rows of an assignment

Assignments == People \X Roles
Changes == 1 .. MaxChanges

\* Who can still let somebody in again.
AdministratorsIn(assignments) == {a[1] : a \in assignments}

Tasks == [action : {"grant", "revoke"}, on : Assignments, temporary : BOOLEAN]

ASSUME AccessAssumption ==
    /\ Asked \subseteq Tasks
    /\ Nobody \notin Actors /\ NoTask \notin Tasks
    /\ Initial \subseteq Assignments /\ Temporary \subseteq Initial
    /\ Minimum \in Nat /\ MaxChanges \in Nat /\ MaxClaims \in Nat /\ MaxRows \in Nat \ {0}
    /\ IsFiniteSet(People) /\ IsFiniteSet(Roles)
    /\ Cardinality(AdministratorsIn(Initial)) >= Minimum

VARIABLES
    directory,   \* the assignments in the directory
    listing,     \* what the directory's listings show
    status,      \* AccessManagementChanges.status (none: no row)
    task,        \* what the change asks for
    requester,   \* requested_by_id
    claim,       \* claims taken on the change; the last one set decided_at
    aged,        \* decided_at of that claim is five minutes ago or more
    row,         \* the latest AccessManagementMetadata row of an assignment
    work,        \* the workers
    carried,     \* history: who carried a change out
    unchecked    \* history: an administrator was removed without a valid check

dirVars == <<directory, listing>>
changeVars == <<status, task, requester, claim, aged>>
vars == <<dirVars, changeVars, row, work, carried, unchecked>>

Decided == {"approved", "failed", "rejected", "cancelled", "expired"}
RowStates == {"active", "expiring", "expiry_failed", "revoked"}
Rows == [id : 0 .. MaxRows, status : RowStates \cup {"none"}, temporary : BOOLEAN,
         aged : BOOLEAN]

\* A worker: who called, what for, the change and claim it works under, the
\* row an expiry works on, the listing it read, and whether that was behind.
Phases == {"listing", "checking", "applying", "recording", "failing", "finishing",
           "claimingRow", "expiring", "marking", "done"}
Worker(phase, actor, t, i, k, r) ==
    [phase |-> phase, actor |-> actor, task |-> t, change |-> i, claim |-> k, row |-> r,
     seen |-> {}, behind |-> FALSE, ok |-> FALSE]
Free == Worker("done", Nobody, NoTask, 0, 0, 0)
WorkStates ==
    [phase : Phases, actor : Actors \cup {Nobody}, task : Tasks \cup {NoTask},
     change : 0 .. MaxChanges, claim : 0 .. MaxClaims, row : 0 .. MaxRows,
     seen : SUBSET Assignments, behind : BOOLEAN, ok : BOOLEAN]

Init ==
    /\ directory = Initial
    /\ listing = Initial
    /\ status = [i \in Changes |-> "none"]
    /\ task = [i \in Changes |-> NoTask]
    /\ requester = [i \in Changes |-> Nobody]
    /\ claim = [i \in Changes |-> 0]
    /\ aged = [i \in Changes |-> FALSE]
    /\ row = [a \in Assignments |->
                 IF a \in Temporary
                 THEN [id |-> 1, status |-> "active", temporary |-> TRUE, aged |-> FALSE]
                 ELSE [id |-> 0, status |-> "none", temporary |-> FALSE, aged |-> FALSE]]
    /\ work = [w \in Workers |-> Free]
    /\ carried = [i \in Changes |-> {}]
    /\ unchecked = FALSE

-----------------------------------------------------------------------------
(* What a change means.                                                     *)

\* changeAlreadyApplied, on the listing that was read.
AlreadyApplied(t, seen) == (t.action = "grant") <=> (t.on \in seen)

After(t, assignments) ==
    IF t.action = "grant" THEN assignments \cup {t.on} ELSE assignments \ {t.on}

Advance(w, state) == work' = [work EXCEPT ![w] = state]

\* The next phase of the same work: what it saw of the directory, whether that
\* was behind, whether its revocation was answered.
Onward(w, phase, seen, behind, ok) ==
    [phase |-> phase, actor |-> work[w].actor, task |-> work[w].task,
     change |-> work[w].change, claim |-> work[w].claim, row |-> work[w].row,
     seen |-> seen, behind |-> behind, ok |-> ok]
To(w, phase) == Onward(w, phase, {}, work[w].behind, FALSE)

\* An approval that only has its decision left to write.
Ending(w, phase) == Worker(phase, Nobody, NoTask, work[w].change, 0, 0)

-----------------------------------------------------------------------------
(* Requests and refusals.                                                   *)

\* POST changes: the change is put up for approval unless the listing shows it
\* done.
RequestChange(i, a, t) ==
    /\ status[i] = "none" /\ \A j \in Changes : j < i => status[j] # "none"
    /\ ~AlreadyApplied(t, listing)
    /\ status' = [status EXCEPT ![i] = "pending"]
    /\ task' = [task EXCEPT ![i] = t]
    /\ requester' = [requester EXCEPT ![i] = a]
    /\ UNCHANGED <<dirVars, claim, aged, row, work, carried, unchecked>>

\* decideChange's guard, for a decision that carries nothing out.
Refuse(i, decision) ==
    /\ \/ status[i] = "pending"
       \/ decision = "expired" /\ status[i] = "applying" /\ aged[i]
    /\ status' = [status EXCEPT ![i] = decision]
    /\ UNCHANGED <<dirVars, task, requester, claim, aged, row, work, carried, unchecked>>

\* Mutant of Cancel: a change that is being carried out can be cancelled.
CancelApplying(i, a) ==
    /\ requester[i] = a
    /\ status[i] \in {"pending", "applying"}
    /\ status' = [status EXCEPT ![i] = "cancelled"]
    /\ UNCHANGED <<dirVars, task, requester, claim, aged, row, work, carried, unchecked>>

\* Only the requester cancels; only somebody else rejects, or finds that the
\* approval window has passed, as it may have at any time.
Cancel(i, a) == requester[i] = a /\ Refuse(i, "cancelled")

Reject(i, a) == requester[i] # a /\ Refuse(i, "rejected")

FindExpired(i, a) == requester[i] # a /\ Refuse(i, "expired")

-----------------------------------------------------------------------------
(* Approval.                                                                *)

\* Mutant of Claimable: revocations of administrators do not wait for one
\* another.
ClaimableUnguarded(i) == status[i] = "pending" \/ (status[i] = "applying" /\ aged[i])

\* claimChange's WHERE clause.
Claimable(i) ==
    /\ status[i] = "pending" \/ (status[i] = "applying" /\ aged[i])
    /\ task[i].action = "revoke" =>
           \A j \in Changes \ {i} : ~(status[j] = "applying" /\ task[j].action = "revoke")

\* Mutant of Approve: the requester may approve.
ApproveOwn(w, i, a) ==
    /\ work[w].phase = "done"
    /\ Claimable(i) /\ claim[i] < MaxClaims
    /\ status' = [status EXCEPT ![i] = "applying"]
    /\ claim' = [claim EXCEPT ![i] = @ + 1]
    /\ aged' = [aged EXCEPT ![i] = FALSE]
    /\ Advance(w, Worker("listing", a, task[i], i, claim[i] + 1, 0))
    /\ UNCHANGED <<dirVars, task, requester, row, carried, unchecked>>

\* Another administrator approves: the change is claimed.  (The approval
\* window was looked at on an earlier read.)
Approve(w, i, a) ==
    /\ work[w].phase = "done"
    /\ requester[i] # a
    /\ Claimable(i) /\ claim[i] < MaxClaims
    /\ status' = [status EXCEPT ![i] = "applying"]
    /\ claim' = [claim EXCEPT ![i] = @ + 1]
    /\ aged' = [aged EXCEPT ![i] = FALSE]
    /\ Advance(w, Worker("listing", a, task[i], i, claim[i] + 1, 0))
    /\ UNCHANGED <<dirVars, task, requester, row, carried, unchecked>>

\* The directory is listed; a listing that fails is caught.
List(w) ==
    /\ work[w].phase = "listing"
    /\ \/ \E behind \in BOOLEAN :
           /\ behind <=> listing # directory
           /\ Advance(w, Onward(w, "checking", listing, behind, FALSE))
       \/ Advance(w, Ending(w, "failing"))
    /\ UNCHANGED <<dirVars, changeVars, row, carried, unchecked>>

\* recoverableAdministratorCountAfter, on the listing that was read.
Blocked(w) ==
    /\ work[w].task.action = "revoke"
    /\ Cardinality(AdministratorsIn(work[w].seen \ {work[w].task.on})) < Minimum

\* The check, and the shortcut for what the listing shows done: it counts as
\* carried out.
Check(w) ==
    /\ work[w].phase = "checking"
    /\ Advance(w, IF Blocked(w) THEN Ending(w, "failing")
                  ELSE IF AlreadyApplied(work[w].task, work[w].seen) THEN To(w, "recording")
                  ELSE To(w, "applying"))
    /\ UNCHANGED <<dirVars, changeVars, row, carried, unchecked>>

\* The claim of a worker is its own and within the five minutes.
ClaimIsCurrent(w) ==
    LET i == work[w].change IN
    status[i] = "applying" /\ claim[i] = work[w].claim /\ ~aged[i]

\* applyChange in the directory: it takes effect or not, and the answer is
\* success only if it did.
Apply(w, effect, answered) ==
    LET t == work[w].task
        i == work[w].change
        took == effect /\ directory # After(t, directory)
    IN
    /\ work[w].phase = "applying"
    /\ answered => effect
    /\ directory' = IF effect THEN After(t, directory) ELSE directory
    /\ carried' = IF took THEN [carried EXCEPT ![i] = @ \cup {work[w].actor}]
                  ELSE carried
    /\ unchecked' = (unchecked \/ (/\ took /\ t.action = "revoke"
                                   /\ work[w].behind \/ ~ClaimIsCurrent(w)))
    /\ Advance(w, IF answered THEN Onward(w, "recording", {}, FALSE, FALSE)
                  ELSE Ending(w, "failing"))
    /\ UNCHANGED <<listing, changeVars, row>>

\* recordMetadata: a revocation closes the row, a grant writes it or a new one.
Record(w) ==
    LET t == work[w].task
        old == row[t.on]
        live == old.status \notin {"none", "revoked"}
        id == IF live THEN old.id ELSE old.id + 1
    IN
    /\ work[w].phase = "recording"
    /\ t.action = "grant" => id <= MaxRows
    /\ row' = IF t.action = "revoke"
              THEN IF live THEN [row EXCEPT ![t.on].status = "revoked"] ELSE row
              ELSE [row EXCEPT ![t.on] = [id |-> id, status |-> "active",
                                          temporary |-> t.temporary, aged |-> FALSE]]
    /\ Advance(w, Ending(w, "finishing"))
    /\ UNCHANGED <<dirVars, changeVars, carried, unchecked>>

\* The metadata cannot be written: caught like a failure of the directory.
RecordFails(w) ==
    /\ work[w].phase = "recording"
    /\ Advance(w, Ending(w, "failing"))
    /\ UNCHANGED <<dirVars, changeVars, row, carried, unchecked>>

\* Mutant of Finish: the status is not compared.
FinishUnguarded(w) ==
    LET i == work[w].change
        decision == IF work[w].phase = "finishing" THEN "approved" ELSE "failed"
    IN
    /\ work[w].phase \in {"finishing", "failing"}
    /\ status' = [status EXCEPT ![i] = decision]
    /\ Advance(w, Free)
    /\ UNCHANGED <<dirVars, task, requester, claim, aged, row, carried, unchecked>>

\* decideChange, approved or failed: whoever claimed last, the first to finish
\* decides; the others meet a conflict.
Finish(w) ==
    LET i == work[w].change
        decision == IF work[w].phase = "finishing" THEN "approved" ELSE "failed"
    IN
    /\ work[w].phase \in {"finishing", "failing"}
    /\ status' = IF status[i] = "applying" THEN [status EXCEPT ![i] = decision] ELSE status
    /\ Advance(w, Free)
    /\ UNCHANGED <<dirVars, task, requester, claim, aged, row, carried, unchecked>>

-----------------------------------------------------------------------------
(* Expiry.                                                                  *)

Revocation(on) == [action |-> "revoke", on |-> on, temporary |-> FALSE]

\* listDueExpirations, one item of it.
ListDue(w, a, on) ==
    /\ work[w].phase = "done"
    /\ row[on].temporary
    /\ \/ row[on].status \in {"active", "expiry_failed"}
       \/ row[on].status = "expiring" /\ row[on].aged
    /\ Advance(w, Worker("claimingRow", a, Revocation(on), 0, 0, row[on].id))
    /\ UNCHANGED <<dirVars, changeVars, row, carried, unchecked>>

\* The row is the one that was listed.
Listed(w) == row[work[w].task.on].id = work[w].row

\* claimMetadataExpiry: by its status, whatever its expiry is by now.
ClaimRow(w) ==
    LET on == work[w].task.on
        claimable == Listed(w) /\ (row[on].status \in {"active", "expiry_failed"}
                                   \/ (row[on].status = "expiring" /\ row[on].aged))
    IN
    /\ work[w].phase = "claimingRow"
    /\ row' = IF claimable THEN [row EXCEPT ![on] =
                   [id |-> @.id, status |-> "expiring", temporary |-> @.temporary,
                    aged |-> FALSE]]
              ELSE row
    /\ Advance(w, IF claimable THEN To(w, "expiring") ELSE Free)
    /\ UNCHANGED <<dirVars, changeVars, carried, unchecked>>

\* The assignment is revoked, an administrator's like any other.
Expire(w, effect, answered) ==
    LET t == work[w].task IN
    /\ work[w].phase = "expiring"
    /\ answered => effect
    /\ directory' = IF effect THEN After(t, directory) ELSE directory
    /\ unchecked' = (unchecked \/ (effect /\ t.on \in directory))
    /\ Advance(w, Onward(w, "marking", {}, FALSE, answered))
    /\ UNCHANGED <<listing, changeVars, row, carried>>

\* markMetadataStatus.
Mark(w) ==
    LET on == work[w].task.on IN
    /\ work[w].phase = "marking"
    /\ row' = IF Listed(w) /\ row[on].status = "expiring"
              THEN [row EXCEPT ![on].status = IF work[w].ok THEN "revoked" ELSE "expiry_failed"]
              ELSE row
    /\ Advance(w, Free)
    /\ UNCHANGED <<dirVars, changeVars, carried, unchecked>>

-----------------------------------------------------------------------------
(* Time, replication, failure.                                              *)

Propagate ==
    /\ listing' = directory
    /\ UNCHANGED <<directory, changeVars, row, work, carried, unchecked>>

FiveMinutesPass(i) ==
    /\ status[i] = "applying"
    /\ aged' = [aged EXCEPT ![i] = TRUE]
    /\ UNCHANGED <<dirVars, status, task, requester, claim, row, work, carried, unchecked>>

RowAges(a) ==
    /\ row[a].status = "expiring"
    /\ row' = [row EXCEPT ![a].aged = TRUE]
    /\ UNCHANGED <<dirVars, changeVars, work, carried, unchecked>>

\* The host stops, or a write outside the handler's try block throws.
Stop(w) ==
    /\ work[w].phase # "done"
    /\ Advance(w, Free)
    /\ UNCHANGED <<dirVars, changeVars, row, carried, unchecked>>

-----------------------------------------------------------------------------
WorkerStep(w) ==
    \/ List(w) \/ Check(w) \/ Record(w) \/ RecordFails(w) \/ Finish(w)
    \/ ClaimRow(w) \/ Mark(w) \/ Stop(w)
    \/ \E effect, answered \in BOOLEAN : Apply(w, effect, answered) \/ Expire(w, effect, answered)

CallerStep(a) ==
    \/ \E i \in Changes :
        \/ Cancel(i, a) \/ Reject(i, a) \/ FindExpired(i, a)
        \/ \E t \in Asked : RequestChange(i, a, t)
        \/ \E w \in Workers : Approve(w, i, a)
    \/ \E w \in Workers, on \in Assignments : ListDue(w, a, on)

Next ==
    \/ \E w \in Workers : WorkerStep(w)
    \/ \E a \in Actors : CallerStep(a)
    \/ \E i \in Changes : FiveMinutesPass(i)
    \/ \E a \in Assignments : RowAges(a)
    \/ Propagate

Spec == Init /\ [][Next]_vars

-----------------------------------------------------------------------------
(* Properties.                                                              *)

\* Every column, listing and local variable stays in its domain; a change that
\* was claimed never goes back to waiting, and was asked for by somebody.
AccessTypeOK ==
    /\ directory \subseteq Assignments /\ listing \subseteq Assignments
    /\ status \in [Changes -> Decided \cup {"none", "pending", "applying"}]
    /\ task \in [Changes -> Tasks \cup {NoTask}]
    /\ requester \in [Changes -> Actors \cup {Nobody}]
    /\ aged \in [Changes -> BOOLEAN]
    /\ claim \in [Changes -> 0 .. MaxClaims]
    /\ row \in [Assignments -> Rows]
    /\ work \in [Workers -> WorkStates]
    /\ carried \in [Changes -> SUBSET Actors]
    /\ unchecked \in BOOLEAN
    /\ \A i \in Changes :
        /\ status[i] # "none" => task[i] \in Tasks /\ requester[i] \in Actors
        /\ status[i] \in {"none", "pending", "rejected", "cancelled"} => claim[i] = 0

\* However approvals overlap, enough administrators remain, unless an expiry
\* took one away, an approver outlived its five minutes, or the listing that
\* was checked was behind the directory.
LastAdministratorKept ==
    ~unchecked => Cardinality(AdministratorsIn(directory)) >= Minimum

\* What a requester asked for is carried out by others only.
SecondPersonCarriesOut == \A i \in Changes : requester[i] \notin carried[i]

\* What was rejected or cancelled has had no effect in the directory, nor will
\* have: nobody is working on it.
RefusedHasNoEffect ==
    \A i \in Changes : status[i] \in {"rejected", "cancelled"} =>
        carried[i] = {} /\ \A w \in Workers : work[w].change = i => work[w].phase = "done"

\* A decision stands, whichever of several approvers comes to its end last.
DecisionIsFinal ==
    [][\A i \in Changes : status[i] \in Decided => status'[i] = status[i]]_vars

=============================================================================
