--------------------- MODULE AdministratorAccess_proofs ---------------------
(***************************************************************************)
(* For any people, roles, changes and workers: approvals that overlap      *)
(* never take the last administrators away by themselves, a requester      *)
(* never carries out their own change, what was refused has no effect, and *)
(* decisions stand.                                                        *)
(***************************************************************************)
EXTENDS AdministratorAccess, FiniteSetTheorems, TLAPS

-----------------------------------------------------------------------------
(* Counting administrators.                                                 *)

LEMMA AdministratorsFinite ==
    ASSUME NEW S \in SUBSET Assignments
    PROVE  IsFiniteSet(AdministratorsIn(S)) /\ Cardinality(AdministratorsIn(S)) \in Nat
    <1>1. AdministratorsIn(S) \subseteq People
        BY DEF AdministratorsIn, Assignments
    <1>2. IsFiniteSet(AdministratorsIn(S))
        BY <1>1, FS_Subset, AccessAssumption
    <1> QED
        BY <1>2, FS_CardinalityType

\* More assignments, no fewer administrators.
LEMMA MoreAdministrators ==
    ASSUME NEW S \in SUBSET Assignments, NEW T \in SUBSET Assignments, S \subseteq T
    PROVE  Cardinality(AdministratorsIn(S)) >= Minimum =>
               Cardinality(AdministratorsIn(T)) >= Minimum
    <1>1. AdministratorsIn(S) \subseteq AdministratorsIn(T)
        BY DEF AdministratorsIn
    <1>2. Cardinality(AdministratorsIn(S)) <= Cardinality(AdministratorsIn(T))
        BY <1>1, AdministratorsFinite, FS_Subset
    <1> QED
        BY <1>2, AdministratorsFinite, AccessAssumption

-----------------------------------------------------------------------------
(* The inductive invariant.                                                 *)

Approving == {"listing", "checking", "applying", "recording"}
Ends == {"failing", "finishing"}
Expiring == {"claimingRow", "expiring", "marking"}
Claimed == {"applying", "approved", "failed", "expired"}

\* A worker on an approval: its change was claimed, by somebody other than the
\* requester, and is what the change asks for; an ending one only remembers
\* the change, an expiry has none.
WorkerOK(w) ==
    /\ work[w].phase \in Approving =>
        /\ work[w].change \in Changes
        /\ work[w].task = task[work[w].change] /\ work[w].task \in Tasks
        /\ work[w].actor \in Actors /\ work[w].actor # requester[work[w].change]
        /\ work[w].claim \in 1 .. claim[work[w].change]
    /\ work[w].phase \in Ends => work[w].change \in Changes
    /\ work[w].phase \in Approving \cup Ends => status[work[w].change] \in Claimed
    /\ work[w].phase \in Expiring =>
        /\ work[w].task \in Tasks /\ work[w].task.action = "revoke"
        /\ work[w].change = 0

WorkOK == \A w \in Workers : WorkerOK(w)

\* What was carried out was claimed, and by somebody else than asked.
CarriedOK ==
    \A i \in Changes :
        /\ carried[i] # {} => status[i] \in Claimed
        /\ requester[i] \notin carried[i]

\* Revocations of administrators are carried out one at a time.
OneRevocation ==
    \A i, j \in Changes :
        /\ status[i] = "applying" /\ task[i].action = "revoke"
        /\ status[j] = "applying" /\ task[j].action = "revoke"
        => i = j

\* A claim is one worker's.
ClaimsDiffer ==
    \A v, w \in Workers :
        /\ work[v].phase \in Approving /\ work[w].phase \in Approving
        /\ work[v].change = work[w].change /\ work[v].claim = work[w].claim
        => v = w

\* A revocation whose claim is current, on a listing that was not behind.
Valid(w) == work[w].task.action = "revoke" /\ ClaimIsCurrent(w) /\ ~work[w].behind

\* Nothing it saw is gone, and enough administrators remain after it.
SafeWorker(w) ==
    /\ work[w].phase = "checking" /\ Valid(w) => work[w].seen \subseteq directory
    /\ work[w].phase = "applying" /\ Valid(w) =>
           Cardinality(AdministratorsIn(directory \ {work[w].task.on})) >= Minimum

Safe ==
    ~unchecked =>
        /\ Cardinality(AdministratorsIn(directory)) >= Minimum
        /\ \A w \in Workers : SafeWorker(w)

AccessInv == AccessTypeOK /\ WorkOK /\ CarriedOK /\ OneRevocation /\ ClaimsDiffer /\ Safe

-----------------------------------------------------------------------------
(* The records of the workers.                                              *)

LEMMA WorkerRecord ==
    ASSUME NEW phase \in Phases, NEW a \in Actors \cup {Nobody}, NEW t \in Tasks \cup {NoTask},
           NEW i \in 0 .. MaxChanges, NEW k \in 0 .. MaxClaims, NEW r \in 0 .. MaxRows
    PROVE  /\ Worker(phase, a, t, i, k, r) \in WorkStates
           /\ Worker(phase, a, t, i, k, r).phase = phase
           /\ Worker(phase, a, t, i, k, r).actor = a
           /\ Worker(phase, a, t, i, k, r).task = t
           /\ Worker(phase, a, t, i, k, r).change = i
           /\ Worker(phase, a, t, i, k, r).claim = k
    BY DEF Worker, WorkStates

LEMMA FreeRecord == Free \in WorkStates /\ Free.phase = "done"
    <1>1. "done" \in Phases
        BY DEF Phases
    <1>2. 0 \in 0 .. MaxChanges /\ 0 \in 0 .. MaxClaims /\ 0 \in 0 .. MaxRows
        BY AccessAssumption
    <1> QED
        BY <1>1, <1>2, WorkerRecord DEF Free

LEMMA EndingRecord ==
    ASSUME AccessTypeOK, NEW w \in Workers, NEW phase \in Phases
    PROVE  /\ Ending(w, phase) \in WorkStates
           /\ Ending(w, phase).phase = phase
           /\ Ending(w, phase).change = work[w].change
    <1>1. work[w].change \in 0 .. MaxChanges
        BY DEF AccessTypeOK, WorkStates
    <1>2. 0 \in 0 .. MaxClaims /\ 0 \in 0 .. MaxRows
        BY AccessAssumption
    <1> QED
        BY <1>1, <1>2, WorkerRecord DEF Ending

LEMMA ToRecord ==
    ASSUME AccessTypeOK, NEW w \in Workers, NEW phase \in Phases
    PROVE  /\ To(w, phase) \in WorkStates
           /\ To(w, phase).phase = phase
           /\ To(w, phase).actor = work[w].actor
           /\ To(w, phase).task = work[w].task
           /\ To(w, phase).change = work[w].change
           /\ To(w, phase).claim = work[w].claim
           /\ To(w, phase).behind = work[w].behind
    <1>1. work[w] \in WorkStates
        BY DEF AccessTypeOK
    <1> QED
        BY <1>1 DEF To, Onward, WorkStates

\* What a worker's step makes of the workers.
LEMMA Advanced ==
    ASSUME AccessTypeOK, NEW w \in Workers, NEW s \in WorkStates, Advance(w, s)
    PROVE  /\ work' \in [Workers -> WorkStates]
           /\ work'[w] = s
           /\ \A v \in Workers \ {w} : work'[v] = work[v]
    BY DEF AccessTypeOK, Advance

-----------------------------------------------------------------------------
(* What leaves the parts of the invariant alone.                            *)

\* Changes only move forward.
Forward ==
    \A i \in Changes :
        /\ claim'[i] \in Nat /\ claim'[i] >= claim[i]
        /\ status[i] # "none" => task'[i] = task[i] /\ requester'[i] = requester[i]
        /\ status[i] \in Claimed => status'[i] \in Claimed

LEMMA OthersOK ==
    ASSUME AccessTypeOK, WorkOK, Forward, NEW v \in Workers, work'[v] = work[v]
    PROVE  WorkerOK(v)'
    <1>1. WorkerOK(v)
        BY DEF WorkOK
    <1>2. work[v].phase \in Approving \cup Ends => work[v].change \in Changes
        BY <1>1 DEF WorkerOK
    <1>3. work[v].phase \in Approving \cup Ends =>
              status[work[v].change] # "none" /\ status'[work[v].change] \in Claimed
        BY <1>1, <1>2 DEF WorkerOK, Forward, Claimed
    <1>4. work[v].phase \in Approving =>
              /\ task'[work[v].change] = task[work[v].change]
              /\ requester'[work[v].change] = requester[work[v].change]
              /\ claim'[work[v].change] \in Nat
              /\ claim'[work[v].change] >= claim[work[v].change]
              /\ claim[work[v].change] \in Nat
        BY <1>2, <1>3 DEF Forward, AccessTypeOK
    <1>5. work[v].phase \in Approving => work[v].claim \in 1 .. claim'[work[v].change]
        BY <1>1, <1>4 DEF WorkerOK
    <1> QED
        BY <1>1, <1>3, <1>4, <1>5 DEF WorkerOK

LEMMA SameChangesForward ==
    ASSUME AccessTypeOK, UNCHANGED changeVars
    PROVE  Forward
    BY DEF AccessTypeOK, Forward, changeVars

\* A step that removes nothing and lets no worker on.
LEMMA QuietStep ==
    ASSUME Safe, directory' = directory, unchecked' = unchecked,
           \A v \in Workers :
               \/ work'[v].phase \notin {"checking", "applying"}
               \/ work'[v] = work[v] /\ (ClaimIsCurrent(v)' => ClaimIsCurrent(v))
    PROVE  Safe'
    <1>1. ASSUME ~unchecked', NEW v \in Workers
          PROVE  SafeWorker(v)'
        <2>1. SafeWorker(v)
            BY <1>1 DEF Safe
        <2> QED
            BY <2>1 DEF SafeWorker, Valid
    <1> QED
        BY <1>1 DEF Safe

LEMMA SameClaims ==
    ASSUME UNCHANGED changeVars, NEW v \in Workers, work'[v] = work[v]
    PROVE  ClaimIsCurrent(v)' = ClaimIsCurrent(v)
    BY DEF changeVars, ClaimIsCurrent

-----------------------------------------------------------------------------
(* Everything but Safe and the types, for a step of one worker and for a    *)
(* step of none.                                                            *)

\* No change becomes one that is being carried out.
NoNewClaim ==
    \A i \in Changes : status'[i] = "applying" => status[i] = "applying" /\ task'[i] = task[i]

Structure == WorkOK /\ CarriedOK /\ OneRevocation /\ ClaimsDiffer

LEMMA CarriedKept ==
    ASSUME CarriedOK, Forward, carried' = carried
    PROVE  CarriedOK'
    <1>1. ASSUME NEW i \in Changes
          PROVE  (carried[i] # {} => status'[i] \in Claimed) /\ requester'[i] \notin carried[i]
        <2>1. /\ carried[i] # {} => status[i] \in Claimed
              /\ requester[i] \notin carried[i]
            BY DEF CarriedOK
        <2>2. status[i] \in Claimed =>
                  status'[i] \in Claimed /\ requester'[i] = requester[i]
            BY DEF Forward, Claimed
        <2> QED
            BY <2>1, <2>2
    <1> QED
        BY <1>1 DEF CarriedOK

LEMMA RevocationsKept ==
    ASSUME OneRevocation, NoNewClaim
    PROVE  OneRevocation'
    BY DEF OneRevocation, NoNewClaim

LEMMA ClaimsKept ==
    ASSUME ClaimsDiffer,
           \A v \in Workers :
               \/ work'[v].phase \notin Approving
               \/ /\ work[v].phase \in Approving
                  /\ work'[v].change = work[v].change
                  /\ work'[v].claim = work[v].claim
    PROVE  ClaimsDiffer'
    BY DEF ClaimsDiffer

LEMMA WorkerMoves ==
    ASSUME AccessTypeOK, Structure, Forward, NoNewClaim, carried' = carried,
           NEW w \in Workers, \A v \in Workers \ {w} : work'[v] = work[v],
           WorkerOK(w)',
           \/ work'[w].phase \notin Approving
           \/ /\ work[w].phase \in Approving
              /\ work'[w].change = work[w].change
              /\ work'[w].claim = work[w].claim
    PROVE  Structure'
    <1>1. WorkOK'
        BY OthersOK DEF WorkOK, Structure
    <1>2. ClaimsDiffer'
        BY ClaimsKept DEF Structure
    <1> QED
        BY <1>1, <1>2, CarriedKept, RevocationsKept DEF Structure

LEMMA NobodyMoves ==
    ASSUME AccessTypeOK, Structure, Forward, NoNewClaim, carried' = carried, work' = work
    PROVE  Structure'
    <1>1. WorkOK'
        BY OthersOK DEF WorkOK, Structure
    <1>2. ClaimsDiffer'
        BY DEF Structure, ClaimsDiffer
    <1> QED
        BY <1>1, <1>2, CarriedKept, RevocationsKept DEF Structure

LEMMA SameChangesNoNewClaim ==
    ASSUME UNCHANGED changeVars
    PROVE  NoNewClaim
    BY DEF NoNewClaim, changeVars

-----------------------------------------------------------------------------
(* The initial states.                                                      *)

LEMMA InitAccess == Init => AccessInv
    <1> SUFFICES ASSUME Init PROVE AccessInv
        OBVIOUS
    <1>1. \A w \in Workers : work[w].phase = "done" /\ work[w] \in WorkStates
        BY FreeRecord DEF Init
    <1>2. AccessTypeOK
        <2>1. directory \subseteq Assignments /\ listing \subseteq Assignments
            BY AccessAssumption DEF Init
        <2>2. row \in [Assignments -> Rows]
            BY AccessAssumption DEF Init, Rows, RowStates
        <2>3. /\ status \in [Changes -> Decided \cup {"none", "pending", "applying"}]
              /\ task \in [Changes -> Tasks \cup {NoTask}]
              /\ requester \in [Changes -> Actors \cup {Nobody}]
              /\ aged \in [Changes -> BOOLEAN]
              /\ claim \in [Changes -> 0 .. MaxClaims]
            BY AccessAssumption DEF Init, Decided
        <2>6. carried \in [Changes -> SUBSET Actors] /\ unchecked \in BOOLEAN
            BY DEF Init
        <2>4. work \in [Workers -> WorkStates]
            BY FreeRecord DEF Init
        <2>5. \A i \in Changes :
                /\ status[i] # "none" => task[i] \in Tasks /\ requester[i] \in Actors
                /\ status[i] \in {"none", "pending", "rejected", "cancelled"} => claim[i] = 0
            BY DEF Init
        <2> QED
            BY <2>1, <2>2, <2>3, <2>4, <2>5, <2>6 DEF AccessTypeOK
    <1>3. Structure
        BY <1>1, AccessAssumption
        DEF Init, Structure, WorkOK, WorkerOK, CarriedOK, OneRevocation, ClaimsDiffer,
            Approving, Ends, Expiring
    <1>4. Safe
        BY <1>1, AccessAssumption DEF Init, Safe, SafeWorker
    <1> QED
        BY <1>2, <1>3, <1>4 DEF AccessInv, Structure

-----------------------------------------------------------------------------
(* A step that leaves the changes alone, of a worker and otherwise.         *)

\* The types of the directory, the rows and the history.
RestTyped ==
    /\ directory \subseteq Assignments /\ listing \subseteq Assignments
    /\ row \in [Assignments -> Rows]
    /\ carried \in [Changes -> SUBSET Actors]
    /\ unchecked \in BOOLEAN

LEMMA TypedBySameChanges ==
    ASSUME AccessTypeOK, UNCHANGED changeVars, RestTyped',
           work' \in [Workers -> WorkStates]
    PROVE  AccessTypeOK'
    BY DEF AccessTypeOK, changeVars, RestTyped

LEMMA RestKept ==
    ASSUME AccessTypeOK, UNCHANGED <<dirVars, row, carried, unchecked>>
    PROVE  RestTyped'
    BY DEF AccessTypeOK, dirVars, RestTyped

\* A worker's step that changes neither directory nor changes and does not let
\* the worker on to check or to apply.
LEMMA WorkerStepKeeps ==
    ASSUME AccessInv, UNCHANGED changeVars, carried' = carried,
           directory' = directory, unchecked' = unchecked, RestTyped',
           NEW w \in Workers, NEW s \in WorkStates, Advance(w, s),
           s.phase \notin {"checking", "applying"},
           \/ s.phase = "done"
           \/ /\ work[w].phase \in Approving
              /\ s.phase \in Ends \cup {"recording"}
              /\ s.change = work[w].change
              /\ s.phase = "recording" =>
                   /\ s.claim = work[w].claim /\ s.task = work[w].task
                   /\ s.actor = work[w].actor
           \/ /\ s.phase \in Expiring
              /\ s.task \in Tasks /\ s.task.action = "revoke" /\ s.change = 0
    PROVE  AccessInv'
    <1>1. AccessTypeOK /\ Structure /\ Safe
        BY DEF AccessInv, Structure
    <1>2. /\ work' \in [Workers -> WorkStates] /\ work'[w] = s
          /\ \A v \in Workers \ {w} : work'[v] = work[v]
        BY <1>1, Advanced
    <1>3. WorkerOK(w) /\ WorkerOK(w)'
        <2>1. WorkerOK(w)
            BY <1>1 DEF Structure, WorkOK
        <2>2. UNCHANGED <<status, task, requester, claim>>
            BY DEF changeVars
        <2> QED
            BY <1>2, <2>1, <2>2 DEF WorkerOK, Approving, Ends, Expiring
    <1>4. \/ work'[w].phase \notin Approving
          \/ /\ work[w].phase \in Approving
             /\ work'[w].change = work[w].change
             /\ work'[w].claim = work[w].claim
        BY <1>2 DEF Approving, Ends, Expiring
    <1>5. AccessTypeOK'
        BY <1>1, <1>2, TypedBySameChanges
    <1>6. Structure'
        BY <1>1, <1>2, <1>3, <1>4, WorkerMoves, SameChangesForward, SameChangesNoNewClaim
    <1>7. Safe'
        BY <1>1, <1>2, QuietStep, SameClaims
    <1> QED
        BY <1>5, <1>6, <1>7 DEF AccessInv, Structure

-----------------------------------------------------------------------------
(* The steps of an approval.                                                *)

LEMMA ListKeeps ==
    ASSUME AccessInv, NEW w \in Workers, List(w)
    PROVE  AccessInv'
    <1>1. AccessTypeOK /\ Structure /\ Safe
        BY DEF AccessInv, Structure
    <1>2. /\ work[w].phase = "listing"
          /\ UNCHANGED <<dirVars, changeVars, row, carried, unchecked>>
        BY DEF List
    <1>3. RestTyped'
        BY <1>1, <1>2, RestKept
    <1>4. CASE Advance(w, Ending(w, "failing"))
        <2>1. "failing" \in Phases
            BY DEF Phases
        <2>2. /\ Ending(w, "failing") \in WorkStates
              /\ Ending(w, "failing").phase = "failing"
              /\ Ending(w, "failing").change = work[w].change
            BY <1>1, <2>1, EndingRecord
        <2> QED
            BY <1>2, <1>3, <1>4, <2>2, WorkerStepKeeps DEF Approving, Ends, dirVars
    <1>5. CASE \E behind \in BOOLEAN :
                   /\ behind <=> listing # directory
                   /\ Advance(w, Onward(w, "checking", listing, behind, FALSE))
        <2>1. PICK behind \in BOOLEAN :
                   /\ behind <=> listing # directory
                   /\ Advance(w, Onward(w, "checking", listing, behind, FALSE))
            BY <1>5
        <2> DEFINE s == Onward(w, "checking", listing, behind, FALSE)
        <2>2. "checking" \in Phases /\ listing \in SUBSET Assignments /\ FALSE \in BOOLEAN
            BY <1>1 DEF Phases, AccessTypeOK
        <2>3. /\ s \in WorkStates /\ s.phase = "checking" /\ s.seen = listing
              /\ s.actor = work[w].actor /\ s.task = work[w].task
              /\ s.change = work[w].change /\ s.claim = work[w].claim
            <3>1. work[w] \in WorkStates
                BY <1>1 DEF AccessTypeOK
            <3>2. s \in WorkStates
                BY <2>2, <3>1 DEF Onward, WorkStates
            <3> QED
                BY <3>2 DEF Onward
        <2>10. s.behind = behind
            BY DEF Onward
        <2> HIDE DEF s
        <2>4. Advance(w, s)
            BY <2>1 DEF s
        <2>5. /\ work' \in [Workers -> WorkStates] /\ work'[w] = s
              /\ \A v \in Workers \ {w} : work'[v] = work[v]
            BY <1>1, <2>3, <2>4, Advanced
        <2>6. WorkerOK(w)'
            <3>1. WorkerOK(w)
                BY <1>1 DEF Structure, WorkOK
            <3> QED
                BY <1>2, <2>3, <2>5, <3>1 DEF WorkerOK, changeVars, Approving, Ends, Expiring
        <2>7. AccessTypeOK'
            BY <1>1, <1>2, <1>3, <2>5, TypedBySameChanges
        <2>8. Structure'
            BY <1>1, <1>2, <2>3, <2>5, <2>6, WorkerMoves, SameChangesForward,
               SameChangesNoNewClaim DEF Approving
        <2>9. Safe'
            <3> SUFFICES ASSUME ~unchecked' PROVE Safe'
                BY DEF Safe
            <3>1. /\ directory' = directory /\ unchecked' = unchecked
                  /\ UNCHANGED changeVars
                BY <1>2 DEF dirVars
            <3>2. Cardinality(AdministratorsIn(directory')) >= Minimum
                BY <1>1, <3>1 DEF Safe
            <3>3. ASSUME NEW v \in Workers, v # w
                  PROVE  SafeWorker(v)'
                BY <1>1, <2>5, <3>1, <3>3, SameClaims DEF Safe, SafeWorker, Valid
            <3>4. SafeWorker(w)'
                <4>1. ~behind => s.seen = directory'
                    BY <2>1, <2>3, <3>1
                <4> QED
                    BY <2>3, <2>5, <2>10, <4>1 DEF SafeWorker, Valid
            <3> QED
                BY <3>2, <3>3, <3>4 DEF Safe
        <2> QED
            BY <2>7, <2>8, <2>9 DEF AccessInv, Structure
    <1> QED
        BY <1>4, <1>5 DEF List

LEMMA CheckKeeps ==
    ASSUME AccessInv, NEW w \in Workers, Check(w)
    PROVE  AccessInv'
    <1>1. AccessTypeOK /\ Structure /\ Safe
        BY DEF AccessInv, Structure
    <1>2. /\ work[w].phase = "checking"
          /\ UNCHANGED <<dirVars, changeVars, row, carried, unchecked>>
        BY DEF Check
    <1>3. RestTyped'
        BY <1>1, <1>2, RestKept
    <1>4. "failing" \in Phases /\ "recording" \in Phases /\ "applying" \in Phases
        BY DEF Phases
    <1>5. CASE Advance(w, Ending(w, "failing"))
        <2>1. /\ Ending(w, "failing") \in WorkStates
              /\ Ending(w, "failing").phase = "failing"
              /\ Ending(w, "failing").change = work[w].change
            BY <1>1, <1>4, EndingRecord
        <2> QED
            BY <1>2, <1>3, <1>5, <2>1, WorkerStepKeeps DEF Approving, Ends, dirVars
    <1>6. CASE Advance(w, To(w, "recording"))
        <2>1. /\ To(w, "recording") \in WorkStates
              /\ To(w, "recording").phase = "recording"
              /\ To(w, "recording").change = work[w].change
              /\ To(w, "recording").claim = work[w].claim
              /\ To(w, "recording").task = work[w].task
              /\ To(w, "recording").actor = work[w].actor
            BY <1>1, <1>4, ToRecord
        <2> QED
            BY <1>2, <1>3, <1>6, <2>1, WorkerStepKeeps DEF Approving, Ends, dirVars
    <1>7. CASE ~Blocked(w) /\ Advance(w, To(w, "applying"))
        <2> DEFINE s == To(w, "applying")
        <2>3. /\ s \in WorkStates /\ s.phase = "applying"
              /\ s.actor = work[w].actor /\ s.task = work[w].task
              /\ s.change = work[w].change /\ s.claim = work[w].claim
              /\ s.behind = work[w].behind
            BY <1>1, <1>4, ToRecord
        <2> HIDE DEF s
        <2>4. Advance(w, s)
            BY <1>7 DEF s
        <2>5. /\ work' \in [Workers -> WorkStates] /\ work'[w] = s
              /\ \A v \in Workers \ {w} : work'[v] = work[v]
            BY <1>1, <2>3, <2>4, Advanced
        <2>6. WorkerOK(w)'
            <3>1. WorkerOK(w)
                BY <1>1 DEF Structure, WorkOK
            <3> QED
                BY <1>2, <2>3, <2>5, <3>1 DEF WorkerOK, changeVars, Approving, Ends, Expiring
        <2>7. AccessTypeOK'
            BY <1>1, <1>2, <1>3, <2>5, TypedBySameChanges
        <2>8. Structure'
            BY <1>1, <1>2, <2>3, <2>5, <2>6, WorkerMoves, SameChangesForward,
               SameChangesNoNewClaim DEF Approving
        <2>9. Safe'
            <3> SUFFICES ASSUME ~unchecked' PROVE Safe'
                BY DEF Safe
            <3>1. /\ directory' = directory /\ unchecked' = unchecked
                  /\ UNCHANGED changeVars
                BY <1>2 DEF dirVars
            <3>2. Cardinality(AdministratorsIn(directory')) >= Minimum
                BY <1>1, <3>1 DEF Safe
            <3>3. ASSUME NEW v \in Workers, v # w
                  PROVE  SafeWorker(v)'
                BY <1>1, <2>5, <3>1, <3>3, SameClaims DEF Safe, SafeWorker, Valid
            <3>4. SafeWorker(w)'
                <4>1. SUFFICES ASSUME Valid(w)'
                               PROVE  Cardinality(AdministratorsIn(
                                          directory' \ {work'[w].task.on})) >= Minimum
                    BY <2>3, <2>5 DEF SafeWorker
                <4>2. Valid(w)
                    BY <2>3, <2>5, <3>1, <4>1 DEF Valid, ClaimIsCurrent, changeVars
                <4>3. work[w].seen \subseteq directory
                    <5>1. ~unchecked
                        BY <3>1
                    <5>2. SafeWorker(w)
                        BY <1>1, <5>1 DEF Safe
                    <5> QED
                        BY <1>2, <4>2, <5>2 DEF SafeWorker
                <4> DEFINE left == work[w].seen \ {work[w].task.on}
                <4>4. left \in SUBSET Assignments /\ directory \ {work[w].task.on} \in SUBSET Assignments
                    BY <1>1, <4>3 DEF AccessTypeOK
                <4>5. Cardinality(AdministratorsIn(left)) \in Nat
                    BY <4>4, AdministratorsFinite
                <4>6. ~(Cardinality(AdministratorsIn(left)) < Minimum)
                    BY <1>7, <4>2 DEF Blocked, Valid
                <4>7. Cardinality(AdministratorsIn(left)) >= Minimum
                    BY <4>5, <4>6, AccessAssumption
                <4>8. left \subseteq directory \ {work[w].task.on}
                    BY <4>3
                <4> HIDE DEF left
                <4>9. Cardinality(AdministratorsIn(directory \ {work[w].task.on})) >= Minimum
                    BY <4>4, <4>7, <4>8, MoreAdministrators
                <4> QED
                    BY <2>3, <2>5, <3>1, <4>9
            <3> QED
                BY <3>2, <3>3, <3>4 DEF Safe
        <2> QED
            BY <2>7, <2>8, <2>9 DEF AccessInv, Structure
    <1> QED
        BY <1>5, <1>6, <1>7 DEF Check

\* Carrying a change out: what a revocation takes away was checked under a
\* current claim, of which there is only one.
LEMMA ApplyKeeps ==
    ASSUME AccessInv, NEW w \in Workers, NEW effect \in BOOLEAN, NEW answered \in BOOLEAN,
           Apply(w, effect, answered)
    PROVE  AccessInv'
    <1> DEFINE t == work[w].task
               i == work[w].change
               took == effect /\ directory # After(t, directory)
    <1>1. AccessTypeOK /\ Structure /\ Safe
        BY DEF AccessInv, Structure
    <1>2. /\ work[w].phase = "applying"
          /\ UNCHANGED <<listing, changeVars, row>>
        BY DEF Apply
    <1>3. WorkerOK(w)
        BY <1>1 DEF Structure, WorkOK
    <1>4. /\ i \in Changes /\ t \in Tasks /\ work[w].actor \in Actors
          /\ work[w].actor # requester[i] /\ status[i] \in Claimed
        BY <1>2, <1>3 DEF WorkerOK, Approving
    <1>5. t.on \in Assignments
        BY <1>4 DEF Tasks
    <1>6. PICK s \in WorkStates :
              /\ Advance(w, s) /\ s.phase \in {"recording", "failing"}
              /\ s.change = i
              /\ s.phase = "recording" =>
                   s.claim = work[w].claim /\ s.task = t /\ s.actor = work[w].actor
        <2>1. "failing" \in Phases /\ "recording" \in Phases
            BY DEF Phases
        <2>2. CASE answered
            <3>1. Advance(w, Onward(w, "recording", {}, FALSE, FALSE))
                BY <2>2 DEF Apply
            <3>2. work[w] \in WorkStates
                BY <1>1 DEF AccessTypeOK
            <3>3. Onward(w, "recording", {}, FALSE, FALSE) \in WorkStates
                BY <2>1, <3>2 DEF Onward, WorkStates
            <3>4. /\ Onward(w, "recording", {}, FALSE, FALSE).phase = "recording"
                  /\ Onward(w, "recording", {}, FALSE, FALSE).change = i
                  /\ Onward(w, "recording", {}, FALSE, FALSE).claim = work[w].claim
                  /\ Onward(w, "recording", {}, FALSE, FALSE).task = t
                  /\ Onward(w, "recording", {}, FALSE, FALSE).actor = work[w].actor
                BY DEF Onward
            <3> QED
                BY <3>1, <3>3, <3>4
        <2>3. CASE ~answered
            <3>1. Advance(w, Ending(w, "failing"))
                BY <2>3 DEF Apply
            <3> QED
                BY <1>1, <2>1, <3>1, EndingRecord
        <2> QED
            BY <2>2, <2>3
    <1>7. /\ work' \in [Workers -> WorkStates] /\ work'[w] = s
          /\ \A v \in Workers \ {w} : work'[v] = work[v]
        BY <1>1, <1>6, Advanced
    <1>8. /\ directory' = (IF effect THEN After(t, directory) ELSE directory)
          /\ carried' = (IF took THEN [carried EXCEPT ![i] = @ \cup {work[w].actor}]
                         ELSE carried)
          /\ unchecked' = (unchecked \/ (/\ took /\ t.action = "revoke"
                                         /\ work[w].behind \/ ~ClaimIsCurrent(w)))
        BY DEF Apply
    <1>9. directory' \subseteq Assignments
        BY <1>1, <1>5, <1>8 DEF AccessTypeOK, After
    <1>10. carried' \in [Changes -> SUBSET Actors]
        BY <1>1, <1>4, <1>8 DEF AccessTypeOK
    <1>11. AccessTypeOK'
        <2>1. unchecked' \in BOOLEAN
            BY DEF Apply
        <2>2. RestTyped'
            BY <1>1, <1>2, <1>9, <1>10, <2>1 DEF RestTyped, AccessTypeOK
        <2> QED
            BY <1>1, <1>2, <1>7, <2>2, TypedBySameChanges
    <1> HIDE DEF took
    <1>12. WorkOK'
        <2>1. WorkerOK(w)'
            BY <1>2, <1>3, <1>6, <1>7 DEF WorkerOK, changeVars, Approving, Ends, Expiring
        <2>2. \A v \in Workers \ {w} : WorkerOK(v)'
            BY <1>1, <1>2, <1>7, OthersOK, SameChangesForward DEF Structure
        <2> QED
            BY <2>1, <2>2 DEF WorkOK
    <1>13. CarriedOK'
        <2>1. ASSUME NEW j \in Changes
              PROVE  (carried'[j] # {} => status[j] \in Claimed) /\ requester[j] \notin carried'[j]
            <3>1. /\ carried[j] # {} => status[j] \in Claimed
                  /\ requester[j] \notin carried[j]
                BY <1>1 DEF Structure, CarriedOK
            <3>2. CASE j # i
                BY <1>1, <1>8, <3>1, <3>2 DEF AccessTypeOK
            <3>3. CASE j = i
                <4>1. carried'[i] \subseteq carried[i] \cup {work[w].actor}
                    BY <1>1, <1>4, <1>8 DEF AccessTypeOK
                <4> QED
                    BY <1>4, <3>1, <3>3, <4>1
            <3> QED
                BY <3>2, <3>3
        <2> QED
            BY <1>2, <2>1 DEF CarriedOK, changeVars
    <1>14. OneRevocation'
        BY <1>1, <1>2, RevocationsKept, SameChangesNoNewClaim DEF Structure
    <1>15. ClaimsDiffer'
        <2>1. \A v \in Workers :
               \/ work'[v].phase \notin Approving
               \/ /\ work[v].phase \in Approving
                  /\ work'[v].change = work[v].change
                  /\ work'[v].claim = work[v].claim
            BY <1>2, <1>6, <1>7 DEF Approving
        <2> QED
            BY <1>1, <2>1, ClaimsKept DEF Structure
    <1>16. Safe'
        <2> SUFFICES ASSUME ~unchecked' PROVE Safe'
            BY DEF Safe
        <2>1. ~unchecked
            BY <1>8
        <2>2. ASSUME NEW v \in Workers, v # w
              PROVE  SafeWorker(v) /\ ClaimIsCurrent(v)' = ClaimIsCurrent(v) /\ work'[v] = work[v]
            <3>1. UNCHANGED changeVars
                BY <1>2
            <3> QED
                BY <1>1, <1>7, <2>1, <2>2, <3>1, SameClaims DEF Safe
        <2>3. SafeWorker(w)'
            BY <1>6, <1>7 DEF SafeWorker
        <2>4. CASE directory \subseteq directory'
            <3>1. Cardinality(AdministratorsIn(directory')) >= Minimum
                BY <1>1, <1>9, <2>1, <2>4, MoreAdministrators DEF Safe, AccessTypeOK
            <3>2. ASSUME NEW v \in Workers, v # w
                  PROVE  SafeWorker(v)'
                <4> DEFINE on == work[v].task.on
                <4>1. directory \ {on} \in SUBSET Assignments /\ directory' \ {on} \in SUBSET Assignments
                      /\ directory \ {on} \subseteq directory' \ {on}
                    BY <1>1, <1>9, <2>4 DEF AccessTypeOK
                <4>2. Cardinality(AdministratorsIn(directory \ {on})) >= Minimum =>
                          Cardinality(AdministratorsIn(directory' \ {on})) >= Minimum
                    BY <4>1, MoreAdministrators
                <4>3. Valid(v)' => Valid(v)
                    BY <2>2, <3>2 DEF Valid
                <4>4. SafeWorker(v) /\ work'[v] = work[v]
                    BY <2>2, <3>2
                <4> QED
                    BY <2>4, <4>2, <4>3, <4>4 DEF SafeWorker
            <3> QED
                BY <2>3, <3>1, <3>2 DEF Safe
        <2>5. CASE ~(directory \subseteq directory')
            <3>1. effect /\ t.action = "revoke" /\ directory' = directory \ {t.on}
                BY <1>4, <1>8, <2>5 DEF After, Tasks
            <3>2. took
                BY <1>8, <2>5, <3>1 DEF took
            <3>3. Valid(w)
                BY <1>8, <3>1, <3>2 DEF Valid
            <3>4. Cardinality(AdministratorsIn(directory')) >= Minimum
                BY <1>1, <1>2, <2>1, <3>1, <3>3 DEF Safe, SafeWorker
            <3>5. ASSUME NEW v \in Workers, v # w
                  PROVE  SafeWorker(v)'
                <4>1. SUFFICES ASSUME work[v].phase \in {"checking", "applying"}, Valid(v)
                               PROVE  FALSE
                    BY <2>2, <3>5 DEF SafeWorker, Valid
                <4>2. WorkerOK(v)
                    BY <1>1 DEF Structure, WorkOK
                <4>3. /\ work[v].change \in Changes
                      /\ work[v].task = task[work[v].change]
                    BY <4>1, <4>2 DEF WorkerOK, Approving
                <4>4. work[w].task = task[i]
                    BY <1>2, <1>3 DEF WorkerOK, Approving
                <4>5. work[v].change = i
                    BY <1>1, <1>4, <3>3, <4>1, <4>3, <4>4
                    DEF Structure, OneRevocation, Valid, ClaimIsCurrent
                <4>6. work[v].claim = work[w].claim
                    BY <3>3, <4>1, <4>5 DEF Valid, ClaimIsCurrent
                <4> QED
                    BY <1>1, <1>2, <3>5, <4>1, <4>5, <4>6 DEF Structure, ClaimsDiffer, Approving
            <3> QED
                BY <2>3, <3>4, <3>5 DEF Safe
        <2> QED
            BY <2>4, <2>5
    <1> QED
        BY <1>11, <1>12, <1>13, <1>14, <1>15, <1>16 DEF AccessInv

LEMMA RecordKeeps ==
    ASSUME AccessInv, NEW w \in Workers, Record(w) \/ RecordFails(w)
    PROVE  AccessInv'
    <1>1. AccessTypeOK /\ WorkOK
        BY DEF AccessInv
    <1>2. /\ work[w].phase = "recording"
          /\ UNCHANGED <<dirVars, changeVars, carried, unchecked>>
        BY DEF Record, RecordFails
    <1>3. PICK phase \in Ends : Advance(w, Ending(w, phase))
        BY DEF Record, RecordFails, Ends
    <1>4. /\ Ending(w, phase) \in WorkStates /\ Ending(w, phase).phase = phase
          /\ Ending(w, phase).change = work[w].change
        BY <1>1, EndingRecord DEF Ends, Phases
    <1>5. row' \in [Assignments -> Rows]
        <2>1. CASE RecordFails(w)
            BY <1>1, <2>1 DEF RecordFails, AccessTypeOK
        <2>2. CASE Record(w)
            <3> DEFINE t == work[w].task
            <3>1. t.on \in Assignments /\ t.temporary \in BOOLEAN
                BY <1>1, <1>2 DEF WorkOK, WorkerOK, Approving, Tasks
            <3>2. row[t.on] \in Rows
                BY <1>1, <3>1 DEF AccessTypeOK
            <3> DEFINE live == row[t.on].status \notin {"none", "revoked"}
                       id == IF live THEN row[t.on].id ELSE row[t.on].id + 1
            <3>7. id \in Nat
                BY <3>2, AccessAssumption DEF Rows
            <3>3. /\ t.action = "grant" => id <= MaxRows
                  /\ row' = IF t.action = "revoke"
                            THEN IF live THEN [row EXCEPT ![t.on].status = "revoked"] ELSE row
                            ELSE [row EXCEPT ![t.on] = [id |-> id, status |-> "active",
                                        temporary |-> t.temporary, aged |-> FALSE]]
                BY <2>2 DEF Record
            <3> HIDE DEF id, live
            <3>4. t.action = "grant" \/ t.action = "revoke"
                BY <1>1, <1>2 DEF WorkOK, WorkerOK, Approving, Tasks
            <3>5. CASE t.action = "grant"
                <4>1. [id |-> id, status |-> "active", temporary |-> t.temporary, aged |-> FALSE] \in Rows
                    BY <3>1, <3>3, <3>5, <3>7, AccessAssumption DEF Rows, RowStates
                <4> QED
                    BY <1>1, <3>3, <3>5, <4>1 DEF AccessTypeOK
            <3>6. CASE t.action = "revoke"
                <4>1. [row[t.on] EXCEPT !.status = "revoked"] \in Rows
                    BY <3>2 DEF Rows, RowStates
                <4>2. row' = [row EXCEPT ![t.on] = [row[t.on] EXCEPT !.status = "revoked"]] \/ row' = row
                    BY <3>3, <3>6
                <4> QED
                    BY <1>1, <4>1, <4>2 DEF AccessTypeOK
            <3> QED
                BY <3>4, <3>5, <3>6
        <2> QED
            BY <2>1, <2>2
    <1>6. RestTyped'
        BY <1>1, <1>2, <1>5 DEF RestTyped, AccessTypeOK, dirVars
    <1> QED
        BY <1>2, <1>3, <1>4, <1>6, WorkerStepKeeps DEF Approving, Ends, dirVars

LEMMA FinishKeeps ==
    ASSUME AccessInv, NEW w \in Workers, Finish(w)
    PROVE  AccessInv'
    <1>1. AccessTypeOK /\ Structure /\ Safe
        BY DEF AccessInv, Structure
    <1>2. /\ work[w].phase \in Ends
          /\ UNCHANGED <<dirVars, task, requester, claim, aged, row, carried, unchecked>>
          /\ Advance(w, Free)
        BY DEF Finish, Ends
    <1>3. work[w].change \in Changes
        BY <1>1, <1>2 DEF Structure, WorkOK, WorkerOK
    <1>4. PICK decision \in {"approved", "failed"} :
              status' = IF status[work[w].change] = "applying"
                        THEN [status EXCEPT ![work[w].change] = decision] ELSE status
        BY DEF Finish
    <1>5. \A j \in Changes :
              \/ status'[j] = status[j]
              \/ status[j] = "applying" /\ status'[j] = decision
        BY <1>1, <1>3, <1>4 DEF AccessTypeOK
    <1>6. Forward /\ NoNewClaim
        BY <1>1, <1>2, <1>5 DEF Forward, NoNewClaim, AccessTypeOK, Claimed
    <1>7. /\ work' \in [Workers -> WorkStates] /\ work'[w] = Free
          /\ \A v \in Workers \ {w} : work'[v] = work[v]
        BY <1>1, <1>2, Advanced, FreeRecord
    <1>8. WorkerOK(w)' /\ work'[w].phase = "done"
        BY <1>7, FreeRecord DEF WorkerOK, Approving, Ends, Expiring
    <1>9. AccessTypeOK'
        <2>1. status' \in [Changes -> Decided \cup {"none", "pending", "applying"}]
            BY <1>1, <1>3, <1>4 DEF AccessTypeOK, Decided
        <2>2. \A j \in Changes :
                /\ status'[j] # "none" => task[j] \in Tasks /\ requester[j] \in Actors
                /\ status'[j] \in {"none", "pending", "rejected", "cancelled"} => claim[j] = 0
            BY <1>1, <1>5 DEF AccessTypeOK
        <2> QED
            BY <1>1, <1>2, <1>7, <2>1, <2>2 DEF AccessTypeOK, dirVars
    <1>10. Structure'
        BY <1>1, <1>2, <1>6, <1>7, <1>8, WorkerMoves DEF Approving
    <1>11. Safe'
        <2>1. \A v \in Workers : work[v].change = 0 \/ work[v].change \in Changes
            BY <1>1 DEF AccessTypeOK, WorkStates, Changes
        <2>2. ASSUME NEW v \in Workers, v # w
              PROVE  ClaimIsCurrent(v)' => ClaimIsCurrent(v) \/ work[v].phase \notin {"checking", "applying"}
            <3>1. work[v].phase \in {"checking", "applying"} => work[v].change \in Changes
                BY <1>1 DEF Structure, WorkOK, WorkerOK, Approving
            <3> QED
                BY <1>2, <1>5, <1>7, <2>2, <3>1 DEF ClaimIsCurrent
        <2>3. \A v \in Workers :
               \/ work'[v].phase \notin {"checking", "applying"}
               \/ work'[v] = work[v] /\ (ClaimIsCurrent(v)' => ClaimIsCurrent(v))
            BY <1>7, <1>8, <2>2
        <2> QED
            BY <1>1, <1>2, <2>3, QuietStep DEF dirVars
    <1> QED
        BY <1>9, <1>10, <1>11 DEF AccessInv, Structure

\* A claim makes those before it on the change out of date, and starts the
\* only revocation that is carried out.
LEMMA ApproveKeeps ==
    ASSUME AccessInv, NEW w \in Workers, NEW i \in Changes, NEW a \in Actors, Approve(w, i, a)
    PROVE  AccessInv'
    <1> DEFINE s == Worker("listing", a, task[i], i, claim[i] + 1, 0)
    <1>1. AccessTypeOK /\ Structure /\ Safe
        BY DEF AccessInv, Structure
    <1>2. /\ work[w].phase = "done" /\ requester[i] # a /\ Claimable(i) /\ claim[i] < MaxClaims
          /\ status' = [status EXCEPT ![i] = "applying"]
          /\ claim' = [claim EXCEPT ![i] = @ + 1]
          /\ aged' = [aged EXCEPT ![i] = FALSE]
          /\ Advance(w, s)
          /\ UNCHANGED <<dirVars, task, requester, row, carried, unchecked>>
        BY DEF Approve
    <1>3. /\ status[i] \in {"pending", "applying"} /\ task[i] \in Tasks
          /\ claim[i] \in 0 .. MaxClaims /\ claim[i] + 1 \in 0 .. MaxClaims
        BY <1>1, <1>2, AccessAssumption DEF AccessTypeOK, Claimable
    <1>4. /\ s \in WorkStates /\ s.phase = "listing" /\ s.actor = a /\ s.task = task[i]
          /\ s.change = i /\ s.claim = claim[i] + 1
        <2>1. /\ "listing" \in Phases /\ i \in 0 .. MaxChanges /\ 0 \in 0 .. MaxRows
              /\ a \in Actors \cup {Nobody} /\ task[i] \in Tasks \cup {NoTask}
            BY <1>3, AccessAssumption DEF Phases, Changes
        <2> QED
            BY <1>3, <2>1, WorkerRecord
    <1> HIDE DEF s
    <1>5. /\ work' \in [Workers -> WorkStates] /\ work'[w] = s
          /\ \A v \in Workers \ {w} : work'[v] = work[v]
        BY <1>1, <1>2, <1>4, Advanced
    <1>6. /\ status'[i] = "applying" /\ claim'[i] = claim[i] + 1
          /\ \A j \in Changes \ {i} : status'[j] = status[j] /\ claim'[j] = claim[j]
        BY <1>1, <1>2 DEF AccessTypeOK
    <1>7. Forward
        BY <1>1, <1>2, <1>3, <1>6 DEF Forward, Claimed, AccessTypeOK
    <1>8. AccessTypeOK'
        <2>1. /\ status' \in [Changes -> Decided \cup {"none", "pending", "applying"}]
              /\ claim' \in [Changes -> 0 .. MaxClaims]
              /\ aged' \in [Changes -> BOOLEAN]
            BY <1>1, <1>2, <1>3 DEF AccessTypeOK
        <2>2. ASSUME NEW j \in Changes
              PROVE  /\ status'[j] # "none" => task[j] \in Tasks /\ requester[j] \in Actors
                     /\ status'[j] \in {"none", "pending", "rejected", "cancelled"} => claim'[j] = 0
            BY <1>1, <1>3, <1>6 DEF AccessTypeOK
        <2> QED
            BY <1>1, <1>2, <1>5, <2>1, <2>2 DEF AccessTypeOK, dirVars
    <1>9. WorkOK'
        <2>1. WorkerOK(w)'
            <3>1. s.claim \in 1 .. claim'[i]
                BY <1>3, <1>4, <1>6
            <3> QED
                BY <1>2, <1>3, <1>4, <1>5, <1>6, <3>1
                DEF WorkerOK, Approving, Ends, Expiring, Claimed
        <2>2. \A v \in Workers \ {w} : WorkerOK(v)'
            BY <1>1, <1>5, <1>7, OthersOK DEF Structure
        <2> QED
            BY <2>1, <2>2 DEF WorkOK
    <1>10. CarriedOK'
        BY <1>1, <1>2, <1>7, CarriedKept DEF Structure
    <1>11. OneRevocation'
        <2>1. task[i].action = "revoke" =>
                  \A j \in Changes \ {i} : ~(status[j] = "applying" /\ task[j].action = "revoke")
            BY <1>2 DEF Claimable
        <2>2. OneRevocation
            BY <1>1 DEF Structure
        <2> QED
            BY <1>2, <1>6, <2>1, <2>2 DEF OneRevocation
    <1>12. ClaimsDiffer'
        <2>1. ASSUME NEW v \in Workers, v # w, work'[v].phase \in Approving, work'[v].change = i
              PROVE  work'[v].claim # s.claim
            <3>1. work[v].claim \in 1 .. claim[i]
                BY <1>1, <1>5, <2>1 DEF Structure, WorkOK, WorkerOK
            <3> QED
                BY <1>3, <1>4, <1>5, <2>1, <3>1
        <2>2. ClaimsDiffer
            BY <1>1 DEF Structure
        <2> QED
            BY <1>4, <1>5, <2>1, <2>2 DEF ClaimsDiffer
    <1>13. Safe'
        <2>1. ASSUME NEW v \in Workers, v # w, work[v].phase \in {"checking", "applying"},
                     ClaimIsCurrent(v)'
              PROVE  ClaimIsCurrent(v)
            <3>1. work[v].change \in Changes /\ work[v].claim \in 1 .. claim[work[v].change]
                BY <1>1, <2>1 DEF Structure, WorkOK, WorkerOK, Approving
            <3>2. work[v].change # i
                BY <1>3, <1>5, <1>6, <2>1, <3>1 DEF ClaimIsCurrent
            <3>3. aged'[work[v].change] = aged[work[v].change]
                BY <1>1, <1>2, <3>1, <3>2 DEF AccessTypeOK
            <3> QED
                BY <1>5, <1>6, <2>1, <3>1, <3>2, <3>3 DEF ClaimIsCurrent
        <2>2. \A v \in Workers :
               \/ work'[v].phase \notin {"checking", "applying"}
               \/ work'[v] = work[v] /\ (ClaimIsCurrent(v)' => ClaimIsCurrent(v))
            BY <1>4, <1>5, <2>1
        <2> QED
            BY <1>1, <1>2, <2>2, QuietStep DEF dirVars
    <1> QED
        BY <1>8, <1>9, <1>10, <1>11, <1>12, <1>13 DEF AccessInv

-----------------------------------------------------------------------------
(* Requests, refusals and the passing of five minutes.                      *)

LEMMA RefuseKeeps ==
    ASSUME AccessInv, NEW i \in Changes, NEW decision \in {"rejected", "cancelled", "expired"},
           Refuse(i, decision)
    PROVE  AccessInv'
    <1>1. AccessTypeOK /\ Structure /\ Safe
        BY DEF AccessInv, Structure
    <1>2. /\ status[i] = "pending" \/ (decision = "expired" /\ status[i] = "applying")
          /\ status' = [status EXCEPT ![i] = decision]
          /\ UNCHANGED <<dirVars, task, requester, claim, aged, row, work, carried, unchecked>>
        BY DEF Refuse
    <1>3. status'[i] = decision /\ \A j \in Changes \ {i} : status'[j] = status[j]
        BY <1>1, <1>2 DEF AccessTypeOK
    <1>4. Forward /\ NoNewClaim
        BY <1>1, <1>2, <1>3 DEF Forward, NoNewClaim, AccessTypeOK, Claimed
    <1>5. AccessTypeOK'
        <2>1. status' \in [Changes -> Decided \cup {"none", "pending", "applying"}]
            BY <1>1, <1>2 DEF AccessTypeOK, Decided
        <2>2. ASSUME NEW j \in Changes
              PROVE  /\ status'[j] # "none" => task[j] \in Tasks /\ requester[j] \in Actors
                     /\ status'[j] \in {"none", "pending", "rejected", "cancelled"} => claim[j] = 0
            <3>1. /\ status[j] # "none" => task[j] \in Tasks /\ requester[j] \in Actors
                  /\ status[j] \in {"none", "pending", "rejected", "cancelled"} => claim[j] = 0
                BY <1>1 DEF AccessTypeOK
            <3> QED
                BY <1>2, <1>3, <3>1
        <2> QED
            BY <1>1, <1>2, <2>1, <2>2 DEF AccessTypeOK, dirVars
    <1>6. Structure'
        BY <1>1, <1>2, <1>4, NobodyMoves
    <1>7. Safe'
        <2>1. ASSUME NEW v \in Workers, work[v].phase \in {"checking", "applying"}, ClaimIsCurrent(v)'
              PROVE  ClaimIsCurrent(v)
            <3>1. work[v].change \in Changes
                BY <1>1, <2>1 DEF Structure, WorkOK, WorkerOK, Approving
            <3> QED
                BY <1>2, <1>3, <2>1, <3>1 DEF ClaimIsCurrent
        <2> QED
            BY <1>1, <1>2, <2>1, QuietStep DEF dirVars
    <1> QED
        BY <1>5, <1>6, <1>7 DEF AccessInv, Structure

LEMMA RequestKeeps ==
    ASSUME AccessInv, NEW i \in Changes, NEW a \in Actors, NEW t \in Asked, RequestChange(i, a, t)
    PROVE  AccessInv'
    <1>1. AccessTypeOK /\ Structure /\ Safe
        BY DEF AccessInv, Structure
    <1>2. /\ status[i] = "none"
          /\ status' = [status EXCEPT ![i] = "pending"]
          /\ task' = [task EXCEPT ![i] = t]
          /\ requester' = [requester EXCEPT ![i] = a]
          /\ UNCHANGED <<dirVars, claim, aged, row, work, carried, unchecked>>
        BY DEF RequestChange
    <1>3. t \in Tasks
        BY AccessAssumption
    <1>4. /\ status'[i] = "pending" /\ task'[i] = t /\ requester'[i] = a
          /\ \A j \in Changes \ {i} :
              status'[j] = status[j] /\ task'[j] = task[j] /\ requester'[j] = requester[j]
        BY <1>1, <1>2 DEF AccessTypeOK
    <1>5. Forward /\ NoNewClaim
        BY <1>1, <1>2, <1>4 DEF Forward, NoNewClaim, AccessTypeOK, Claimed
    <1>6. AccessTypeOK'
        <2>1. /\ status' \in [Changes -> Decided \cup {"none", "pending", "applying"}]
              /\ task' \in [Changes -> Tasks \cup {NoTask}]
              /\ requester' \in [Changes -> Actors \cup {Nobody}]
            BY <1>1, <1>2, <1>3 DEF AccessTypeOK, Decided
        <2>2. ASSUME NEW j \in Changes
              PROVE  /\ status'[j] # "none" => task'[j] \in Tasks /\ requester'[j] \in Actors
                     /\ status'[j] \in {"none", "pending", "rejected", "cancelled"} => claim[j] = 0
            <3>1. /\ status[j] # "none" => task[j] \in Tasks /\ requester[j] \in Actors
                  /\ status[j] \in {"none", "pending", "rejected", "cancelled"} => claim[j] = 0
                BY <1>1 DEF AccessTypeOK
            <3> QED
                BY <1>2, <1>3, <1>4, <3>1
        <2> QED
            BY <1>1, <1>2, <2>1, <2>2 DEF AccessTypeOK, dirVars
    <1>7. Structure'
        BY <1>1, <1>2, <1>5, NobodyMoves
    <1>8. Safe'
        <2>1. ASSUME NEW v \in Workers, work[v].phase \in {"checking", "applying"}, ClaimIsCurrent(v)'
              PROVE  ClaimIsCurrent(v)
            <3>1. work[v].change \in Changes
                BY <1>1, <2>1 DEF Structure, WorkOK, WorkerOK, Approving
            <3> QED
                BY <1>2, <1>4, <2>1, <3>1 DEF ClaimIsCurrent
        <2> QED
            BY <1>1, <1>2, <2>1, QuietStep DEF dirVars
    <1> QED
        BY <1>6, <1>7, <1>8 DEF AccessInv, Structure

\* A step that only ages a claim, ages a row or updates the listing.
LEMMA PassingKeeps ==
    ASSUME AccessInv,
           \/ \E i \in Changes : FiveMinutesPass(i)
           \/ \E a \in Assignments : RowAges(a)
           \/ Propagate
    PROVE  AccessInv'
    <1>1. AccessTypeOK /\ Structure /\ Safe
        BY DEF AccessInv, Structure
    <1>2. UNCHANGED <<directory, status, task, requester, claim, work, carried, unchecked>>
        BY DEF FiveMinutesPass, RowAges, Propagate, dirVars, changeVars
    <1>3. /\ aged' \in [Changes -> BOOLEAN]
          /\ \A j \in Changes : aged[j] => aged'[j]
        BY <1>1 DEF AccessTypeOK, FiveMinutesPass, RowAges, Propagate, dirVars, changeVars
    <1>4. listing' \subseteq Assignments
        BY <1>1 DEF AccessTypeOK, FiveMinutesPass, RowAges, Propagate, dirVars, changeVars
    <1>5. row' \in [Assignments -> Rows]
        <2>1. CASE \E a \in Assignments : RowAges(a)
            <3>1. PICK a \in Assignments : row' = [row EXCEPT ![a].aged = TRUE]
                BY <2>1 DEF RowAges
            <3>2. [row[a] EXCEPT !.aged = TRUE] \in Rows
                BY <1>1 DEF AccessTypeOK, Rows
            <3>3. row' = [row EXCEPT ![a] = [row[a] EXCEPT !.aged = TRUE]]
                BY <3>1
            <3> QED
                BY <1>1, <3>2, <3>3 DEF AccessTypeOK
        <2>2. CASE ~\E a \in Assignments : RowAges(a)
            BY <1>1, <2>2 DEF AccessTypeOK, FiveMinutesPass, Propagate
        <2> QED
            BY <2>1, <2>2
    <1>6. AccessTypeOK'
        BY <1>1, <1>2, <1>3, <1>4, <1>5 DEF AccessTypeOK
    <1>7. Forward /\ NoNewClaim
        BY <1>1, <1>2 DEF Forward, NoNewClaim, AccessTypeOK
    <1>8. Structure'
        BY <1>1, <1>2, <1>7, NobodyMoves
    <1>9. Safe'
        <2>1. ASSUME NEW v \in Workers, work[v].phase \in {"checking", "applying"}, ClaimIsCurrent(v)'
              PROVE  ClaimIsCurrent(v)
            <3>1. work[v].change \in Changes
                BY <1>1, <2>1 DEF Structure, WorkOK, WorkerOK, Approving
            <3> QED
                BY <1>2, <1>3, <2>1, <3>1 DEF ClaimIsCurrent
        <2> QED
            BY <1>1, <1>2, <2>1, QuietStep
    <1> QED
        BY <1>6, <1>8, <1>9 DEF AccessInv, Structure

-----------------------------------------------------------------------------
(* Expiry, and a worker that stops.                                         *)

LEMMA StopKeeps ==
    ASSUME AccessInv, NEW w \in Workers, Stop(w)
    PROVE  AccessInv'
    <1>1. RestTyped'
        BY RestKept DEF AccessInv, Stop
    <1> QED
        BY <1>1, FreeRecord, WorkerStepKeeps DEF Stop, dirVars

LEMMA ListDueKeeps ==
    ASSUME AccessInv, NEW w \in Workers, NEW a \in Actors, NEW on \in Assignments, ListDue(w, a, on)
    PROVE  AccessInv'
    <1> DEFINE s == Worker("claimingRow", a, Revocation(on), 0, 0, row[on].id)
    <1>1. Revocation(on) \in Tasks /\ Revocation(on).action = "revoke"
        BY DEF Revocation, Tasks
    <1>2. row[on].id \in 0 .. MaxRows /\ 0 \in 0 .. MaxChanges /\ 0 \in 0 .. MaxClaims
        BY AccessAssumption DEF AccessInv, AccessTypeOK, Rows
    <1>3. s \in WorkStates /\ s.phase = "claimingRow" /\ s.task = Revocation(on) /\ s.change = 0
        BY <1>1, <1>2, WorkerRecord DEF Phases
    <1>4. RestTyped'
        BY RestKept DEF AccessInv, ListDue
    <1>5. Advance(w, s) /\ UNCHANGED <<dirVars, changeVars, carried, unchecked>>
        BY DEF ListDue
    <1> HIDE DEF s
    <1> QED
        BY <1>1, <1>3, <1>4, <1>5, WorkerStepKeeps DEF Expiring, dirVars

LEMMA ClaimRowKeeps ==
    ASSUME AccessInv, NEW w \in Workers, ClaimRow(w)
    PROVE  AccessInv'
    <1> DEFINE on == work[w].task.on
    <1>1. /\ AccessTypeOK /\ WorkerOK(w) /\ work[w].phase = "claimingRow"
          /\ UNCHANGED <<dirVars, changeVars, carried, unchecked>>
        BY DEF AccessInv, WorkOK, ClaimRow
    <1>2. on \in Assignments /\ work[w].task \in Tasks /\ work[w].task.action = "revoke"
          /\ work[w].change = 0
        BY <1>1 DEF WorkerOK, Expiring, Tasks
    <1>3. row[on] \in Rows
        BY <1>1, <1>2 DEF AccessTypeOK
    <1>4. row' = row \/ row' = [row EXCEPT ![on] =
                   [id |-> row[on].id, status |-> "expiring", temporary |-> row[on].temporary,
                    aged |-> FALSE]]
        BY DEF ClaimRow
    <1>5. [id |-> row[on].id, status |-> "expiring", temporary |-> row[on].temporary,
           aged |-> FALSE] \in Rows
        BY <1>3 DEF Rows, RowStates
    <1>6. row' \in [Assignments -> Rows]
        BY <1>1, <1>4, <1>5 DEF AccessTypeOK
    <1>7. RestTyped'
        BY <1>1, <1>6 DEF AccessTypeOK, RestTyped, dirVars
    <1>8. /\ To(w, "expiring") \in WorkStates /\ To(w, "expiring").phase = "expiring"
          /\ To(w, "expiring").task = work[w].task /\ To(w, "expiring").change = work[w].change
        BY <1>1, ToRecord DEF Phases
    <1>9. CASE Advance(w, Free)
        BY <1>1, <1>7, <1>9, FreeRecord, WorkerStepKeeps DEF dirVars
    <1>10. CASE Advance(w, To(w, "expiring"))
        BY <1>1, <1>2, <1>7, <1>8, <1>10, WorkerStepKeeps DEF Expiring, dirVars
    <1>11. Advance(w, Free) \/ Advance(w, To(w, "expiring"))
        BY DEF ClaimRow
    <1> QED
        BY <1>9, <1>10, <1>11

LEMMA MarkKeeps ==
    ASSUME AccessInv, NEW w \in Workers, Mark(w)
    PROVE  AccessInv'
    <1> DEFINE on == work[w].task.on
    <1>1. /\ AccessTypeOK /\ WorkerOK(w) /\ work[w].phase = "marking" /\ Advance(w, Free)
          /\ UNCHANGED <<dirVars, changeVars, carried, unchecked>>
        BY DEF AccessInv, WorkOK, Mark
    <1>2. row[on] \in Rows
        BY <1>1 DEF WorkerOK, Expiring, Tasks, AccessTypeOK
    <1>3. PICK state \in RowStates :
              row' = row \/ row' = [row EXCEPT ![on].status = state]
        BY DEF Mark, RowStates
    <1>4. [row[on] EXCEPT !.status = state] \in Rows
        BY <1>2 DEF Rows
    <1>5. row' = row \/ row' = [row EXCEPT ![on] = [row[on] EXCEPT !.status = state]]
        BY <1>3
    <1>6. row' \in [Assignments -> Rows]
        BY <1>1, <1>4, <1>5 DEF AccessTypeOK
    <1>7. RestTyped'
        BY <1>1, <1>6 DEF AccessTypeOK, RestTyped, dirVars
    <1> QED
        BY <1>1, <1>7, FreeRecord, WorkerStepKeeps DEF dirVars

\* An expiry takes away what nobody checked, and says so.
LEMMA ExpireKeeps ==
    ASSUME AccessInv, NEW w \in Workers, NEW effect \in BOOLEAN, NEW answered \in BOOLEAN,
           Expire(w, effect, answered)
    PROVE  AccessInv'
    <1> DEFINE t == work[w].task
               s == Onward(w, "marking", {}, FALSE, answered)
    <1>1. AccessTypeOK /\ Structure /\ Safe
        BY DEF AccessInv, Structure
    <1>2. /\ work[w].phase = "expiring" /\ Advance(w, s)
          /\ directory' = IF effect THEN After(t, directory) ELSE directory
          /\ unchecked' = (unchecked \/ (effect /\ t.on \in directory))
          /\ UNCHANGED <<listing, changeVars, row, carried>>
        BY DEF Expire
    <1>3. /\ WorkerOK(w) /\ t \in Tasks /\ t.action = "revoke" /\ work[w].change = 0
        BY <1>1, <1>2 DEF Structure, WorkOK, WorkerOK, Expiring
    <1>4. s \in WorkStates
        <2>1. work[w] \in WorkStates
            BY <1>1 DEF AccessTypeOK
        <2> QED
            BY <2>1 DEF Onward, WorkStates, Phases
    <1>5. s.phase = "marking" /\ s.task = t /\ s.change = 0
        BY <1>3 DEF Onward
    <1> HIDE DEF s
    <1>6. After(t, directory) = directory \ {t.on}
        BY <1>3 DEF After
    <1>7. RestTyped'
        <2>1. unchecked' \in BOOLEAN
            BY <1>2
        <2>2. directory' \subseteq Assignments
            BY <1>1, <1>2, <1>6 DEF AccessTypeOK
        <2> QED
            BY <1>1, <1>2, <2>1, <2>2 DEF AccessTypeOK, RestTyped
    <1>8. CASE effect /\ t.on \in directory
        <2>1. /\ work' \in [Workers -> WorkStates] /\ work'[w] = s
              /\ \A v \in Workers \ {w} : work'[v] = work[v]
            BY <1>1, <1>2, <1>4, Advanced
        <2>2. WorkerOK(w)'
            BY <1>3, <1>5, <2>1 DEF WorkerOK, Approving, Ends, Expiring
        <2>3. AccessTypeOK'
            BY <1>1, <1>2, <1>7, <2>1, TypedBySameChanges
        <2>4. Structure'
            BY <1>1, <1>2, <1>5, <2>1, <2>2, WorkerMoves, SameChangesForward,
               SameChangesNoNewClaim DEF Approving
        <2>5. Safe'
            BY <1>2, <1>8 DEF Safe
        <2> QED
            BY <2>3, <2>4, <2>5 DEF AccessInv, Structure
    <1>9. CASE ~(effect /\ t.on \in directory)
        <2>1. directory' = directory
            BY <1>2, <1>6, <1>9
        <2>2. unchecked' = unchecked
            BY <1>1, <1>2, <1>9 DEF AccessTypeOK
        <2> QED
            BY <1>2, <1>3, <1>4, <1>5, <1>7, <2>1, <2>2, WorkerStepKeeps DEF Expiring
    <1> QED
        BY <1>8, <1>9

-----------------------------------------------------------------------------
(* The theorems.                                                            *)

LEMMA StutterKeepsAccess ==
    ASSUME AccessInv, UNCHANGED vars
    PROVE  AccessInv'
    BY DEF AccessInv, AccessTypeOK, WorkOK, WorkerOK, CarriedOK, OneRevocation, ClaimsDiffer,
           Safe, SafeWorker, Valid, ClaimIsCurrent, vars, dirVars, changeVars

LEMMA NextAccess == AccessInv /\ [Next]_vars => AccessInv'
    <1> SUFFICES ASSUME AccessInv, [Next]_vars PROVE AccessInv'
        OBVIOUS
    <1>1. CASE \E w \in Workers : WorkerStep(w)
        BY <1>1, ListKeeps, CheckKeeps, ApplyKeeps, RecordKeeps, FinishKeeps, ClaimRowKeeps,
           ExpireKeeps, MarkKeeps, StopKeeps DEF WorkerStep
    <1>2. CASE \E a \in Actors : CallerStep(a)
        <2>1. PICK a \in Actors : CallerStep(a)
            BY <1>2
        <2>2. CASE \E i \in Changes : Cancel(i, a) \/ Reject(i, a) \/ FindExpired(i, a)
            BY <2>2, RefuseKeeps DEF Cancel, Reject, FindExpired
        <2>3. CASE \E i \in Changes, t \in Asked : RequestChange(i, a, t)
            BY <2>3, RequestKeeps
        <2>4. CASE \E i \in Changes, w \in Workers : Approve(w, i, a)
            BY <2>4, ApproveKeeps
        <2>5. CASE \E w \in Workers, on \in Assignments : ListDue(w, a, on)
            BY <2>5, ListDueKeeps
        <2> QED
            BY <2>1, <2>2, <2>3, <2>4, <2>5 DEF CallerStep
    <1>3. CASE \/ \E i \in Changes : FiveMinutesPass(i)
               \/ \E a \in Assignments : RowAges(a)
               \/ Propagate
        BY <1>3, PassingKeeps
    <1>4. CASE UNCHANGED vars
        BY <1>4, StutterKeepsAccess
    <1> QED
        BY <1>1, <1>2, <1>3, <1>4 DEF Next

LEMMA AccessInvariant == Spec => []AccessInv
    BY InitAccess, NextAccess, PTL DEF Spec

\* Rows, changes and workers keep their types, and a change that was claimed
\* never goes back to waiting (the columns of AccessManagementChanges).
THEOREM AccessTypeCorrect == Spec => []AccessTypeOK
    <1>1. AccessInv => AccessTypeOK
        BY DEF AccessInv
    <1> QED
        BY <1>1, AccessInvariant, PTL

\* Approvals that overlap never remove the last administrators between them:
\* claimChange lets one revocation of an administrator through at a time.
THEOREM LastAdministratorIsKept == Spec => []LastAdministratorKept
    <1>1. AccessInv => LastAdministratorKept
        BY DEF AccessInv, Safe, LastAdministratorKept
    <1> QED
        BY <1>1, AccessInvariant, PTL

\* Nobody carries out what they asked for themselves, however the claims on
\* the change went.
THEOREM SecondPersonNeeded == Spec => []SecondPersonCarriesOut
    <1>1. AccessInv => SecondPersonCarriesOut
        BY DEF AccessInv, CarriedOK, SecondPersonCarriesOut
    <1> QED
        BY <1>1, AccessInvariant, PTL

\* What was rejected or cancelled was not and will not be carried out: a claim
\* and a refusal exclude one another.
THEOREM RefusalsHaveNoEffect == Spec => []RefusedHasNoEffect
    <1>1. AccessInv => RefusedHasNoEffect
        <2> SUFFICES ASSUME AccessInv, NEW i \in Changes, status[i] \in {"rejected", "cancelled"}
                     PROVE  /\ carried[i] = {}
                            /\ \A w \in Workers : work[w].change = i => work[w].phase = "done"
            BY DEF RefusedHasNoEffect
        <2>1. carried[i] = {}
            BY DEF AccessInv, CarriedOK, Claimed
        <2>2. ASSUME NEW w \in Workers, work[w].change = i, work[w].phase # "done"
              PROVE  FALSE
            <3>1. WorkerOK(w) /\ work[w].phase \in Phases
                BY DEF AccessInv, WorkOK, AccessTypeOK, WorkStates
            <3>2. i # 0
                BY AccessAssumption DEF Changes
            <3> QED
                BY <2>2, <3>1, <3>2 DEF WorkerOK, Approving, Ends, Expiring, Phases, Claimed
        <2> QED
            BY <2>1, <2>2
    <1> QED
        BY <1>1, AccessInvariant, PTL

\* A decided change is never decided again (decideChange compares the status).
THEOREM DecisionsAreFinal == Spec => DecisionIsFinal
    <1> DEFINE Stays == \A i \in Changes : status[i] \in Decided => status'[i] = status[i]
    <1>1. AccessInv /\ [Next]_vars => Stays
        <2> SUFFICES ASSUME AccessInv, Next, NEW i \in Changes, status[i] \in Decided
                     PROVE  status'[i] = status[i]
            BY DEF vars, changeVars
        <2>1. DOMAIN status = Changes
            BY DEF AccessInv, AccessTypeOK
        <2>2. status[i] \notin {"none", "pending", "applying"}
            BY DEF Decided
        <2>3. ASSUME status' # status
              PROVE  \E j \in Changes, to \in Decided \cup {"pending", "applying"} :
                         status[j] \in {"none", "pending", "applying"}
                         /\ status' = [status EXCEPT ![j] = to]
            <3>1. CASE \E w \in Workers : WorkerStep(w)
                <4>a. PICK w \in Workers : WorkerStep(w)
                    BY <3>1
                <4>b. ~List(w) /\ ~Check(w)
                    BY <2>3 DEF List, Check, changeVars
                <4>c. ~Record(w) /\ ~RecordFails(w)
                    BY <2>3 DEF Record, RecordFails, changeVars
                <4>d. ~ClaimRow(w) /\ ~Mark(w) /\ ~Stop(w)
                    BY <2>3 DEF ClaimRow, Mark, Stop, changeVars
                <4>e. ASSUME NEW effect \in BOOLEAN, NEW answered \in BOOLEAN
                      PROVE  ~Apply(w, effect, answered) /\ ~Expire(w, effect, answered)
                    BY <2>3 DEF Apply, Expire, changeVars
                <4>1. Finish(w)
                    BY <4>a, <4>b, <4>c, <4>d, <4>e DEF WorkerStep
                <4>2. work[w].change \in Changes
                    BY <4>1 DEF Finish, AccessInv, WorkOK, WorkerOK, Ends
                <4> QED
                    BY <2>3, <4>1, <4>2 DEF Finish, Decided
            <3>2. CASE \E a \in Actors : CallerStep(a)
                <4>1. PICK a \in Actors, j \in Changes :
                          \/ Cancel(j, a) \/ Reject(j, a) \/ FindExpired(j, a)
                          \/ \E t \in Asked : RequestChange(j, a, t)
                          \/ \E w \in Workers : Approve(w, j, a)
                    BY <2>3, <3>2 DEF CallerStep, ListDue, changeVars
                <4>2. CASE Cancel(j, a) \/ Reject(j, a) \/ FindExpired(j, a)
                    BY <4>2 DEF Cancel, Reject, FindExpired, Refuse, Decided
                <4>3. CASE \E t \in Asked : RequestChange(j, a, t)
                    BY <4>3 DEF RequestChange
                <4>4. CASE \E w \in Workers : Approve(w, j, a)
                    BY <4>4 DEF Approve, Claimable
                <4> QED
                    BY <4>1, <4>2, <4>3, <4>4
            <3> QED
                BY <2>3, <3>1, <3>2 DEF Next, FiveMinutesPass, RowAges, Propagate, changeVars
        <2> QED
            BY <2>1, <2>2, <2>3
    <1>2. Spec => [][Stays]_vars
        BY <1>1, AccessInvariant, PTL DEF Spec
    <1> QED
        BY <1>2 DEF DecisionIsFinal

=============================================================================
