--------------------------- MODULE MCNotifications ---------------------------
(* Two tables whose rows people and the program write in turn: the            *)
(* notifications of crossings (EventNotification) and the Assessment Periods. *)
(* They share no state, and a behaviour is about one of them (side), from the *)
(* beginning to the end.                                                      *)
EXTENDS EventNotification, AssessmentPeriod, TLC

CONSTANTS c1, c2, c3

\* One bus at one fence: each crossing is within the cooldown of the next one
\* only.  The messages are handled in any order.
MCTrack == [c \in Crossings |-> "track"]
MCAt == [c \in Crossings |-> IF c = c1 THEN 1 ELSE IF c = c2 THEN 2 ELSE 3]

Symmetry == Permutations(Managers)

VARIABLE side

MCInit ==
  /\ Init /\ AssessmentInit
  /\ side \in {"crossings", "periods"}
  /\ side = "crossings" => figure = [m \in Months |-> "meets"]
  /\ side = "periods" => ~enabled

MCNext ==
  /\ side' = side
  /\ \/ side = "crossings" /\ Next /\ UNCHANGED assessmentVars
     \/ side = "periods" /\ AssessmentNext /\ UNCHANGED vars

MCSpec == MCInit /\ [][MCNext]_<<vars, assessmentVars, side>>

\* Two depths in one run: the whole life of one crossing, with its redeliveries,
\* claims and leases, or all three crossings up to the drafts, where they meet
\* in the cooldown.  Beyond its draft a crossing shares nothing with another one.
OneAtLength ==
  \/ \A c \in Crossings \ {c1} : queue[c] = "unpublished"
  \/ \A c \in Crossings : claims[c] = 0 /\ ~old[c] /\ deliveries[c] <= 1

\* A correction is followed to its end if nothing changes after it is begun, and
\* not beyond its beginning otherwise.
OneAtATime == changes > 1 => stage[<<1, 2>>] \in {"none", "reopened"}

\* The second month is below standard and is opened once the first is issued: one
\* thing happens then, which may be that a correction of the first one is begun.
\* Amounts are those proposed.
SecondMonth ==
  /\ figure[2] = "below" \/ side = "crossings"
  /\ ~candidate[2] /\ ~intake[2] /\ stage[<<2, 2>>] = "none"
  /\ RowsOf(2) # {} =>
       /\ changes <= 1 /\ ~candidate[1] /\ ~intake[1]
       /\ final[<<1, 1>>] # Null /\ render[<<1, 1>>].task = "none"
       /\ stage[<<1, 2>>] \in {"none", "reopened"}
       /\ \A p \in Periods : entry[p].rec # Null => ~entry[p].rec.adjusted
=============================================================================
