----------------------------- MODULE MCDetours ------------------------------
(* The three sides of a Detour, each on its own: they share no state, and a   *)
(* behaviour is about one of them (side), from the beginning to the end.      *)
(*                                                                            *)
(* Workflow: two Detours in one of two places, two two-step acts in flight,   *)
(* one detour of Avail. Intake: one reported detour, two things it can say,   *)
(* three requests at a time. Communication: one, with two recipients at one   *)
(* address or at two.                                                         *)
EXTENDS DetourWorkflow, DetourIntake, DetourCommunication, TLC

CONSTANTS a1, a2, f1, f2, t1, t2

MCLists == {<<a1, a2>>, <<a1, a1>>}

\* One is open-ended.
MCReports ==
  {[facts |-> f1, dates |-> [c \in DateColumns |-> IF c = "start_date" THEN t1 ELSE Nothing]],
   [facts |-> f2, dates |-> [c \in DateColumns |-> t2]]}

Symmetry ==
  Permutations(Detours) \cup Permutations(Places) \cup Permutations(Staff)

VARIABLE side

DetoursInit ==
  /\ Init /\ IntakeInit /\ CommunicationInit
  /\ side \in {"workflow", "intake", "communication"}
  /\ side # "communication" =>
       channel = [c \in Comms |-> "recorded"] /\ to = [c \in Comms |-> <<a1, a2>>]

DetoursNext ==
  /\ side' = side
  /\ \/ side = "workflow" /\ Next /\ UNCHANGED <<intakeVars, communicationVars>>
     \/ side = "intake" /\ IntakeNext /\ UNCHANGED <<vars, communicationVars>>
     \/ side = "communication" /\ CommunicationNext /\ UNCHANGED <<vars, intakeVars>>

DetoursSpec == DetoursInit /\ [][DetoursNext]_<<vars, intakeVars, communicationVars, side>>

\* The event of a communication to two addresses is delivered twice, or the
\* communication is queued again after its first event was dealt with; nobody
\* starts anything else, and the receipts are not torn by then.
OneAtLength ==
  \A c \in Comms :
    queue[c][1].delivered = 2 \/ sends[c] = 2 =>
      /\ queue[c][1].delivered = 2 => sends[c] = 1
      /\ sends[c] = 2 => queue[c][1].state = "completed" /\ queue[c][2].delivered < 2
      /\ to[c] = <<a1, a2>> /\ torn = {}
      /\ \A w \in Publishers : request[w].phase \notin {"sending", "recording"}

\* A promotion gives one of the dates at most.
OneDateGiven ==
  \A w \in Requests : \E c \in DateColumns : task[w].given[c] = Nothing
=============================================================================
