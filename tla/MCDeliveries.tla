---------------------------- MODULE MCDeliveries ----------------------------
(* What is queued is dealt with: a communication about a Detour, or a scanned *)
(* upload and its pages. The two share no state, and a behaviour is about one *)
(* of them (side), from the beginning to the end.                             *)
EXTENDS DetourCommunication, RidershipScans, TLC

CONSTANTS a1, w1, u1, t1

MCLists == {<<a1>>}

VARIABLE side

DeliveriesInit ==
  /\ CommunicationInit /\ ScanInit
  /\ side \in {"communication", "scans"}
  /\ side = "communication" => length = [u \in Uploads |-> 1]
  /\ side = "scans" => channel = [c \in Comms |-> "recorded"]

DeliveriesNext ==
  /\ side' = side
  /\ \/ side = "communication" /\ CommunicationNext /\ UNCHANGED scanVars
     \/ side = "scans" /\ ScanNext /\ UNCHANGED communicationVars

DeliveriesSpec ==
  /\ DeliveriesInit
  /\ [][DeliveriesNext]_<<communicationVars, scanVars, side>>
  /\ CommunicationFairness /\ ScanFairness

Handled == {host[h].message : h \in {h \in Hosts : host[h].phase # "idle"}}
Messages == BagToSet(waiting) \cup Handled

\* Nobody is at a desk, and every page is of the one sheet.
Unattended ==
  /\ \A d \in Desks : desk[d].phase = "away"
  /\ \A h \in Hosts : host[h].sheet \in {t1, NoSheet}

\* One request at a time sends; the other one records meanwhile that the
\* communication was sent.
OneSends == \A w \in Publishers \ {w1} : request[w].phase \in {"idle", "recording"}

\* A file of one page meets every failure, and is submitted twice if no lock
\* runs out. Files of two and three pages are about the scans of one sheet: each
\* message is delivered once, and the pages are queued before any is processed;
\* with two a person works at a desk and names either sheet.
ByLength ==
  /\ \A s \in Sheets \ {t1} : printed[s] = 0
  /\ length[u1] = 1 =>
       /\ Unattended /\ printed[t1] = 0
       /\ submits[u1] > 1 => dead = {} /\ \A m \in Messages : m.held
  /\ length[u1] > 1 =>
       /\ dead = {} /\ submits[u1] <= 1 /\ upload[u1] # "failed"
       /\ \A m \in Messages : m.held /\ m.try = 1
       /\ (\E m \in Messages : m.work = u1) =>
            printed[t1] = 0 /\ \A p \in Pages : page[p].state \in {"none", "pending"}
  /\ length[u1] = 3 => Unattended
=============================================================================
