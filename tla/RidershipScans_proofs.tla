----------------------- MODULE RidershipScans_proofs -----------------------
(***************************************************************************)
(* Proofs about RidershipScans: the types, that a sheet has at most one    *)
(* page, for any number of files, pages, sheets, hosts and people, and     *)
(* that a copy is set aside for another one, for any number of all but     *)
(* hosts.                                                                  *)
(***************************************************************************)
EXTENDS RidershipScans, TLAPS

-----------------------------------------------------------------------------
(* The queue as a bag of messages.                                          *)

LEMMA BagPlus ==
    ASSUME NEW B, NEW e, NEW S, BagToSet(B) \subseteq S, e \in S
    PROVE  BagToSet(B (+) SetToBag({e})) \subseteq S
    BY DEF BagToSet, SetToBag, (+)

LEMMA BagMinus ==
    ASSUME NEW B, NEW e, NEW S, BagToSet(B) \subseteq S
    PROVE  BagToSet(B (-) SetToBag({e})) \subseteq S
    BY DEF BagToSet, SetToBag, (-)

LEMMA RequeuedTyped ==
    ASSUME NEW m \in Deliveries, NEW B, BagToSet(B) \subseteq Deliveries
    PROVE  BagToSet(Requeued(m, B)) \subseteq Deliveries
    <1>1. CASE m.held /\ m.try < MaxTries
        <2>1. Delivery(m.work, m.try + 1, TRUE) \in Deliveries
            BY <1>1, ScanAssumption DEF Delivery, Deliveries
        <2> QED
            BY <1>1, <2>1, BagPlus DEF Requeued
    <1>2. CASE ~(m.held /\ m.try < MaxTries)
        BY <1>2 DEF Requeued
    <1> QED
        BY <1>1, <1>2

LEMMA DeadTyped ==
    ASSUME NEW m \in Deliveries, dead \subseteq Work
    PROVE  DeadAfter(m) \subseteq Work
    BY DEF DeadAfter, Deliveries

-----------------------------------------------------------------------------
(* ScanTypeOK by part.                                                      *)

RowsTyped ==
    /\ length \in [Uploads -> 1 .. MaxPages]
    /\ upload \in [Uploads -> UploadStates]
    /\ page \in [Pages -> PageRows]
    /\ \A p \in Pages : page[p].state = "matched" => page[p].sheet \in Sheets
    /\ vacated \subseteq Sheets
CountsTyped ==
    /\ submits \in [Uploads -> 0 .. MaxSubmits]
    /\ printed \in [Sheets -> Prints]
QueueTyped == BagToSet(waiting) \subseteq Deliveries /\ dead \subseteq Work
HostsTyped ==
    /\ host \in [Hosts -> HostRows]
    /\ \A h \in Hosts :
          /\ host[h].phase # "idle" => host[h].message \in Deliveries
          /\ host[h].phase = "identified" => host[h].sheet \in Sheets
DesksTyped ==
    /\ desk \in [Desks -> DeskRows]
    /\ \A d \in Desks : desk[d].phase # "away" => desk[d].page \in Pages
TxTyped == tx \in [Actors -> TxRows \cup {NoTx}]

LEMMA TypeParts ==
    /\ ScanTypeOK <=> /\ RowsTyped /\ CountsTyped /\ QueueTyped
                      /\ HostsTyped /\ DesksTyped /\ TxTyped
    /\ ScanTypeOK' <=> /\ RowsTyped' /\ CountsTyped' /\ QueueTyped'
                       /\ HostsTyped' /\ DesksTyped' /\ TxTyped'
    BY DEF ScanTypeOK, RowsTyped, CountsTyped, QueueTyped, HostsTyped, DesksTyped, TxTyped

\* What is left alone keeps its type.
LEMMA Kept ==
    /\ RowsTyped /\ UNCHANGED scanRows => RowsTyped'
    /\ CountsTyped /\ UNCHANGED <<submits, printed>> => CountsTyped'
    /\ QueueTyped /\ UNCHANGED queueVars => QueueTyped'
    /\ HostsTyped /\ UNCHANGED host => HostsTyped'
    /\ DesksTyped /\ UNCHANGED desk => DesksTyped'
    /\ TxTyped /\ UNCHANGED tx => TxTyped'
    BY DEF RowsTyped, CountsTyped, QueueTyped, HostsTyped, DesksTyped, TxTyped,
           scanRows, queueVars

LEMMA IdleTyped == Idle \in HostRows /\ Idle.phase = "idle"
    BY ScanAssumption DEF Idle, HostRows, Phases, Prints

\* A host moves to a row that fits.
LEMMA HostMoves ==
    ASSUME HostsTyped, NEW h \in Hosts, NEW r \in HostRows,
           host' = [host EXCEPT ![h] = r],
           r.phase # "idle" => r.message \in Deliveries,
           r.phase = "identified" => r.sheet \in Sheets
    PROVE  HostsTyped'
    BY DEF HostsTyped

LEMMA ReleaseTyped ==
    ASSUME HostsTyped, NEW h \in Hosts, Release(h)
    PROVE  HostsTyped'
    BY IdleTyped, HostMoves DEF Release

LEMMA AdvanceTyped ==
    ASSUME HostsTyped, NEW h \in Hosts, NEW p \in Phases, p # "identified",
           host[h].phase # "idle", Advance(h, p)
    PROVE  HostsTyped'
    BY DEF HostsTyped, HostRows, Advance

LEMMA ThrownTyped ==
    ASSUME HostsTyped, QueueTyped, NEW h \in Hosts, host[h].phase # "idle", Thrown(h)
    PROVE  HostsTyped' /\ QueueTyped'
    <1>1. host[h].message \in Deliveries
        BY DEF HostsTyped
    <1>2. CASE host[h].message.try = MaxTries /\ host[h].phase \notin {"givingUp", "closing"}
        BY <1>2, AdvanceTyped, Kept DEF Thrown, Phases
    <1>3. CASE ~(host[h].message.try = MaxTries
                 /\ host[h].phase \notin {"givingUp", "closing"})
        BY <1>1, <1>3, ReleaseTyped, RequeuedTyped, DeadTyped DEF Thrown, QueueTyped
    <1> QED
        BY <1>2, <1>3

\* A transaction ends.
LEMMA EndTyped ==
    ASSUME TxTyped, NEW x, tx' = [tx EXCEPT ![x] = NoTx]
    PROVE  TxTyped'
    BY DEF TxTyped

LEMMA UnnamedTyped ==
    ASSUME NEW state \in PageStates, NEW person \in BOOLEAN
    PROVE  Unnamed(state, person) \in PageRows
    BY ScanAssumption DEF Unnamed, PageRows, Prints

\* A page's row is replaced.
LEMMA PageMoves ==
    ASSUME RowsTyped, NEW p, NEW r \in PageRows, page' = [page EXCEPT ![p] = r],
           r.state = "matched" => r.sheet \in Sheets,
           UNCHANGED <<length, upload>>, vacated' \subseteq Sheets
    PROVE  RowsTyped'
    BY DEF RowsTyped

\* An upload's status is replaced.
LEMMA UploadMoves ==
    ASSUME RowsTyped, NEW u, NEW s \in UploadStates, upload' = [upload EXCEPT ![u] = s],
           UNCHANGED <<length, page, vacated>>
    PROVE  RowsTyped'
    BY DEF RowsTyped

LEMMA LockTyped ==
    ASSUME TxTyped, NEW x \in Actors, NEW p \in Pages, NEW s \in Sheets, NEW print \in Prints,
           LockSheet(x, p, s, print)
    PROVE  TxTyped'
    <1> DEFINE others == OtherScans(p, s)
               state == DuplicateOutcome(others, print)
               row == [on |-> p, sheet |-> s, print |-> print, state |-> state,
                       supersede |-> IF state = "matched" THEN others ELSE {}]
    <1>1. state \in {"matched", "duplicate", "superseded"}
        BY DEF DuplicateOutcome
    <1>2. others \subseteq Pages
        BY DEF OtherScans
    <1>3. row \in TxRows
        <2> HIDE DEF others, state
        <2> QED
            BY <1>1, <1>2 DEF TxRows
    <1>4. tx' = [tx EXCEPT ![x] = row]
        BY DEF LockSheet
    <1> HIDE DEF row
    <1> QED
        BY <1>3, <1>4 DEF TxTyped

\* Sheets that lose their page are sheets.
LEMMA LeftTyped ==
    ASSUME RowsTyped, NEW S \in SUBSET Pages, NEW s
    PROVE  Left(S, s) \subseteq Sheets
    BY DEF Left, RowsTyped

LEMMA CommitTyped ==
    ASSUME RowsTyped, TxTyped, NEW x \in Actors, CommitSheet(x), UNCHANGED <<length, upload>>
    PROVE  RowsTyped' /\ TxTyped'
    <1>1. tx[x] \in TxRows
        BY DEF CommitSheet, TxTyped
    <1>2. /\ Named(x) \in PageRows
          /\ Named(x).state = "matched" => Named(x).sheet \in Sheets
        <2>1. CASE x \in Desks \/ page[tx[x].on].state = "pending"
            BY <1>1, <2>1 DEF Named, TxRows, PageRows, PageStates
        <2>2. CASE ~(x \in Desks \/ page[tx[x].on].state = "pending")
            BY <1>1, <2>2 DEF Named, TxRows, RowsTyped
        <2> QED
            BY <2>1, <2>2
    <1>3. ASSUME NEW p \in Pages
          PROVE  /\ page'[p] \in PageRows
                 /\ page'[p].state = "matched" => page'[p].sheet \in Sheets
        <2>1. page[p] \in PageRows
              /\ (page[p].state = "matched" => page[p].sheet \in Sheets)
            BY DEF RowsTyped
        <2>2. CASE p = tx[x].on
            BY <1>2, <2>2 DEF CommitSheet
        <2>3. CASE p # tx[x].on /\ p \in tx[x].supersede /\ page[p].state = "matched"
            <3>1. page'[p] = [page[p] EXCEPT !.state = "superseded"]
                BY <2>3 DEF CommitSheet
            <3> QED
                BY <2>1, <3>1 DEF PageRows, PageStates
        <2>4. CASE p # tx[x].on /\ ~(p \in tx[x].supersede /\ page[p].state = "matched")
            BY <2>1, <2>4 DEF CommitSheet
        <2> QED
            BY <2>2, <2>3, <2>4
    <1>4. vacated' \subseteq Sheets
        <2>1. tx[x].supersede \cup {tx[x].on} \in SUBSET Pages
            BY <1>1 DEF TxRows
        <2> QED
            BY <2>1, LeftTyped DEF CommitSheet, RowsTyped
    <1>5. page' \in [Pages -> PageRows]
        BY <1>3 DEF CommitSheet
    <1> QED
        BY <1>3, <1>4, <1>5, EndTyped DEF RowsTyped, CommitSheet

-----------------------------------------------------------------------------
LEMMA TypeInit == ScanInit => ScanTypeOK
    <1> SUFFICES ASSUME ScanInit PROVE ScanTypeOK
        OBVIOUS
    <1>1. RowsTyped
        <2>1. Unnamed("none", FALSE) \in PageRows
            BY UnnamedTyped DEF PageStates
        <2> QED
            BY <2>1 DEF ScanInit, RowsTyped, UploadStates, Unnamed
    <1>2. CountsTyped
        BY ScanAssumption DEF ScanInit, CountsTyped, Prints
    <1>3. QueueTyped
        BY DEF ScanInit, QueueTyped, EmptyBag, SetToBag, BagToSet
    <1>4. HostsTyped
        BY IdleTyped DEF ScanInit, HostsTyped
    <1>5. DesksTyped
        BY ScanAssumption DEF ScanInit, DesksTyped, Away, DeskRows, Prints
    <1>6. TxTyped
        BY DEF ScanInit, TxTyped
    <1> QED
        BY <1>1, <1>2, <1>3, <1>4, <1>5, <1>6, TypeParts

\* The steps of a host.
LEMMA TypeHostStep ==
    ASSUME ScanTypeOK, NEW h \in Hosts, HostStep(h)
    PROVE  ScanTypeOK'
    <1> USE TypeParts, Kept
    <1>1. RowsTyped /\ CountsTyped /\ QueueTyped /\ HostsTyped /\ DesksTyped /\ TxTyped
        OBVIOUS
    <1>2. CASE LoadUpload(h)
        <2>1. HostsTyped'
            BY <1>1, <1>2, AdvanceTyped, ReleaseTyped DEF LoadUpload, Handles, Phases
        <2> QED
            BY <1>1, <1>2, <2>1 DEF LoadUpload, NoRow
    <1>3. CASE MarkSplitting(h)
        <2>1. HostsTyped'
            BY <1>1, <1>3, AdvanceTyped DEF MarkSplitting, Handles, Phases
        <2>2. RowsTyped'
            BY <1>1, <1>3 DEF MarkSplitting, RowsTyped, UploadStates
        <2> QED
            BY <1>1, <1>3, <2>1, <2>2 DEF MarkSplitting
    <1>4. ASSUME NEW readable \in BOOLEAN, ReadOriginal(h, readable) PROVE ScanTypeOK'
        <2>1. HostsTyped'
            BY <1>1, <1>4, AdvanceTyped DEF ReadOriginal, Handles, Phases
        <2> QED
            BY <1>1, <1>4, <2>1 DEF ReadOriginal, NoRow
    <1>5. CASE FailUpload(h)
        <2>1. HostsTyped'
            BY <1>1, <1>5, ReleaseTyped DEF FailUpload
        <2>2. RowsTyped'
            BY <1>1, <1>5, UploadMoves DEF FailUpload, UploadStates
        <2> QED
            BY <1>1, <1>5, <2>1, <2>2 DEF FailUpload
    <1>6. CASE WritePages(h)
        <2> DEFINE todo == {p \in PagesOf(host[h].message.work) : page[p].state \in {"none", "pending"}}
                   row == [host[h] EXCEPT !.phase = "queueing", !.todo = todo]
        <2>1. host[h] \in HostRows /\ host[h].phase # "idle" /\ host[h].message \in Deliveries
              /\ host[h].message.work \in Uploads
            BY <1>1, <1>6 DEF WritePages, Handles, HostsTyped
        <2>2. todo \subseteq Pages
            BY <1>1, <2>1, ScanAssumption DEF PagesOf, Pages, RowsTyped
        <2>3. row \in HostRows /\ row.phase = "queueing" /\ row.message = host[h].message
            <3> HIDE DEF todo
            <3> QED
                BY <2>1, <2>2 DEF HostRows, Phases
        <2>4. host' = [host EXCEPT ![h] = row]
            BY <1>6 DEF WritePages
        <2>5. HostsTyped'
            <3> HIDE DEF row
            <3> QED
                BY <1>1, <2>1, <2>3, <2>4, HostMoves
        <2>6. Unnamed("pending", FALSE) \in PageRows /\ Unnamed("pending", FALSE).state = "pending"
            BY UnnamedTyped DEF PageStates, Unnamed
        <2>7. RowsTyped'
            BY <1>1, <1>6, <2>6 DEF WritePages, RowsTyped, UploadStates
        <2> QED
            BY <1>1, <1>6, <2>5, <2>7 DEF WritePages
    <1>7. ASSUME NEW p \in Pages, QueuePage(h, p) PROVE ScanTypeOK'
        <2>1. Delivery(p, 1, TRUE) \in Deliveries
            BY ScanAssumption DEF Delivery, Deliveries, Work
        <2>2. QueueTyped'
            BY <1>1, <1>7, <2>1, BagPlus DEF QueuePage, QueueTyped
        <2>3. HostsTyped'
            BY <1>1, <1>7 DEF QueuePage, Handles, HostsTyped, HostRows
        <2> QED
            BY <1>1, <1>7, <2>2, <2>3 DEF QueuePage
    <1>8. CASE QueueingDone(h)
        <2>1. HostsTyped'
            BY <1>1, <1>8, AdvanceTyped DEF QueueingDone, Handles, Phases
        <2> QED
            BY <1>1, <1>8, <2>1 DEF QueueingDone, NoRow
    <1>9. CASE FinishUpload(h)
        <2>1. HostsTyped'
            BY <1>1, <1>9, ReleaseTyped DEF FinishUpload
        <2>2. RowsTyped'
            BY <1>1, <1>9, UploadMoves DEF FinishUpload, UploadStates, RowsTyped
        <2> QED
            BY <1>1, <1>9, <2>1, <2>2 DEF FinishUpload
    <1>10. CASE LoadPage(h)
        <2>1. HostsTyped'
            BY <1>1, <1>10, AdvanceTyped, ReleaseTyped DEF LoadPage, Handles, Phases
        <2> QED
            BY <1>1, <1>10, <2>1 DEF LoadPage, NoRow
    <1>11. ASSUME NEW s \in Sheets, NEW print \in Prints, AnalysePage(h, s, print)
           PROVE  ScanTypeOK'
        <2> DEFINE row == [host[h] EXCEPT !.phase = "identified", !.sheet = s, !.print = print]
        <2>1. host[h] \in HostRows /\ host[h].message \in Deliveries
            BY <1>1, <1>11 DEF AnalysePage, Handles, HostsTyped
        <2>2. row \in HostRows /\ row.message = host[h].message /\ row.sheet = s
            BY <2>1 DEF HostRows, Phases
        <2>3. host' = [host EXCEPT ![h] = row]
            BY <1>11 DEF AnalysePage
        <2>4. HostsTyped'
            <3> HIDE DEF row
            <3> QED
                BY <1>1, <2>1, <2>2, <2>3, HostMoves
        <2> QED
            BY <1>1, <1>11, <2>4 DEF AnalysePage, NoRow
    <1>12. ASSUME NEW as \in {"blank", "unreadable"}, FindNoSheet(h, as) PROVE ScanTypeOK'
        <2>1. HostsTyped'
            BY <1>1, <1>12, AdvanceTyped DEF FindNoSheet, Handles, Phases
        <2> QED
            BY <1>1, <1>12, <2>1 DEF FindNoSheet, NoRow
    <1>13. ASSUME NEW as \in {"blank", "unreadable"}, SetAside(host[h].message.work, as),
                  UNCHANGED <<length, upload, vacated>>
           PROVE  RowsTyped'
        <2>1. Unnamed(as, FALSE) \in PageRows /\ Unnamed(as, FALSE).state = as
            BY UnnamedTyped DEF PageStates, Unnamed
        <2> QED
            BY <1>1, <1>13, <2>1, PageMoves DEF SetAside, RowsTyped
    <1>14. CASE UpdatePending(h)
        <2>1. HostsTyped'
            BY <1>1, <1>14, AdvanceTyped DEF UpdatePending, Handles, Phases
        <2> QED
            BY <1>1, <1>13, <1>14, <2>1 DEF UpdatePending, Handles
    <1>15. CASE BeginRecording(h)
        <2>1. /\ host[h].message.work \in Pages /\ host[h].sheet \in Sheets
              /\ host[h].print \in Prints
            BY <1>1, <1>15 DEF BeginRecording, Handles, HostsTyped, HostRows
        <2>2. TxTyped'
            BY <1>1, <1>15, <2>1, LockTyped DEF BeginRecording, Actors
        <2> QED
            BY <1>1, <1>15, <2>2 DEF BeginRecording
    <1>16. CASE CommitPage(h)
        <2>1. HostsTyped'
            BY <1>1, <1>16, AdvanceTyped DEF CommitPage, Handles, Phases
        <2>2. RowsTyped' /\ TxTyped'
            BY <1>1, <1>16, CommitTyped DEF CommitPage, Actors
        <2> QED
            BY <1>1, <1>16, <2>1, <2>2 DEF CommitPage
    <1>17. CASE GiveUpOnPage(h)
        <2>1. HostsTyped'
            BY <1>1, <1>17, AdvanceTyped DEF GiveUpOnPage, Handles, Phases
        <2> QED
            BY <1>1, <1>13, <1>17, <2>1 DEF GiveUpOnPage
    <1>18. CASE Throw(h)
        <2>1. HostsTyped' /\ QueueTyped'
            BY <1>1, <1>18, ThrownTyped DEF Throw
        <2>2. TxTyped'
            BY <1>1, <1>18, EndTyped DEF Throw
        <2> QED
            BY <1>1, <1>18, <2>1, <2>2 DEF Throw
    <1> QED
        BY <1>2, <1>3, <1>4, <1>5, <1>6, <1>7, <1>8, <1>9, <1>10, <1>11, <1>12, <1>14,
           <1>15, <1>16, <1>17, <1>18 DEF HostStep

\* The steps of the queue.
LEMMA TypeQueueStep ==
    ASSUME ScanTypeOK, NEW m \in BagToSet(waiting),
           \/ LapseWaiting(m) \/ ExpireMessage(m)
           \/ \E h \in Hosts : TakeMessage(h, m)
    PROVE  ScanTypeOK'
    <1> USE TypeParts, Kept
    <1>1. RowsTyped /\ CountsTyped /\ QueueTyped /\ HostsTyped /\ DesksTyped /\ TxTyped
        OBVIOUS
    <1>2. m \in Deliveries /\ BagToSet(waiting (-) SetToBag({m})) \subseteq Deliveries
        BY <1>1, BagMinus DEF QueueTyped
    <1>3. CASE LapseWaiting(m)
        <2> DEFINE rest == (waiting (-) SetToBag({m})) (+) SetToBag({Delivery(m.work, m.try, FALSE)})
        <2>1. Delivery(m.work, m.try, FALSE) \in Deliveries
            BY <1>2 DEF Delivery, Deliveries
        <2>2. BagToSet(rest) \subseteq Deliveries
            BY <1>2, <2>1, BagPlus
        <2>3. waiting' = Requeued(m, rest) /\ dead' = DeadAfter(m)
            BY <1>3 DEF LapseWaiting
        <2>4. QueueTyped'
            <3> HIDE DEF rest
            <3> QED
                BY <1>1, <1>2, <2>2, <2>3, RequeuedTyped, DeadTyped DEF QueueTyped
        <2> QED
            BY <1>1, <1>3, <2>4 DEF LapseWaiting
    <1>4. CASE ExpireMessage(m)
        <2>1. QueueTyped'
            BY <1>1, <1>2, <1>4 DEF ExpireMessage, QueueTyped, Deliveries
        <2> QED
            BY <1>1, <1>4, <2>1 DEF ExpireMessage
    <1>5. ASSUME NEW h \in Hosts, TakeMessage(h, m) PROVE ScanTypeOK'
        <2> DEFINE row == [Idle EXCEPT !.phase = "loading", !.message = m]
        <2>1. row \in HostRows /\ row.message = m /\ row.phase = "loading"
            BY <1>2, IdleTyped DEF HostRows, Phases
        <2>2. host' = [host EXCEPT ![h] = row]
            BY <1>5 DEF TakeMessage
        <2>3. HostsTyped'
            <3> HIDE DEF row
            <3> QED
                BY <1>1, <1>2, <2>1, <2>2, HostMoves
        <2>4. QueueTyped'
            BY <1>1, <1>2, <1>5 DEF TakeMessage, QueueTyped
        <2> QED
            BY <1>1, <1>5, <2>3, <2>4 DEF TakeMessage
    <1> QED
        BY <1>3, <1>4, <1>5

\* What happens to a host between its own steps.
LEMMA TypeHostFault ==
    ASSUME ScanTypeOK, NEW h \in Hosts, LapseHandled(h) \/ StopHost(h)
    PROVE  ScanTypeOK'
    <1> USE TypeParts, Kept
    <1>1. RowsTyped /\ CountsTyped /\ QueueTyped /\ HostsTyped /\ DesksTyped /\ TxTyped
        OBVIOUS
    <1>2. host[h].phase # "idle" /\ host[h] \in HostRows /\ host[h].message \in Deliveries
        BY <1>1 DEF HostsTyped, LapseHandled, StopHost
    <1>3. QueueTyped'
        BY <1>1, <1>2, RequeuedTyped, DeadTyped DEF QueueTyped, LapseHandled, StopHost
    <1>4. CASE LapseHandled(h)
        <2> DEFINE late == [host[h].message EXCEPT !.held = FALSE]
                   row == [host[h] EXCEPT !.message = late]
        <2>1. late \in Deliveries
            BY <1>2 DEF Deliveries
        <2>2. row \in HostRows /\ row.message = late /\ row.phase = host[h].phase
              /\ row.sheet = host[h].sheet
            <3> HIDE DEF late
            <3> QED
                BY <1>2, <2>1 DEF HostRows
        <2>3. host' = [host EXCEPT ![h] = row]
            BY <1>4 DEF LapseHandled
        <2>4. HostsTyped'
            <3>1. host[h].phase = "identified" => host[h].sheet \in Sheets
                BY <1>1 DEF HostsTyped
            <3> HIDE DEF row
            <3> QED
                BY <1>1, <2>1, <2>2, <2>3, <3>1, HostMoves
        <2> QED
            BY <1>1, <1>3, <1>4, <2>4 DEF LapseHandled
    <1>5. CASE StopHost(h)
        <2>1. HostsTyped' /\ TxTyped'
            BY <1>1, <1>5, ReleaseTyped, EndTyped DEF StopHost
        <2> QED
            BY <1>1, <1>3, <1>5, <2>1 DEF StopHost
    <1> QED
        BY <1>4, <1>5

\* The requests.
LEMMA TypeRequest ==
    ASSUME ScanTypeOK,
           \/ \E u \in Uploads : \/ CreateUpload(u)
                                 \/ \E published \in BOOLEAN : SubmitUpload(u, published)
           \/ \E s \in Sheets : PrintSheet(s)
    PROVE  ScanTypeOK'
    <1> USE TypeParts, Kept
    <1>1. RowsTyped /\ CountsTyped /\ QueueTyped /\ HostsTyped /\ DesksTyped /\ TxTyped
        OBVIOUS
    <1>2. ASSUME NEW u \in Uploads, CreateUpload(u) PROVE ScanTypeOK'
        <2>1. RowsTyped'
            BY <1>1, <1>2, UploadMoves DEF CreateUpload, UploadStates
        <2> QED
            BY <1>1, <1>2, <2>1 DEF CreateUpload
    <1>3. ASSUME NEW u \in Uploads, NEW published \in BOOLEAN, SubmitUpload(u, published)
          PROVE  ScanTypeOK'
        <2>1. RowsTyped'
            BY <1>1, <1>3, UploadMoves DEF SubmitUpload, UploadStates
        <2>2. CountsTyped'
            BY <1>1, <1>3, ScanAssumption DEF SubmitUpload, CountsTyped
        <2>3. Delivery(u, 1, TRUE) \in Deliveries
            BY ScanAssumption DEF Delivery, Deliveries, Work
        <2>4. QueueTyped'
            BY <1>1, <1>3, <2>3, BagPlus DEF SubmitUpload, QueueTyped
        <2> QED
            BY <1>1, <1>3, <2>1, <2>2, <2>4 DEF SubmitUpload
    <1>4. ASSUME NEW s \in Sheets, PrintSheet(s) PROVE ScanTypeOK'
        <2>1. CountsTyped'
            BY <1>1, <1>4, ScanAssumption DEF PrintSheet, CountsTyped, Prints
        <2> QED
            BY <1>1, <1>4, <2>1 DEF PrintSheet
    <1> QED
        BY <1>2, <1>3, <1>4

\* The steps of a person.
LEMMA TypeDeskStep ==
    ASSUME ScanTypeOK, NEW d \in Desks, DeskStep(d)
    PROVE  ScanTypeOK'
    <1> USE TypeParts, Kept
    <1>1. RowsTyped /\ CountsTyped /\ QueueTyped /\ HostsTyped /\ DesksTyped /\ TxTyped
        OBVIOUS
    <1>2. Away \in DeskRows /\ Away.phase = "away"
        BY ScanAssumption DEF Away, DeskRows, Prints
    <1>3. desk' = [desk EXCEPT ![d] = Away] => DesksTyped'
        BY <1>1, <1>2 DEF DesksTyped
    <1>4. ASSUME NEW p \in Pages, NEW s \in Sheets \cup {NoSheet}, TakePage(d, p, s)
          PROVE  ScanTypeOK'
        <2> DEFINE print == IF s # NoSheet /\ printed[s] = 1 THEN 1 ELSE 0
                   row == [phase |-> "assigning", page |-> p, sheet |-> s, print |-> print]
        <2>1. print \in Prints
            <3>1. CASE s # NoSheet /\ printed[s] = 1
                <4>1. printed[s] \in Prints
                    BY <1>1, <3>1 DEF CountsTyped
                <4> QED
                    BY <3>1, <4>1
            <3>2. CASE ~(s # NoSheet /\ printed[s] = 1)
                BY <3>2, ScanAssumption DEF Prints
            <3> QED
                BY <3>1, <3>2
        <2>2. row \in DeskRows /\ row.page = p
            <3> HIDE DEF print
            <3> QED
                BY <2>1 DEF DeskRows
        <2>3. desk' = [desk EXCEPT ![d] = row]
            BY <1>4 DEF TakePage
        <2>4. DesksTyped'
            <3> HIDE DEF row
            <3> QED
                BY <1>1, <2>2, <2>3 DEF DesksTyped
        <2> QED
            BY <1>1, <1>4, <2>4 DEF TakePage
    <1>5. ASSUME NEW as \in {"ignored", "blank"}, DismissPage(d, as) PROVE ScanTypeOK'
        <2>1. Unnamed(as, TRUE) \in PageRows /\ Unnamed(as, TRUE).state = as
            BY UnnamedTyped DEF PageStates, Unnamed
        <2>2. {desk[d].page} \in SUBSET Pages
            BY <1>1, <1>5 DEF DismissPage, DesksTyped
        <2>3. vacated' \subseteq Sheets
            BY <1>1, <1>5, <2>2, LeftTyped DEF DismissPage, RowsTyped
        <2>4. RowsTyped'
            BY <1>1, <1>5, <2>1, <2>3, PageMoves DEF DismissPage
        <2> QED
            BY <1>1, <1>3, <1>5, <2>4 DEF DismissPage
    <1>6. CASE BeginAssigning(d)
        <2>1. desk[d].page \in Pages /\ desk[d].sheet \in Sheets /\ desk[d].print \in Prints
            BY <1>1, <1>6 DEF BeginAssigning, DesksTyped, DeskRows
        <2>2. TxTyped'
            BY <1>1, <1>6, <2>1, LockTyped DEF BeginAssigning, Actors
        <2> QED
            BY <1>1, <1>6, <2>2 DEF BeginAssigning
    <1>7. CASE CommitAssignment(d)
        <2>1. RowsTyped' /\ TxTyped'
            BY <1>1, <1>7, CommitTyped DEF CommitAssignment, Actors
        <2> QED
            BY <1>1, <1>3, <1>7, <2>1 DEF CommitAssignment
    <1>8. CASE LeaveDesk(d)
        <2>1. TxTyped'
            BY <1>1, <1>8, EndTyped DEF LeaveDesk
        <2> QED
            BY <1>1, <1>3, <1>8, <2>1 DEF LeaveDesk
    <1> QED
        BY <1>4, <1>5, <1>6, <1>7, <1>8 DEF DeskStep

LEMMA TypeStep == ScanTypeOK /\ [ScanNext]_scanVars => ScanTypeOK'
    <1> SUFFICES ASSUME ScanTypeOK, [ScanNext]_scanVars PROVE ScanTypeOK'
        OBVIOUS
    <1>1. CASE UNCHANGED scanVars
        BY <1>1, TypeParts, Kept DEF scanVars
    <1>2. CASE ScanNext
        BY <1>2, TypeRequest, TypeQueueStep, TypeHostStep, TypeHostFault, TypeDeskStep
           DEF ScanNext
    <1> QED
        BY <1>1, <1>2

\* Every column, message and local variable of the scans keeps its type, a
\* matched page always has a sheet, and a transaction is about one.
THEOREM ScanTypeCorrect == ScanSpec => []ScanTypeOK
    <1>1. ScanInit => ScanTypeOK
        BY TypeInit
    <1>2. ScanTypeOK /\ [ScanNext]_scanVars => ScanTypeOK'
        BY TypeStep
    <1> QED
        BY <1>1, <1>2, PTL DEF ScanSpec

-----------------------------------------------------------------------------
(* A sheet has at most one page.  The lock keeps two transactions off the   *)
(* same sheet, and while one runs, the sheet gets no page it has not read.  *)

Exclusive ==
    \A x, y \in Actors :
        tx[x].sheet = tx[y].sheet /\ tx[x].sheet \in Sheets => x = y

Covered ==
    \A x \in Actors, q \in Pages :
        /\ tx[x].sheet \in Sheets /\ tx[x].state = "matched"
        /\ q # tx[x].on /\ page[q].state = "matched" /\ page[q].sheet = tx[x].sheet
        => q \in tx[x].supersede

ScanInv == ScanTypeOK /\ OneScanPerSheet /\ Exclusive /\ Covered

\* No page becomes a sheet's, and no transaction begins.
LEMMA Quiet ==
    ASSUME ScanTypeOK, OneScanPerSheet, Exclusive, Covered,
           \A p \in Pages : page'[p].state = "matched" =>
               page[p].state = "matched" /\ page'[p].sheet = page[p].sheet,
           \A x \in Actors : tx'[x] = tx[x] \/ tx'[x] = NoTx
    PROVE  OneScanPerSheet' /\ Exclusive' /\ Covered'
    <1>1. NoTx.sheet \notin Sheets
        BY ScanAssumption DEF NoTx
    <1>2. OneScanPerSheet'
        BY DEF OneScanPerSheet
    <1>3. Exclusive'
        BY <1>1 DEF Exclusive
    <1>4. Covered'
        BY <1>1 DEF Covered
    <1> QED
        BY <1>2, <1>3, <1>4

\* A transaction begins: the lock was free, and what is read is what is there.
LEMMA Locking ==
    ASSUME ScanTypeOK, OneScanPerSheet, Exclusive, Covered, page' = page,
           NEW x \in Actors, NEW p \in Pages, NEW s \in Sheets, NEW print,
           LockSheet(x, p, s, print)
    PROVE  OneScanPerSheet' /\ Exclusive' /\ Covered'
    <1> DEFINE others == OtherScans(p, s)
               state == DuplicateOutcome(others, print)
               row == [on |-> p, sheet |-> s, print |-> print, state |-> state,
                       supersede |-> IF state = "matched" THEN others ELSE {}]
    <1>1. /\ tx'[x] = row
          /\ \A y \in Actors \ {x} : tx'[y] = tx[y]
          /\ \A y \in Actors : tx[y].sheet # s
        BY DEF LockSheet, SheetFree, ScanTypeOK
    <1>2. row.on = p /\ row.sheet = s /\ (row.state = "matched" => row.supersede = others)
        <2> HIDE DEF state
        <2> QED
            OBVIOUS
    <1>3. OneScanPerSheet'
        BY DEF OneScanPerSheet
    <1> HIDE DEF row
    <1>4. Exclusive'
        BY <1>1, <1>2 DEF Exclusive
    <1>5. Covered'
        BY <1>1, <1>2 DEF Covered, OtherScans
    <1> QED
        BY <1>3, <1>4, <1>5

\* A transaction commits: the page takes the sheet from all that have it, and
\* those that stay matched elsewhere are no concern of other transactions.
LEMMA Committing ==
    ASSUME ScanTypeOK, OneScanPerSheet, Exclusive, Covered,
           NEW x \in Actors, CommitSheet(x)
    PROVE  OneScanPerSheet' /\ Exclusive' /\ Covered'
    <1> DEFINE on == tx[x].on  sheet == tx[x].sheet
    <1>1. tx[x] \in TxRows /\ on \in Pages /\ sheet \in Sheets
        BY DEF CommitSheet, ScanTypeOK, TxRows
    <1>2. tx'[x] = NoTx /\ \A y \in Actors \ {x} : tx'[y] = tx[y]
        BY DEF CommitSheet, ScanTypeOK
    <1>3. NoTx.sheet \notin Sheets
        BY ScanAssumption DEF NoTx
    <1>4. ASSUME NEW p \in Pages, p # on, page'[p].state = "matched"
          PROVE  page'[p] = page[p] /\ p \notin tx[x].supersede
        <2>1. p \in tx[x].supersede /\ page[p].state = "matched" => page'[p].state = "superseded"
            BY <1>4 DEF CommitSheet, ScanTypeOK, PageRows
        <2> QED
            BY <1>4, <2>1 DEF CommitSheet
    <1>5. ASSUME page'[on].state = "matched", page'[on] # page[on]
          PROVE  page'[on].sheet = sheet /\ tx[x].state = "matched"
        BY <1>1, <1>5 DEF CommitSheet, Named
    <1>6. OneScanPerSheet'
        <2>1. ASSUME NEW q \in Pages, q # on, page'[q].state = "matched",
                     page'[on].state = "matched", page'[on].sheet = page'[q].sheet
              PROVE  FALSE
            <3>1. page'[q] = page[q] /\ q \notin tx[x].supersede
                BY <1>4, <2>1
            <3>2. CASE page'[on] = page[on]
                BY <1>1, <2>1, <3>1, <3>2 DEF OneScanPerSheet
            <3>3. CASE page'[on] # page[on]
                BY <1>1, <1>5, <2>1, <3>1, <3>3 DEF Covered
            <3> QED
                BY <3>2, <3>3
        <2>2. ASSUME NEW p \in Pages, NEW q \in Pages, p # on, q # on,
                     page'[p].state = "matched", page'[q].state = "matched",
                     page'[p].sheet = page'[q].sheet
              PROVE  p = q
            BY <1>4, <2>2 DEF OneScanPerSheet
        <2> QED
            BY <2>1, <2>2 DEF OneScanPerSheet
    <1>7. Exclusive'
        BY <1>2, <1>3 DEF Exclusive
    <1>8. Covered'
        <2> SUFFICES ASSUME NEW y \in Actors, NEW q \in Pages,
                            tx'[y].sheet \in Sheets, tx'[y].state = "matched", q # tx'[y].on,
                            page'[q].state = "matched", page'[q].sheet = tx'[y].sheet
                     PROVE  q \in tx'[y].supersede
            BY DEF Covered
        <2>1. y # x /\ tx'[y] = tx[y]
            BY <1>2, <1>3
        <2>2. tx[y].sheet # sheet
            BY <1>1, <2>1 DEF Exclusive
        <2>3. page'[q] = page[q]
            BY <1>4, <1>5, <2>1, <2>2
        <2> QED
            BY <2>1, <2>3 DEF Covered
    <1> QED
        BY <1>6, <1>7, <1>8

-----------------------------------------------------------------------------
LEMMA ScanInvInit == ScanInit => ScanInv
    <1> SUFFICES ASSUME ScanInit PROVE ScanInv
        OBVIOUS
    <1>1. \A x \in Actors : tx[x].sheet \notin Sheets
        BY ScanAssumption DEF ScanInit, NoTx
    <1>2. \A p \in Pages : page[p].state = "none"
        BY DEF ScanInit, Unnamed
    <1> QED
        BY <1>1, <1>2, TypeInit DEF ScanInv, OneScanPerSheet, Exclusive, Covered

LEMMA ScanInvStep == ScanInv /\ [ScanNext]_scanVars => ScanInv'
    <1> SUFFICES ASSUME ScanInv, [ScanNext]_scanVars PROVE ScanInv'
        OBVIOUS
    <1> DEFINE Goal == OneScanPerSheet' /\ Exclusive' /\ Covered'
    <1>1. ScanTypeOK /\ OneScanPerSheet /\ Exclusive /\ Covered
        BY DEF ScanInv
    <1>2. ScanTypeOK'
        BY <1>1, TypeStep
    <1>3. ASSUME page' = page, tx' = tx PROVE Goal
        BY <1>1, <1>3, Quiet
    <1>4. ASSUME page' = page, NEW x \in Actors, tx' = [tx EXCEPT ![x] = NoTx] PROVE Goal
        BY <1>1, <1>4, Quiet DEF ScanTypeOK
    <1>5. ASSUME NEW p \in Pages, NEW state \in PageStates \ {"matched"},
                 NEW person \in BOOLEAN,
                 page' = [page EXCEPT ![p] = Unnamed(state, person)] \/ page' = page,
                 tx' = tx
          PROVE  Goal
        <2>1. \A q \in Pages : page'[q].state = "matched" => page'[q] = page[q]
            BY <1>1, <1>5 DEF ScanTypeOK, Unnamed
        <2> QED
            BY <1>1, <1>5, <2>1, Quiet
    <1>6. ASSUME UNCHANGED scanVars PROVE Goal
        BY <1>3, <1>6 DEF scanVars, scanRows
    <1>7. ASSUME NEW u \in Uploads, CreateUpload(u) PROVE Goal
        BY <1>3, <1>7 DEF CreateUpload
    <1>8. ASSUME NEW u \in Uploads, NEW published \in BOOLEAN, SubmitUpload(u, published)
          PROVE  Goal
        BY <1>3, <1>8 DEF SubmitUpload
    <1>9. ASSUME NEW s \in Sheets, PrintSheet(s) PROVE Goal
        BY <1>3, <1>9 DEF PrintSheet, scanRows
    <1>10. ASSUME NEW m \in BagToSet(waiting), LapseWaiting(m) \/ ExpireMessage(m)
           PROVE  Goal
        BY <1>3, <1>10 DEF LapseWaiting, ExpireMessage, scanRows
    <1>11. ASSUME NEW m \in BagToSet(waiting), NEW h \in Hosts, TakeMessage(h, m)
           PROVE  Goal
        BY <1>3, <1>11 DEF TakeMessage, scanRows
    <1>12. ASSUME NEW h \in Hosts, HostStep(h) PROVE Goal
        <2>1. CASE NoRow
            BY <1>3, <2>1 DEF NoRow, scanRows
        <2>2. CASE MarkSplitting(h) \/ FailUpload(h) \/ FinishUpload(h)
            BY <1>3, <2>2 DEF MarkSplitting, FailUpload, FinishUpload
        <2>3. CASE WritePages(h)
            <3>1. tx' = tx /\ \A p \in Pages : page'[p].state = "matched" => page'[p] = page[p]
                BY <2>3 DEF WritePages, Unnamed
            <3> QED
                BY <1>1, <3>1, Quiet
        <2>4. ASSUME NEW p \in Pages, QueuePage(h, p) PROVE Goal
            BY <1>3, <2>4 DEF QueuePage, scanRows
        <2>5. CASE UpdatePending(h)
            BY <1>5, <2>5 DEF UpdatePending, SetAside, Handles, PageStates
        <2>6. CASE BeginRecording(h)
            <3>1. /\ host[h].message.work \in Pages /\ host[h].sheet \in Sheets
                  /\ LockSheet(h, host[h].message.work, host[h].sheet, host[h].print)
                  /\ page' = page
                BY <1>1, <2>6 DEF BeginRecording, Handles, ScanTypeOK, scanRows
            <3> QED
                BY <1>1, <3>1, Locking DEF Actors
        <2>7. CASE CommitPage(h)
            BY <1>1, <2>7, Committing DEF CommitPage, Actors
        <2>8. CASE GiveUpOnPage(h)
            <3>1. /\ host[h].message.work \in Pages /\ "unreadable" \in PageStates \ {"matched"}
                  /\ SetAside(host[h].message.work, "unreadable") /\ tx' = tx
                BY <2>8 DEF GiveUpOnPage, Handles, PageStates
            <3> QED
                BY <1>5, <3>1 DEF SetAside
        <2>9. CASE Throw(h)
            BY <1>4, <2>9 DEF Throw, Actors, scanRows
        <2> QED
            BY <1>12, <2>1, <2>2, <2>3, <2>4, <2>5, <2>6, <2>7, <2>8, <2>9
               DEF HostStep, LoadUpload, ReadOriginal, QueueingDone, LoadPage, AnalysePage,
                   FindNoSheet
    <1>13. ASSUME NEW h \in Hosts, LapseHandled(h) PROVE Goal
        BY <1>3, <1>13 DEF LapseHandled, scanRows
    <1>14. ASSUME NEW h \in Hosts, StopHost(h) PROVE Goal
        BY <1>4, <1>14 DEF StopHost, Actors, scanRows
    <1>15. ASSUME NEW d \in Desks, DeskStep(d) PROVE Goal
        <2>1. ASSUME NEW p \in Pages, NEW s \in Sheets \cup {NoSheet}, TakePage(d, p, s)
              PROVE  Goal
            BY <1>3, <2>1 DEF TakePage, scanRows
        <2>2. ASSUME NEW as \in {"ignored", "blank"}, DismissPage(d, as) PROVE Goal
            <3>1. desk[d].page \in Pages
                BY <1>1, <2>2 DEF DismissPage, ScanTypeOK
            <3> QED
                BY <1>5, <2>2, <3>1 DEF DismissPage, PageStates
        <2>3. CASE BeginAssigning(d)
            <3>1. /\ desk[d].page \in Pages /\ desk[d].sheet \in Sheets
                  /\ LockSheet(d, desk[d].page, desk[d].sheet, desk[d].print)
                  /\ page' = page
                BY <1>1, <2>3 DEF BeginAssigning, ScanTypeOK, DeskRows, scanRows
            <3> QED
                BY <1>1, <3>1, Locking DEF Actors
        <2>4. CASE CommitAssignment(d)
            BY <1>1, <2>4, Committing DEF CommitAssignment, Actors
        <2>5. CASE LeaveDesk(d)
            BY <1>4, <2>5 DEF LeaveDesk, Actors, scanRows
        <2> QED
            BY <1>15, <2>1, <2>2, <2>3, <2>4, <2>5 DEF DeskStep
    <1>16. Goal
        <2> HIDE DEF Goal
        <2> QED
            BY <1>6, <1>7, <1>8, <1>9, <1>10, <1>11, <1>12, <1>13, <1>14, <1>15 DEF ScanNext
    <1> QED
        BY <1>2, <1>16 DEF ScanInv

\* Whatever is uploaded, printed, redelivered, abandoned or assigned at once,
\* no sheet ever has two pages.
THEOREM ScansAreExclusive == ScanSpec => []OneScanPerSheet
    <1>1. ScanInit => ScanInv
        BY ScanInvInit
    <1>2. ScanInv /\ [ScanNext]_scanVars => ScanInv'
        BY ScanInvStep
    <1>3. ScanInv => OneScanPerSheet
        BY DEF ScanInv
    <1> QED
        BY <1>1, <1>2, <1>3, PTL DEF ScanSpec

-----------------------------------------------------------------------------
(* A copy is set aside for another one.  This holds of one host, which is   *)
(* what the worker is deployed as: a second one that gives a page up while  *)
(* the first records it leaves the page that was superseded for it with no  *)
(* other to stand for the sheet.                                            *)

\* A person's word knows no run but the first, and a page that was superseded
\* has a run that is known.
NamesOK ==
    \A p \in Pages :
        /\ page[p].state \in {"none", "pending"} => ~page[p].person
        /\ page[p].state = "matched" /\ page[p].person => page[p].print <= 1
        /\ page[p].state = "superseded" /\ page[p].sheet \notin vacated => page[p].print # 0

\* A person has a page that the worker leaves alone.
DesksOK ==
    \A d \in Desks :
        /\ desk[d].phase = "assigning" =>
              /\ page[desk[d].page].state = "unreadable" \/ page[desk[d].page].person
              /\ desk[d].print <= 1
        /\ tx[d] # NoTx =>
              /\ desk[d].phase = "assigning"
              /\ tx[d].on = desk[d].page /\ tx[d].sheet = desk[d].sheet
              /\ tx[d].print = desk[d].print

\* The worker has a page that is pending until it has settled it.
HostsOK ==
    \A h \in Hosts :
        /\ host[h].phase \in {"analysing", "identified"} =>
              /\ host[h].message.work \in Pages
              /\ page[host[h].message.work].state = "pending"
        /\ tx[h] # NoTx => host[h].phase = "identified" /\ tx[h].on = host[h].message.work

\* What a transaction found is still so.
FoundOK ==
    \A x \in Actors : tx[x] # NoTx =>
        /\ tx[x].on \notin tx[x].supersede
        /\ tx[x].state = "matched" =>
              \A q \in Pages \ {tx[x].on} :
                  page[q].state = "matched" /\ page[q].sheet = tx[x].sheet =>
                      page[q].print # 0 /\ page[q].print < tx[x].print
        /\ tx[x].state # "matched" =>
              /\ tx[x].supersede = {}
              /\ ~(page[tx[x].on].state = "matched" /\ page[tx[x].on].sheet = tx[x].sheet)
              /\ tx[x].sheet \notin vacated =>
                    \E q \in Pages :
                        /\ page[q].state = "matched" /\ page[q].sheet = tx[x].sheet
                        /\ tx[x].state = "superseded" => page[q].print > tx[x].print
        /\ tx[x].state = "superseded" => tx[x].print # 0

OneHost == \A g, h \in Hosts : g = h

Yielding == NamesOK /\ DesksOK /\ HostsOK /\ FoundOK /\ SetAsideForAnother
YieldInv == ScanInv /\ Yielding

LEMMA NoTxIsNone == NoTx \notin TxRows /\ NoTx.sheet \notin Sheets
    BY ScanAssumption DEF NoTx, TxRows

LEMMA TxIsTyped ==
    ASSUME ScanTypeOK, NEW x \in Actors, tx[x] # NoTx
    PROVE  tx[x] \in TxRows /\ tx[x].on \in Pages /\ tx[x].sheet \in Sheets
           /\ tx[x].print \in Prints /\ tx[x].supersede \subseteq Pages
    BY DEF ScanTypeOK, TxRows

LEMMA PrintsAreNumbers == Prints \subseteq Nat
    BY ScanAssumption DEF Prints

\* Pages only leave their sheets, and the sheets they leave are recorded.
PagesLeave ==
    /\ vacated \subseteq vacated'
    /\ \A p \in Pages :
          \/ page'[p] = page[p]
          \/ /\ page'[p].state \notin {"matched", "duplicate", "superseded"}
             /\ page[p].state = "matched" => page[p].sheet \in vacated'
             /\ page'[p].state \in {"none", "pending"} => ~page'[p].person

\* No transaction begins.
TxEnd == \A x \in Actors : tx'[x] = tx[x] \/ tx'[x] = NoTx

LEMMA Leaving ==
    ASSUME ScanTypeOK, NamesOK, FoundOK, SetAsideForAnother, PagesLeave, TxEnd
    PROVE  NamesOK' /\ FoundOK' /\ SetAsideForAnother'
    <1>1. NamesOK'
        BY DEF NamesOK, PagesLeave
    <1>2. ASSUME NEW p \in Pages, page[p].state = "matched", page[p].sheet \notin vacated'
          PROVE  page'[p] = page[p]
        BY <1>2 DEF PagesLeave
    <1>3. SetAsideForAnother'
        <2> SUFFICES ASSUME NEW p \in Pages, page'[p].state \in {"duplicate", "superseded"},
                            page'[p].sheet \notin vacated'
                     PROVE  \E q \in Pages :
                                /\ page'[q].state = "matched" /\ page'[q].sheet = page'[p].sheet
                                /\ page'[p].state = "superseded" => page'[q].print > page'[p].print
            BY DEF SetAsideForAnother
        <2>1. page'[p] = page[p] /\ page[p].sheet \notin vacated
            BY DEF PagesLeave
        <2>2. PICK q \in Pages : /\ page[q].state = "matched" /\ page[q].sheet = page[p].sheet
                                 /\ page[p].state = "superseded" => page[q].print > page[p].print
            BY <2>1 DEF SetAsideForAnother
        <2>3. page'[q] = page[q]
            BY <1>2, <2>1, <2>2
        <2> QED
            BY <2>1, <2>2, <2>3
    <1>4. FoundOK'
        <2> SUFFICES ASSUME NEW x \in Actors, tx'[x] # NoTx
                     PROVE  /\ tx'[x].on \notin tx'[x].supersede
                            /\ tx'[x].state = "matched" =>
                                  \A q \in Pages \ {tx'[x].on} :
                                      page'[q].state = "matched" /\ page'[q].sheet = tx'[x].sheet =>
                                          page'[q].print # 0 /\ page'[q].print < tx'[x].print
                            /\ tx'[x].state # "matched" =>
                                  /\ tx'[x].supersede = {}
                                  /\ ~(page'[tx'[x].on].state = "matched"
                                       /\ page'[tx'[x].on].sheet = tx'[x].sheet)
                                  /\ tx'[x].sheet \notin vacated' =>
                                        \E q \in Pages :
                                            /\ page'[q].state = "matched"
                                            /\ page'[q].sheet = tx'[x].sheet
                                            /\ tx'[x].state = "superseded" =>
                                                  page'[q].print > tx'[x].print
                            /\ tx'[x].state = "superseded" => tx'[x].print # 0
            BY DEF FoundOK
        <2>1. tx'[x] = tx[x] /\ tx[x] # NoTx /\ tx[x].on \in Pages
            BY TxIsTyped DEF TxEnd
        <2>2. \A q \in Pages : page'[q].state = "matched" => page'[q] = page[q]
            BY DEF PagesLeave
        <2>3. ASSUME tx[x].state # "matched", tx[x].sheet \notin vacated'
              PROVE  \E q \in Pages :
                         /\ page'[q].state = "matched" /\ page'[q].sheet = tx[x].sheet
                         /\ tx[x].state = "superseded" => page'[q].print > tx[x].print
            <3>1. tx[x].sheet \notin vacated
                BY <2>3 DEF PagesLeave
            <3>2. PICK q \in Pages : /\ page[q].state = "matched" /\ page[q].sheet = tx[x].sheet
                                     /\ tx[x].state = "superseded" => page[q].print > tx[x].print
                BY <2>1, <2>3, <3>1 DEF FoundOK
            <3>3. page'[q] = page[q]
                BY <1>2, <2>3, <3>2
            <3> QED
                BY <3>2, <3>3
        <2>4. \A q \in Pages \ {tx[x].on} :
                  tx[x].state = "matched" /\ page'[q].state = "matched"
                  /\ page'[q].sheet = tx[x].sheet =>
                      page'[q].print # 0 /\ page'[q].print < tx[x].print
            BY <2>1, <2>2 DEF FoundOK
        <2>5. tx[x].state # "matched" =>
                  /\ tx[x].supersede = {}
                  /\ ~(page'[tx[x].on].state = "matched" /\ page'[tx[x].on].sheet = tx[x].sheet)
            BY <2>1, <2>2 DEF FoundOK
        <2>6. tx[x].on \notin tx[x].supersede /\ (tx[x].state = "superseded" => tx[x].print # 0)
            BY <2>1 DEF FoundOK
        <2> QED
            BY <2>1, <2>3, <2>4, <2>5, <2>6
    <1> QED
        BY <1>1, <1>3, <1>4

\* A page that is pending stays so.
PendingStays == \A p \in Pages : page[p].state = "pending" => page'[p].state = "pending"

LEMMA HostsLeft ==
    ASSUME ScanTypeOK, HostsOK, PendingStays, TxEnd, UNCHANGED host
    PROVE  HostsOK'
    BY DEF HostsOK, PendingStays, TxEnd, Actors

\* The pages people have at their desks are left alone by the worker.
DesksPagesStay ==
    \A p \in Pages :
        page[p].state = "unreadable" \/ page[p].person =>
            page'[p] = page[p] \/ page'[p].person

LEMMA DesksLeft ==
    ASSUME ScanTypeOK, DesksOK, DesksPagesStay, TxEnd,
           \A d \in Desks : desk'[d] = desk[d] \/ (desk'[d] = Away /\ tx'[d] = NoTx)
    PROVE  DesksOK'
    <1> SUFFICES ASSUME NEW d \in Desks
                 PROVE  /\ desk'[d].phase = "assigning" =>
                              /\ \/ page'[desk'[d].page].state = "unreadable"
                                 \/ page'[desk'[d].page].person
                              /\ desk'[d].print <= 1
                        /\ tx'[d] # NoTx =>
                              /\ desk'[d].phase = "assigning"
                              /\ tx'[d].on = desk'[d].page /\ tx'[d].sheet = desk'[d].sheet
                              /\ tx'[d].print = desk'[d].print
        BY DEF DesksOK
    <1>1. CASE desk'[d] = desk[d]
        <2>1. desk[d].phase = "assigning" => desk[d].page \in Pages
            BY DEF ScanTypeOK
        <2>2. desk[d].phase = "assigning" =>
                  /\ page'[desk[d].page].state = "unreadable" \/ page'[desk[d].page].person
                  /\ desk[d].print <= 1
            BY <2>1 DEF DesksOK, DesksPagesStay
        <2>3. tx'[d] # NoTx => tx'[d] = tx[d] /\ tx[d] # NoTx
            BY DEF TxEnd, Actors
        <2> QED
            BY <1>1, <2>2, <2>3 DEF DesksOK
    <1>2. CASE desk'[d] = Away /\ tx'[d] = NoTx
        BY <1>2 DEF Away
    <1> QED
        BY <1>1, <1>2

LEMMA Outcome ==
    ASSUME NEW others, NEW print
    PROVE  /\ DuplicateOutcome(others, print) \in {"matched", "duplicate", "superseded"}
           /\ DuplicateOutcome(others, print) = "matched" =>
                 \A q \in others : page[q].print # 0 /\ page[q].print < print
           /\ DuplicateOutcome(others, print) # "matched" => others # {}
           /\ DuplicateOutcome(others, print) = "superseded" =>
                 print # 0 /\ \E q \in others : page[q].print > print
    BY DEF DuplicateOutcome

\* What a transaction finds is so, and what the others found is left alone.
LEMMA Finding ==
    ASSUME ScanTypeOK, OneScanPerSheet, FoundOK, UNCHANGED <<page, vacated>>,
           NEW x \in Actors, NEW p \in Pages, NEW s \in Sheets, NEW print \in Prints,
           LockSheet(x, p, s, print)
    PROVE  FoundOK'
    <1> DEFINE others == OtherScans(p, s)
               state == DuplicateOutcome(others, print)
               row == [on |-> p, sheet |-> s, print |-> print, state |-> state,
                       supersede |-> IF state = "matched" THEN others ELSE {}]
    <1>1. /\ tx'[x] = row
          /\ \A y \in Actors \ {x} : tx'[y] = tx[y]
        BY DEF LockSheet, ScanTypeOK
    <1>2. /\ \A q \in others : q \in Pages /\ q # p /\ page[q].state = "matched"
                               /\ page[q].sheet = s
          /\ \A q \in Pages \ {p} : page[q].state = "matched" /\ page[q].sheet = s => q \in others
        BY DEF OtherScans
    <1>3. /\ state = "matched" =>
                \A q \in others : page[q].print # 0 /\ page[q].print < print
          /\ state # "matched" => others # {}
          /\ state = "superseded" => print # 0 /\ \E q \in others : page[q].print > print
        BY Outcome
    <1> HIDE DEF others, state
    <1>4. /\ row.on = p /\ row.sheet = s /\ row.print = print /\ row.state = state
          /\ state = "matched" => row.supersede = others
          /\ state # "matched" => row.supersede = {}
        OBVIOUS
    <1> HIDE DEF row
    <1>5. p \notin row.supersede
        BY <1>2, <1>4
    <1>6. ASSUME state = "matched", NEW q \in Pages \ {p}, page[q].state = "matched",
                 page[q].sheet = s
          PROVE  page[q].print # 0 /\ page[q].print < print
        BY <1>2, <1>3, <1>6
    <1>7. ASSUME state # "matched"
          PROVE  /\ ~(page[p].state = "matched" /\ page[p].sheet = s)
                 /\ \E q \in Pages : /\ page[q].state = "matched" /\ page[q].sheet = s
                                     /\ state = "superseded" => page[q].print > print
        <2>1. PICK q \in others : state = "superseded" => page[q].print > print
            BY <1>3, <1>7
        <2>2. q \in Pages /\ q # p /\ page[q].state = "matched" /\ page[q].sheet = s
            BY <1>2, <2>1
        <2> QED
            BY <2>1, <2>2 DEF OneScanPerSheet
    <1>8. ASSUME NEW y \in Actors, tx'[y] # NoTx
          PROVE  /\ tx'[y].on \notin tx'[y].supersede
                 /\ tx'[y].state = "matched" =>
                       \A q \in Pages \ {tx'[y].on} :
                           page[q].state = "matched" /\ page[q].sheet = tx'[y].sheet =>
                               page[q].print # 0 /\ page[q].print < tx'[y].print
                 /\ tx'[y].state # "matched" =>
                       /\ tx'[y].supersede = {}
                       /\ ~(page[tx'[y].on].state = "matched"
                            /\ page[tx'[y].on].sheet = tx'[y].sheet)
                       /\ tx'[y].sheet \notin vacated =>
                             \E q \in Pages :
                                 /\ page[q].state = "matched" /\ page[q].sheet = tx'[y].sheet
                                 /\ tx'[y].state = "superseded" => page[q].print > tx'[y].print
                 /\ tx'[y].state = "superseded" => tx'[y].print # 0
        <2>1. CASE y = x
            BY <1>1, <1>3, <1>4, <1>5, <1>6, <1>7, <2>1
        <2>2. CASE y # x
            <3>1. tx'[y] = tx[y] /\ tx[y] # NoTx
                BY <1>1, <1>8, <2>2
            <3> QED
                BY <3>1 DEF FoundOK
        <2> QED
            BY <2>1, <2>2
    <1> QED
        BY <1>8 DEF FoundOK

\* A transaction of this actor commits: its page is named, what it supersedes is
\* set aside, and everything else stays as it is.
LEMMA Committed ==
    ASSUME ScanTypeOK, DesksOK, HostsOK, FoundOK, NEW x \in Actors, CommitSheet(x)
    PROVE  /\ tx[x] \in TxRows /\ tx[x].on \in Pages /\ tx[x].sheet \in Sheets
           /\ tx[x].supersede \subseteq Pages \ {tx[x].on}
           /\ page'[tx[x].on] = [state |-> tx[x].state, sheet |-> tx[x].sheet,
                                 print |-> tx[x].print, person |-> x \in Desks]
           /\ \A q \in Pages \ {tx[x].on} :
                 \/ page'[q] = page[q]
                 \/ /\ q \in tx[x].supersede /\ page[q].state = "matched"
                    /\ page'[q] = [page[q] EXCEPT !.state = "superseded"]
           /\ \A q \in Pages \ {tx[x].on} :
                 q \in tx[x].supersede /\ page[q].state = "matched" =>
                    page'[q] = [page[q] EXCEPT !.state = "superseded"]
           /\ vacated \subseteq vacated'
           /\ \A q \in tx[x].supersede \cup {tx[x].on} :
                 page[q].state = "matched" /\ page[q].sheet # tx[x].sheet =>
                    page[q].sheet \in vacated'
    <1>1. tx[x] # NoTx
        BY DEF CommitSheet
    <1>2. tx[x] \in TxRows /\ tx[x].on \in Pages /\ tx[x].sheet \in Sheets
          /\ tx[x].supersede \subseteq Pages
        BY <1>1, TxIsTyped
    <1>3. tx[x].on \notin tx[x].supersede
        BY <1>1 DEF FoundOK
    <1>4. x \in Desks \/ page[tx[x].on].state = "pending"
        BY <1>1 DEF HostsOK, Actors
    <1>5. page'[tx[x].on] = [state |-> tx[x].state, sheet |-> tx[x].sheet,
                             print |-> tx[x].print, person |-> x \in Desks]
        BY <1>2, <1>4 DEF CommitSheet, Named
    <1>6. ASSUME NEW q \in Pages \ {tx[x].on}
          PROVE  /\ ~(q \in tx[x].supersede /\ page[q].state = "matched") => page'[q] = page[q]
                 /\ q \in tx[x].supersede /\ page[q].state = "matched" =>
                       page'[q] = [page[q] EXCEPT !.state = "superseded"]
        BY <1>6 DEF CommitSheet
    <1>7. /\ vacated \subseteq vacated'
          /\ \A q \in tx[x].supersede \cup {tx[x].on} :
                page[q].state = "matched" /\ page[q].sheet # tx[x].sheet =>
                   page[q].sheet \in vacated'
        BY DEF CommitSheet, Left
    <1> QED
        BY <1>2, <1>3, <1>5, <1>6, <1>7

\* Who has set another page aside stands for it, whatever becomes of the page
\* that stood before.
LEMMA CommitYields ==
    ASSUME ScanInv, Yielding, NEW x \in Actors, CommitSheet(x)
    PROVE  SetAsideForAnother'
    <1> DEFINE on == tx[x].on  s == tx[x].sheet  k == tx[x].print  state == tx[x].state
    <1>1. ScanTypeOK /\ DesksOK /\ HostsOK /\ FoundOK /\ NamesOK /\ SetAsideForAnother
          /\ Covered /\ tx[x] # NoTx
        BY DEF ScanInv, Yielding, CommitSheet
    <1>2. /\ tx[x] \in TxRows /\ on \in Pages /\ s \in Sheets
          /\ tx[x].supersede \subseteq Pages \ {on}
          /\ page'[on] = [state |-> state, sheet |-> s, print |-> k, person |-> x \in Desks]
          /\ \A q \in Pages \ {on} :
                \/ page'[q] = page[q]
                \/ /\ q \in tx[x].supersede /\ page[q].state = "matched"
                   /\ page'[q] = [page[q] EXCEPT !.state = "superseded"]
          /\ vacated \subseteq vacated'
          /\ \A q \in tx[x].supersede \cup {on} :
                page[q].state = "matched" /\ page[q].sheet # s => page[q].sheet \in vacated'
        BY <1>1, Committed
    <1>3. k \in Nat /\ \A q \in Pages : page[q].print \in Nat /\ page[q] \in PageRows
        BY <1>1, <1>2, PrintsAreNumbers DEF ScanTypeOK, PageRows, TxRows
    <1>4. state # "matched" => tx[x].supersede = {}
        BY <1>1 DEF FoundOK
    <1>5. state = "matched" =>
              \A q \in Pages \ {on} : page[q].state = "matched" /\ page[q].sheet = s =>
                  page[q].print # 0 /\ page[q].print < k
        BY <1>1 DEF FoundOK
    <1> SUFFICES ASSUME NEW p \in Pages, page'[p].state \in {"duplicate", "superseded"},
                        page'[p].sheet \notin vacated'
                 PROVE  \E q \in Pages :
                            /\ page'[q].state = "matched" /\ page'[q].sheet = page'[p].sheet
                            /\ page'[p].state = "superseded" => page'[q].print > page'[p].print
        BY DEF SetAsideForAnother
    <1>6. CASE p = on
        <2>1. /\ state # "matched" /\ page'[p].sheet = s /\ page'[p].state = state
              /\ page'[p].print = k /\ s \notin vacated
            BY <1>2, <1>6
        <2>2. PICK q \in Pages : /\ page[q].state = "matched" /\ page[q].sheet = s
                                 /\ state = "superseded" => page[q].print > k
            BY <1>1, <2>1 DEF FoundOK
        <2>3. q # on
            BY <1>1, <2>1, <2>2 DEF FoundOK
        <2>4. page'[q] = page[q]
            BY <1>2, <1>4, <2>1, <2>3
        <2> QED
            BY <2>1, <2>2, <2>4
    <1>7. CASE p # on /\ page'[p] # page[p]
        <2>1. /\ p \in tx[x].supersede /\ page[p].state = "matched"
              /\ page'[p] = [page[p] EXCEPT !.state = "superseded"]
            BY <1>2, <1>7
        <2>2. page'[p].sheet = page[p].sheet /\ page'[p].print = page[p].print
            BY <1>3, <2>1 DEF PageRows
        <2>3. state = "matched" /\ page[p].sheet = s
            BY <1>2, <1>4, <2>1, <2>2
        <2>4. page[p].print < k
            BY <1>5, <1>7, <2>1, <2>3
        <2>5. k > page[p].print
            BY <1>3, <2>4
        <2> QED
            BY <1>2, <2>2, <2>3, <2>5
    <1>8. CASE p # on /\ page'[p] = page[p]
        <2>1. page[p].state \in {"duplicate", "superseded"} /\ page[p].sheet \notin vacated
              /\ page[p].sheet \notin vacated'
            BY <1>2, <1>8
        <2>2. PICK q \in Pages : /\ page[q].state = "matched" /\ page[q].sheet = page[p].sheet
                                 /\ page[p].state = "superseded" => page[q].print > page[p].print
            BY <1>1, <2>1 DEF SetAsideForAnother
        <2>3. CASE page'[q] = page[q]
            BY <1>8, <2>2, <2>3
        <2>4. CASE q # on /\ page'[q] # page[q]
            <3>1. q \in tx[x].supersede /\ state = "matched" /\ page[q].sheet = s
                BY <1>2, <1>4, <2>1, <2>2, <2>4
            <3>2. page[q].print < k
                BY <1>5, <2>2, <2>4, <3>1
            <3>3. page[p].state = "superseded" => k > page[p].print
                BY <1>3, <2>2, <3>2
            <3> QED
                BY <1>2, <1>8, <2>2, <3>1, <3>3
        <2>5. CASE q = on /\ page'[q] # page[q]
            <3>1. page[q].sheet = s
                BY <1>2, <2>1, <2>2, <2>5
            <3>2. state = "matched"
                BY <1>1, <2>2, <2>5, <3>1 DEF FoundOK
            <3>3. x \in Desks
                <4>1. ASSUME x \in Hosts PROVE FALSE
                    BY <1>1, <2>2, <2>5, <4>1 DEF HostsOK
                <4> QED
                    BY <4>1 DEF Actors
            <3>4. page[q].person
                BY <1>1, <2>2, <2>5, <3>3 DEF DesksOK
            <3>5. page[q].print <= 1
                BY <1>1, <2>2, <3>4 DEF NamesOK
            <3>6. page[p].state # "superseded"
                <4>1. SUFFICES ASSUME page[p].state = "superseded" PROVE FALSE
                    OBVIOUS
                <4>2. page[p].print # 0 /\ page[q].print > page[p].print
                    BY <1>1, <2>1, <2>2, <4>1 DEF NamesOK
                <4> QED
                    BY <1>3, <3>5, <4>2
            <3>7. page'[on].state = "matched" /\ page'[on].sheet = page'[p].sheet
                BY <1>2, <1>8, <2>2, <3>1, <3>2
            <3> QED
                BY <1>2, <1>8, <3>6, <3>7
        <2> QED
            BY <2>3, <2>4, <2>5
    <1> QED
        BY <1>6, <1>7, <1>8

LEMMA CommitKeeps ==
    ASSUME ScanInv, Yielding, NEW x \in Actors, CommitSheet(x)
    PROVE  NamesOK' /\ FoundOK' /\ DesksPagesStay /\ TxEnd /\ (x \in Desks => PendingStays)
    <1> DEFINE on == tx[x].on  s == tx[x].sheet  k == tx[x].print  state == tx[x].state
    <1>1. ScanTypeOK /\ DesksOK /\ HostsOK /\ FoundOK /\ NamesOK
          /\ Exclusive /\ tx[x] # NoTx
        BY DEF ScanInv, Yielding, CommitSheet
    <1>2. /\ tx[x] \in TxRows /\ on \in Pages /\ s \in Sheets
          /\ tx[x].supersede \subseteq Pages \ {on}
          /\ page'[on] = [state |-> state, sheet |-> s, print |-> k, person |-> x \in Desks]
          /\ \A q \in Pages \ {on} :
                \/ page'[q] = page[q]
                \/ /\ q \in tx[x].supersede /\ page[q].state = "matched"
                   /\ page'[q] = [page[q] EXCEPT !.state = "superseded"]
          /\ vacated \subseteq vacated'
          /\ \A q \in tx[x].supersede \cup {on} :
                page[q].state = "matched" /\ page[q].sheet # s => page[q].sheet \in vacated'
        BY <1>1, Committed
    <1>3. \A q \in Pages : page[q] \in PageRows
        BY <1>1 DEF ScanTypeOK
    <1>4. state # "matched" => tx[x].supersede = {}
        BY <1>1 DEF FoundOK
    <1>5. state = "matched" =>
              \A q \in Pages \ {on} : page[q].state = "matched" /\ page[q].sheet = s =>
                  page[q].print # 0 /\ page[q].print < k
        BY <1>1 DEF FoundOK
    <1>6. /\ state \in {"matched", "duplicate", "superseded"}
          /\ state = "superseded" => k # 0
          /\ x \in Desks => k <= 1 /\ (page[on].state = "unreadable" \/ page[on].person)
          /\ x \in Hosts => page[on].state = "pending" /\ ~page[on].person
        <2>1. state \in {"matched", "duplicate", "superseded"} /\ (state = "superseded" => k # 0)
            BY <1>1, <1>2 DEF FoundOK, TxRows
        <2>2. x \in Desks => k <= 1 /\ (page[on].state = "unreadable" \/ page[on].person)
            BY <1>1 DEF DesksOK
        <2>3. x \in Hosts => page[on].state = "pending"
            BY <1>1 DEF HostsOK
        <2> QED
            BY <1>1, <1>2, <2>1, <2>2, <2>3 DEF NamesOK
    <1>7. ASSUME NEW q \in Pages, q # on, page'[q] # page[q]
          PROVE  /\ q \in tx[x].supersede /\ page[q].state = "matched" /\ state = "matched"
                 /\ page'[q].state = "superseded" /\ page'[q].sheet = page[q].sheet
                 /\ page'[q].print = page[q].print /\ page'[q].person = page[q].person
        <2>1. q \in tx[x].supersede /\ page[q].state = "matched"
              /\ page'[q] = [page[q] EXCEPT !.state = "superseded"]
            BY <1>2, <1>7
        <2> QED
            BY <1>3, <1>4, <2>1 DEF PageRows
    <1>8. NamesOK'
        <2> SUFFICES ASSUME NEW q \in Pages
                     PROVE  /\ page'[q].state \in {"none", "pending"} => ~page'[q].person
                            /\ page'[q].state = "matched" /\ page'[q].person =>
                                  page'[q].print <= 1
                            /\ page'[q].state = "superseded" /\ page'[q].sheet \notin vacated'
                                  => page'[q].print # 0
            BY DEF NamesOK
        <2>1. CASE q = on
            <3>1. /\ page'[q].state = state /\ page'[q].print = k
                  /\ page'[q].person = (x \in Desks)
                BY <1>2, <2>1
            <3> QED
                BY <1>6, <3>1
        <2>2. CASE q # on /\ page'[q] # page[q]
            <3>1. page[q].sheet \notin vacated' => page[q].print # 0
                BY <1>2, <1>5, <1>7, <2>2
            <3> QED
                BY <1>7, <2>2, <3>1
        <2>3. CASE q # on /\ page'[q] = page[q]
            BY <1>1, <1>2, <2>3 DEF NamesOK
        <2> QED
            BY <2>1, <2>2, <2>3
    <1>9. tx'[x] = NoTx /\ \A y \in Actors \ {x} : tx'[y] = tx[y]
        BY <1>1 DEF CommitSheet, ScanTypeOK
    <1>10. FoundOK'
        <2> SUFFICES ASSUME NEW y \in Actors, tx'[y] # NoTx
                     PROVE  /\ tx'[y].on \notin tx'[y].supersede
                            /\ tx'[y].state = "matched" =>
                                  \A q \in Pages \ {tx'[y].on} :
                                      page'[q].state = "matched" /\ page'[q].sheet = tx'[y].sheet =>
                                          page'[q].print # 0 /\ page'[q].print < tx'[y].print
                            /\ tx'[y].state # "matched" =>
                                  /\ tx'[y].supersede = {}
                                  /\ ~(page'[tx'[y].on].state = "matched"
                                       /\ page'[tx'[y].on].sheet = tx'[y].sheet)
                                  /\ tx'[y].sheet \notin vacated' =>
                                        \E q \in Pages :
                                            /\ page'[q].state = "matched"
                                            /\ page'[q].sheet = tx'[y].sheet
                                            /\ tx'[y].state = "superseded" =>
                                                  page'[q].print > tx'[y].print
                            /\ tx'[y].state = "superseded" => tx'[y].print # 0
            BY DEF FoundOK
        <2>1. y # x /\ tx'[y] = tx[y] /\ tx[y] # NoTx
            BY <1>9
        <2>2. tx[y].on \in Pages /\ tx[y].sheet \in Sheets
            BY <1>1, <2>1, TxIsTyped
        <2>3. tx[y].sheet # s
            BY <1>1, <1>2, <2>1 DEF Exclusive
        <2>4. ASSUME NEW q \in Pages, page'[q].state = "matched", page'[q].sheet = tx[y].sheet
              PROVE  page'[q] = page[q]
            <3>1. q # on
                BY <1>2, <2>3, <2>4
            <3> QED
                BY <1>7, <2>4, <3>1
        <2>5. ASSUME NEW q \in Pages, page[q].state = "matched", page[q].sheet = tx[y].sheet,
                     tx[y].sheet \notin vacated'
              PROVE  page'[q] = page[q]
            <3>1. q \notin tx[x].supersede \cup {on}
                BY <1>2, <2>3, <2>5
            <3> QED
                BY <1>7, <3>1
        <2>6. tx[y].on \notin tx[y].supersede /\ (tx[y].state = "superseded" => tx[y].print # 0)
            BY <1>1, <2>1 DEF FoundOK
        <2>7. ASSUME tx[y].state = "matched", NEW q \in Pages \ {tx[y].on},
                     page'[q].state = "matched", page'[q].sheet = tx[y].sheet
              PROVE  page'[q].print # 0 /\ page'[q].print < tx[y].print
            <3>1. page'[q] = page[q]
                BY <2>4, <2>7
            <3> QED
                BY <1>1, <2>1, <2>7, <3>1 DEF FoundOK
        <2>8. ASSUME tx[y].state # "matched"
              PROVE  /\ tx[y].supersede = {}
                     /\ ~(page'[tx[y].on].state = "matched"
                          /\ page'[tx[y].on].sheet = tx[y].sheet)
            <3>1. /\ tx[y].supersede = {}
                  /\ ~(page[tx[y].on].state = "matched" /\ page[tx[y].on].sheet = tx[y].sheet)
                BY <1>1, <2>1, <2>8 DEF FoundOK
            <3> QED
                BY <2>2, <2>4, <3>1
        <2>9. ASSUME tx[y].state # "matched", tx[y].sheet \notin vacated'
              PROVE  \E q \in Pages :
                         /\ page'[q].state = "matched" /\ page'[q].sheet = tx[y].sheet
                         /\ tx[y].state = "superseded" => page'[q].print > tx[y].print
            <3>1. tx[y].sheet \notin vacated
                BY <1>2, <2>9
            <3>2. PICK q \in Pages : /\ page[q].state = "matched" /\ page[q].sheet = tx[y].sheet
                                     /\ tx[y].state = "superseded" => page[q].print > tx[y].print
                BY <1>1, <2>1, <2>9, <3>1 DEF FoundOK
            <3>3. page'[q] = page[q]
                BY <2>5, <2>9, <3>2
            <3> QED
                BY <3>2, <3>3
        <2> QED
            BY <2>1, <2>6, <2>7, <2>8, <2>9
    <1>11. DesksPagesStay
        <2> SUFFICES ASSUME NEW q \in Pages, page[q].state = "unreadable" \/ page[q].person
                     PROVE  page'[q] = page[q] \/ page'[q].person
            BY DEF DesksPagesStay
        <2>1. CASE q = on
            <3>1. x \in Desks
                <4>1. x \notin Hosts
                    BY <1>6, <2>1
                <4> QED
                    BY <4>1 DEF Actors
            <3>2. page'[on].person = (x \in Desks)
                BY <1>2
            <3> QED
                BY <2>1, <3>1, <3>2
        <2>2. CASE q # on
            BY <1>7, <2>2
        <2> QED
            BY <2>1, <2>2
    <1>12. TxEnd
        BY <1>9 DEF TxEnd
    <1>13. ASSUME x \in Desks PROVE PendingStays
        <2> SUFFICES ASSUME NEW q \in Pages, page[q].state = "pending"
                     PROVE  page'[q].state = "pending"
            BY DEF PendingStays
        <2>1. q # on
            BY <1>1, <1>6, <1>13 DEF NamesOK
        <2> QED
            BY <1>7, <2>1
    <1> QED
        BY <1>8, <1>10, <1>11, <1>12, <1>13

YieldGoal == NamesOK' /\ DesksOK' /\ HostsOK' /\ FoundOK' /\ SetAsideForAnother'
\* All of it but what is about the worker.
RowsGoal == NamesOK' /\ DesksOK' /\ FoundOK' /\ SetAsideForAnother'

\* The one host that there is goes on to what the invariant allows.
LEMMA HostGoesOn ==
    ASSUME OneHost, NEW h \in Hosts,
           host'[h].phase \in {"analysing", "identified"} =>
               /\ host'[h].message.work \in Pages
               /\ page'[host'[h].message.work].state = "pending",
           tx'[h] # NoTx => host'[h].phase = "identified" /\ tx'[h].on = host'[h].message.work
    PROVE  HostsOK'
    BY DEF OneHost, HostsOK

\* No page changes.
LEMMA RowsStay ==
    ASSUME ScanInv, Yielding, UNCHANGED <<page, vacated>>, TxEnd,
           \A d \in Desks : desk'[d] = desk[d] \/ (desk'[d] = Away /\ tx'[d] = NoTx)
    PROVE  RowsGoal
    <1>1. PagesLeave
        BY DEF PagesLeave
    <1>2. DesksPagesStay
        BY DEF DesksPagesStay
    <1> QED
        BY <1>1, <1>2, Leaving, DesksLeft DEF ScanInv, Yielding, RowsGoal

\* Neither a page changes nor what the worker is at.
LEMMA AllStay ==
    ASSUME ScanInv, Yielding, UNCHANGED <<page, vacated, host>>, TxEnd,
           \A d \in Desks : desk'[d] = desk[d] \/ (desk'[d] = Away /\ tx'[d] = NoTx)
    PROVE  YieldGoal
    <1>1. PendingStays
        BY DEF PendingStays
    <1> QED
        BY <1>1, RowsStay, HostsLeft DEF ScanInv, Yielding, RowsGoal, YieldGoal

\* A page that no transaction is about is set aside, or becomes pending.
LEMMA PagesSet ==
    ASSUME ScanInv, Yielding, NEW S \in SUBSET Pages, NEW r,
           r.state \notin {"matched", "duplicate", "superseded"},
           r.state \in {"none", "pending"} => ~r.person,
           \A p \in S : /\ page[p].state = "matched" => page[p].sheet \in vacated'
                        /\ page[p].state = "unreadable" \/ page[p].person => r.person,
           \A p \in Pages : page'[p] = IF p \in S THEN r ELSE page[p],
           vacated \subseteq vacated', TxEnd,
           \A d \in Desks : desk'[d] = desk[d] \/ (desk'[d] = Away /\ tx'[d] = NoTx)
    PROVE  RowsGoal
    <1>1. PagesLeave
        BY DEF PagesLeave
    <1>2. DesksPagesStay
        BY DEF DesksPagesStay
    <1> QED
        BY <1>1, <1>2, Leaving, DesksLeft DEF ScanInv, Yielding, RowsGoal

\* A page that is pending is set aside, another is left alone.
LEMMA SettingAside ==
    ASSUME ScanInv, Yielding, NEW p \in Pages, NEW state \in {"blank", "unreadable"},
           SetAside(p, state), UNCHANGED <<vacated, tx, desk>>
    PROVE  RowsGoal
    <1>1. TxEnd
        BY DEF TxEnd
    <1>2. CASE page[p].state = "pending"
        <2> DEFINE r == Unnamed(state, FALSE)
        <2>1. r.state = state /\ r.person = FALSE
            BY DEF Unnamed
        <2>2. page' = [page EXCEPT ![p] = r] /\ page \in [Pages -> PageRows]
            BY <1>2 DEF SetAside, ScanInv, ScanTypeOK
        <2> HIDE DEF r
        <2>3. \A q \in Pages : page'[q] = IF q \in {p} THEN r ELSE page[q]
            BY <2>2
        <2>4. ~page[p].person
            BY <1>2 DEF Yielding, NamesOK
        <2> QED
            BY <1>1, <1>2, <2>1, <2>3, <2>4, PagesSet
    <1>3. CASE page[p].state # "pending"
        BY <1>1, <1>3, RowsStay DEF SetAside
    <1> QED
        BY <1>2, <1>3

\* A host that records nothing has no transaction.
LEMMA NoTxYet ==
    ASSUME HostsOK, NEW h \in Hosts, host[h].phase # "identified"
    PROVE  tx[h] = NoTx
    BY DEF HostsOK

LEMMA YieldHostStep ==
    ASSUME ScanInv, Yielding, OneHost, NEW h \in Hosts, HostStep(h)
    PROVE  YieldGoal
    <1>1. ScanTypeOK /\ HostsOK /\ host[h] \in HostRows
        BY DEF ScanInv, Yielding, ScanTypeOK
    <1>2. ASSUME NEW phase \in Phases \ {"analysing", "identified"}, Advance(h, phase)
          PROVE  host'[h].phase = phase
        BY <1>1, <1>2 DEF Advance, ScanTypeOK, HostRows
    <1>3. Release(h) => host'[h].phase = "idle"
        BY <1>1 DEF Release, Idle, ScanTypeOK
    \* A step to a phase in which the worker has no page, by a host without a
    \* transaction.
    <1>4. ASSUME host'[h].phase \notin {"analysing", "identified"}, tx'[h] = NoTx
          PROVE  HostsOK'
        BY <1>4, HostGoesOn
    <1>5. ASSUME host[h].phase # "identified", host'[h].phase \notin {"analysing", "identified"},
                 UNCHANGED <<page, vacated, tx, desk>>
          PROVE  YieldGoal
        <2>1. tx'[h] = NoTx
            BY <1>1, <1>5, NoTxYet
        <2>2. TxEnd
            BY <1>5 DEF TxEnd
        <2> QED
            BY <1>4, <1>5, <2>1, <2>2, RowsStay DEF RowsGoal, YieldGoal
    <1>6. CASE LoadUpload(h)
        <2>1. CASE Release(h)
            BY <1>3, <1>5, <1>6, <2>1 DEF LoadUpload, Handles, NoRow, scanRows
        <2>2. CASE Advance(h, "marking")
            BY <1>2, <1>5, <1>6, <2>2 DEF LoadUpload, Handles, NoRow, scanRows, Phases
        <2> QED
            BY <1>6, <2>1, <2>2 DEF LoadUpload
    <1>7. CASE MarkSplitting(h)
        BY <1>2, <1>5, <1>7 DEF MarkSplitting, Handles, Phases
    <1>8. ASSUME NEW readable \in BOOLEAN, ReadOriginal(h, readable) PROVE YieldGoal
        <2>1. host'[h].phase \in {"writing", "refusing"}
            BY <1>2, <1>8 DEF ReadOriginal, Phases
        <2> QED
            BY <1>5, <1>8, <2>1 DEF ReadOriginal, Handles, NoRow, scanRows
    <1>9. CASE FailUpload(h)
        BY <1>3, <1>5, <1>9 DEF FailUpload, Handles
    <1>10. CASE FinishUpload(h)
        BY <1>3, <1>5, <1>10 DEF FinishUpload
    <1>11. CASE QueueingDone(h)
        BY <1>2, <1>5, <1>11 DEF QueueingDone, Handles, NoRow, scanRows, Phases
    <1>12. ASSUME NEW p \in Pages, QueuePage(h, p) PROVE YieldGoal
        <2>1. host'[h].phase = "queueing" /\ host[h].phase = "queueing"
            BY <1>1, <1>12 DEF QueuePage, Handles, ScanTypeOK, HostRows
        <2> QED
            BY <1>5, <1>12, <2>1 DEF QueuePage, scanRows
    <1>13. CASE WritePages(h)
        <2> DEFINE r == Unnamed("pending", FALSE)
                   S == {p \in PagesOf(host[h].message.work) \cap Pages : page[p].state = "none"}
        <2>1. r.state = "pending" /\ r.person = FALSE
            BY DEF Unnamed
        <2>2. host'[h].phase = "queueing" /\ host[h].phase = "writing"
            BY <1>1, <1>13 DEF WritePages, Handles, ScanTypeOK, HostRows
        <2>3. \A p \in Pages : page'[p] = IF p \in S THEN r ELSE page[p]
            BY <1>13 DEF WritePages
        <2>4. \A p \in S : page[p].state = "none" /\ ~page[p].person
            BY DEF Yielding, NamesOK
        <2>5. tx'[h] = NoTx /\ TxEnd /\ UNCHANGED <<vacated, desk>>
            BY <1>1, <1>13, <2>2, NoTxYet DEF WritePages, TxEnd
        <2>6. S \in SUBSET Pages
            OBVIOUS
        <2> HIDE DEF r, S
        <2>7. RowsGoal
            BY <2>1, <2>3, <2>4, <2>5, <2>6, PagesSet
        <2> QED
            BY <1>4, <2>2, <2>5, <2>7 DEF RowsGoal, YieldGoal
    <1>14. CASE LoadPage(h)
        <2>1. CASE Release(h)
            BY <1>3, <1>5, <1>14, <2>1 DEF LoadPage, Handles, NoRow, scanRows
        <2>2. CASE page[host[h].message.work].state = "pending" /\ Advance(h, "analysing")
            <3>1. /\ host'[h].phase = "analysing" /\ host'[h].message = host[h].message
                  /\ host[h].message.work \in Pages /\ host[h].phase = "loading"
                BY <1>1, <1>14, <2>2 DEF LoadPage, Handles, Advance, ScanTypeOK, HostRows
            <3>2. UNCHANGED <<page, vacated, tx, desk>>
                BY <1>14 DEF LoadPage, NoRow, scanRows
            <3>3. tx'[h] = NoTx /\ TxEnd
                BY <1>1, <3>1, <3>2, NoTxYet DEF TxEnd
            <3>4. HostsOK'
                BY <2>2, <3>1, <3>2, <3>3, HostGoesOn
            <3> QED
                BY <3>2, <3>3, <3>4, RowsStay DEF RowsGoal, YieldGoal
        <2> QED
            BY <1>14, <2>1, <2>2 DEF LoadPage
    <1>15. ASSUME NEW s \in Sheets, NEW print \in Prints, AnalysePage(h, s, print)
           PROVE  YieldGoal
        <2>1. /\ host'[h].phase = "identified" /\ host'[h].message = host[h].message
              /\ host[h].phase = "analysing"
            BY <1>1, <1>15 DEF AnalysePage, Handles, ScanTypeOK, HostRows
        <2>2. host[h].message.work \in Pages /\ page[host[h].message.work].state = "pending"
            BY <1>1, <2>1 DEF HostsOK
        <2>3. UNCHANGED <<page, vacated, tx, desk>>
            BY <1>15 DEF AnalysePage, NoRow, scanRows
        <2>4. tx'[h] = NoTx /\ TxEnd
            BY <1>1, <2>1, <2>3, NoTxYet DEF TxEnd
        <2>5. HostsOK'
            BY <2>1, <2>2, <2>3, <2>4, HostGoesOn
        <2> QED
            BY <2>3, <2>4, <2>5, RowsStay DEF RowsGoal, YieldGoal
    <1>16. ASSUME NEW as \in {"blank", "unreadable"}, FindNoSheet(h, as) PROVE YieldGoal
        <2>1. host'[h].phase = as
            BY <1>2, <1>16 DEF FindNoSheet, Phases
        <2> QED
            BY <1>5, <1>16, <2>1 DEF FindNoSheet, Handles, NoRow, scanRows
    <1>17. CASE UpdatePending(h)
        <2>1. /\ host'[h].phase = "finishing" /\ host[h].phase \in {"blank", "unreadable"}
              /\ host[h].message.work \in Pages
            BY <1>2, <1>17 DEF UpdatePending, Handles, Phases
        <2>2. RowsGoal
            BY <1>17, <2>1, SettingAside DEF UpdatePending
        <2>3. tx'[h] = NoTx
            BY <1>1, <1>17, <2>1, NoTxYet DEF UpdatePending
        <2> QED
            BY <1>4, <2>1, <2>2, <2>3 DEF RowsGoal, YieldGoal
    <1>18. CASE GiveUpOnPage(h)
        <2>1. /\ host'[h].phase = "closing" /\ host[h].phase = "givingUp"
              /\ host[h].message.work \in Pages
            BY <1>2, <1>18 DEF GiveUpOnPage, Handles, Phases
        <2>2. RowsGoal
            BY <1>18, <2>1, SettingAside DEF GiveUpOnPage
        <2>3. tx'[h] = NoTx
            BY <1>1, <1>18, <2>1, NoTxYet DEF GiveUpOnPage
        <2> QED
            BY <1>4, <2>1, <2>2, <2>3 DEF RowsGoal, YieldGoal
    <1>19. CASE BeginRecording(h)
        <2> DEFINE p == host[h].message.work  s == host[h].sheet  print == host[h].print
        <2>1. /\ p \in Pages /\ s \in Sheets /\ print \in Prints
              /\ host[h].phase = "identified" /\ page[p].state = "pending"
            BY <1>1, <1>19 DEF BeginRecording, Handles, ScanTypeOK, HostRows, HostsOK
        <2>2. LockSheet(h, p, s, print) /\ UNCHANGED <<page, vacated, host, desk>>
            BY <1>19 DEF BeginRecording, scanRows
        <2>3. /\ tx'[h].on = p /\ \A y \in Actors \ {h} : tx'[y] = tx[y]
              /\ h \notin Desks
            BY <1>1, <2>2, ScanAssumption DEF LockSheet, ScanTypeOK, Actors
        <2>4. HostsOK'
            BY <2>1, <2>2, <2>3, HostGoesOn
        <2>5. FoundOK'
            BY <1>1, <2>1, <2>2, Finding DEF ScanInv, Yielding, Actors
        <2>6. \A d \in Desks : tx'[d] = tx[d]
            BY <2>3 DEF Actors
        <2>7. NamesOK' /\ DesksOK' /\ SetAsideForAnother'
            BY <2>2, <2>6 DEF Yielding, NamesOK, DesksOK, SetAsideForAnother
        <2> QED
            BY <2>4, <2>5, <2>7 DEF YieldGoal
    <1>20. CASE CommitPage(h)
        <2>1. CommitSheet(h) /\ host'[h].phase = "finishing" /\ UNCHANGED desk
            BY <1>2, <1>20 DEF CommitPage, Phases
        <2>2. h \in Actors
            BY DEF Actors
        <2>3. NamesOK' /\ FoundOK' /\ DesksPagesStay /\ TxEnd /\ SetAsideForAnother'
            BY <2>1, <2>2, CommitKeeps, CommitYields
        <2>4. DesksOK'
            BY <1>1, <2>1, <2>3, DesksLeft DEF Yielding
        <2>5. tx'[h] = NoTx
            BY <1>1, <2>1, <2>2 DEF CommitSheet, ScanTypeOK
        <2> QED
            BY <1>4, <2>1, <2>3, <2>4, <2>5 DEF YieldGoal
    <1>21. CASE Throw(h)
        <2>1. host'[h].phase \in {"idle", "givingUp"}
            BY <1>2, <1>3, <1>21 DEF Throw, Thrown, Phases
        <2>2. tx'[h] = NoTx /\ TxEnd /\ UNCHANGED <<page, vacated, desk>>
            BY <1>1, <1>21 DEF Throw, TxEnd, ScanTypeOK, Actors, scanRows
        <2> QED
            BY <1>4, <2>1, <2>2, RowsStay DEF RowsGoal, YieldGoal
    <1> HIDE DEF YieldGoal
    <1> QED
        BY <1>6, <1>7, <1>8, <1>9, <1>10, <1>11, <1>12, <1>13, <1>14, <1>15, <1>16, <1>17,
           <1>18, <1>19, <1>20, <1>21 DEF HostStep

LEMMA YieldHostFault ==
    ASSUME ScanInv, Yielding, OneHost, NEW h \in Hosts,
           \/ LapseHandled(h) \/ StopHost(h)
           \/ \E m \in BagToSet(waiting) : TakeMessage(h, m)
    PROVE  YieldGoal
    <1>1. ScanTypeOK /\ HostsOK /\ host[h] \in HostRows
        BY DEF ScanInv, Yielding, ScanTypeOK
    <1>2. CASE LapseHandled(h)
        <2>1. /\ host'[h].phase = host[h].phase /\ host'[h].message.work = host[h].message.work
              /\ UNCHANGED <<page, vacated, tx, desk>> /\ TxEnd
            <3>1. host[h].message \in Deliveries
                BY <1>1, <1>2 DEF LapseHandled, ScanTypeOK
            <3>2. host'[h] = [host[h] EXCEPT !.message.held = FALSE]
                BY <1>1, <1>2 DEF LapseHandled, ScanTypeOK
            <3>3. host'[h].phase = host[h].phase /\ host'[h].message.work = host[h].message.work
                BY <1>1, <3>1, <3>2 DEF HostRows, Deliveries
            <3> QED
                BY <1>2, <3>3 DEF LapseHandled, scanRows, TxEnd
        <2>2. HostsOK'
            BY <1>1, <2>1, HostGoesOn DEF HostsOK
        <2> QED
            BY <2>1, <2>2, RowsStay DEF RowsGoal, YieldGoal
    <1>3. CASE StopHost(h)
        <2>1. host'[h].phase = "idle"
            BY <1>1, <1>3 DEF StopHost, Release, Idle, ScanTypeOK
        <2>2. tx'[h] = NoTx /\ TxEnd /\ UNCHANGED <<page, vacated, desk>>
            BY <1>1, <1>3 DEF StopHost, TxEnd, ScanTypeOK, Actors, scanRows
        <2> QED
            BY <2>1, <2>2, HostGoesOn, RowsStay DEF RowsGoal, YieldGoal
    <1>4. ASSUME NEW m \in BagToSet(waiting), TakeMessage(h, m) PROVE YieldGoal
        <2>1. host'[h].phase = "loading" /\ host[h].phase = "idle"
            BY <1>1, <1>4 DEF TakeMessage, Idle, ScanTypeOK
        <2>2. UNCHANGED <<page, vacated, tx, desk>>
            BY <1>4 DEF TakeMessage, scanRows
        <2>3. tx'[h] = NoTx /\ TxEnd
            BY <1>1, <2>1, <2>2, NoTxYet DEF TxEnd
        <2> QED
            BY <2>1, <2>2, <2>3, HostGoesOn, RowsStay DEF RowsGoal, YieldGoal
    <1> QED
        BY <1>2, <1>3, <1>4

LEMMA YieldDeskStep ==
    ASSUME ScanInv, Yielding, NEW d \in Desks, DeskStep(d)
    PROVE  YieldGoal
    <1>1. ScanTypeOK /\ HostsOK /\ DesksOK /\ d \in Actors /\ desk[d] \in DeskRows
        BY DEF ScanInv, Yielding, ScanTypeOK, Actors
    <1>2. ASSUME NEW p \in Pages, NEW s \in Sheets \cup {NoSheet}, TakePage(d, p, s)
          PROVE  YieldGoal
        <2> DEFINE print == IF s # NoSheet /\ printed[s] = 1 THEN 1 ELSE 0
        <2>1. print <= 1
            OBVIOUS
        <2>2. desk'[d].phase = "assigning" /\ desk'[d].page = p /\ desk'[d].print = print
            BY <1>1, <1>2 DEF TakePage, ScanTypeOK
        <2>3. \A e \in Desks \ {d} : desk'[e] = desk[e]
            BY <1>1, <1>2 DEF TakePage, ScanTypeOK
        <2> HIDE DEF print
        <2>4. tx'[d] = NoTx
            BY <1>1, <1>2 DEF TakePage, DesksOK
        <2>5. UNCHANGED <<page, vacated, host, tx>>
            BY <1>2 DEF TakePage, scanRows
        <2>6. page[p].state = "unreadable" \/ page[p].person
            BY <1>2 DEF TakePage
        <2>7. DesksOK'
            BY <1>1, <2>1, <2>2, <2>3, <2>4, <2>5, <2>6 DEF DesksOK
        <2> QED
            BY <2>5, <2>7 DEF Yielding, NamesOK, HostsOK, FoundOK, SetAsideForAnother, YieldGoal
    <1>3. ASSUME NEW as \in {"ignored", "blank"}, DismissPage(d, as) PROVE YieldGoal
        <2> DEFINE p == desk[d].page  r == Unnamed(as, TRUE)
        <2>1. /\ p \in Pages /\ desk[d].phase = "assigning"
              /\ page[p].state = "unreadable" \/ page[p].person
            BY <1>1, <1>3 DEF DismissPage, ScanTypeOK, DesksOK
        <2>2. r.state = as /\ r.person = TRUE
            BY DEF Unnamed
        <2>3. page' = [page EXCEPT ![p] = r] /\ page \in [Pages -> PageRows]
            BY <1>1, <1>3 DEF DismissPage, ScanTypeOK
        <2>4. /\ vacated \subseteq vacated'
              /\ page[p].state = "matched" => page[p].sheet \in vacated'
            BY <1>1, <1>3, <2>1, ScanAssumption DEF DismissPage, Left, ScanTypeOK
        <2>5. UNCHANGED <<host, tx>> /\ TxEnd
            BY <1>3 DEF DismissPage, TxEnd
        <2>6. tx'[d] = NoTx /\ \A e \in Desks : desk'[e] = desk[e] \/ (e = d /\ desk'[e] = Away)
            <3>1. tx[d] = NoTx
                <4>1. SUFFICES ASSUME tx[d] # NoTx PROVE FALSE
                    OBVIOUS
                <4>2. desk[d].sheet \in Sheets
                    BY <1>1, <4>1, TxIsTyped DEF DesksOK
                <4> QED
                    BY <1>3, <4>2, ScanAssumption DEF DismissPage
            <3> QED
                BY <1>1, <1>3, <3>1 DEF DismissPage, ScanTypeOK
        <2>7. PendingStays
            <3>1. page[p].state # "pending"
                BY <2>1 DEF Yielding, NamesOK
            <3> HIDE DEF r, p
            <3> QED
                BY <2>3, <3>1 DEF PendingStays
        <2>8. \A q \in Pages : page'[q] = IF q \in {p} THEN r ELSE page[q]
            <3> HIDE DEF r, p
            <3> QED
                BY <2>3
        <2>9. HostsOK'
            BY <1>1, <2>5, <2>7, HostsLeft
        <2> HIDE DEF r, p
        <2>10. r.state \notin {"matched", "duplicate", "superseded", "none", "pending"}
            BY <2>2
        <2>11. RowsGoal
            BY <2>1, <2>2, <2>4, <2>5, <2>6, <2>8, <2>10, PagesSet
        <2> QED
            BY <2>9, <2>11 DEF RowsGoal, YieldGoal
    <1>4. CASE BeginAssigning(d)
        <2> DEFINE p == desk[d].page  s == desk[d].sheet  print == desk[d].print
        <2>1. /\ p \in Pages /\ s \in Sheets /\ print \in Prints
              /\ desk[d].phase = "assigning"
            BY <1>1, <1>4 DEF BeginAssigning, ScanTypeOK, DeskRows
        <2>2. LockSheet(d, p, s, print) /\ UNCHANGED <<page, vacated, host, desk>>
            BY <1>4 DEF BeginAssigning, scanRows
        <2>3. /\ tx'[d].on = p /\ tx'[d].sheet = s /\ tx'[d].print = print
              /\ \A y \in Actors \ {d} : tx'[y] = tx[y]
            BY <1>1, <2>2 DEF LockSheet, ScanTypeOK
        <2>4. FoundOK'
            BY <1>1, <2>1, <2>2, Finding DEF ScanInv, Yielding
        <2>5. \A h \in Hosts : tx'[h] = tx[h]
            BY <2>3, ScanAssumption DEF Actors
        <2>6. HostsOK'
            BY <1>1, <2>2, <2>5 DEF HostsOK
        <2>7. DesksOK'
            <3>1. \A e \in Desks \ {d} : tx'[e] = tx[e]
                BY <2>3 DEF Actors
            <3> QED
                BY <1>1, <2>1, <2>2, <2>3, <3>1 DEF DesksOK
        <2>8. NamesOK' /\ SetAsideForAnother'
            BY <2>2 DEF Yielding, NamesOK, SetAsideForAnother
        <2> QED
            BY <2>4, <2>6, <2>7, <2>8 DEF YieldGoal
    <1>5. CASE CommitAssignment(d)
        <2>1. CommitSheet(d) /\ UNCHANGED host /\ desk' = [desk EXCEPT ![d] = Away]
            BY <1>5 DEF CommitAssignment
        <2>2. NamesOK' /\ FoundOK' /\ DesksPagesStay /\ TxEnd /\ PendingStays
              /\ SetAsideForAnother'
            BY <1>1, <2>1, CommitKeeps, CommitYields
        <2>3. tx'[d] = NoTx
            BY <1>1, <2>1 DEF CommitSheet, ScanTypeOK
        <2>4. \A e \in Desks : desk'[e] = desk[e] \/ (desk'[e] = Away /\ tx'[e] = NoTx)
            BY <1>1, <2>1, <2>3 DEF ScanTypeOK
        <2>5. DesksOK'
            BY <1>1, <2>2, <2>4, DesksLeft
        <2>6. HostsOK'
            BY <1>1, <2>1, <2>2, HostsLeft
        <2> QED
            BY <2>2, <2>5, <2>6 DEF YieldGoal
    <1>6. CASE LeaveDesk(d)
        <2>1. UNCHANGED <<page, vacated, host>> /\ TxEnd
            BY <1>1, <1>6 DEF LeaveDesk, scanRows, TxEnd, ScanTypeOK
        <2>2. \A e \in Desks : desk'[e] = desk[e] \/ (desk'[e] = Away /\ tx'[e] = NoTx)
            BY <1>1, <1>6 DEF LeaveDesk, ScanTypeOK
        <2> QED
            BY <2>1, <2>2, AllStay
    <1> HIDE DEF YieldGoal
    <1> QED
        BY <1>2, <1>3, <1>4, <1>5, <1>6 DEF DeskStep

LEMMA YieldInit == ScanInit => Yielding
    <1> SUFFICES ASSUME ScanInit PROVE Yielding
        OBVIOUS
    <1>1. \A p \in Pages : page[p].state = "none" /\ page[p].person = FALSE
        BY DEF ScanInit, Unnamed
    <1>2. \A x \in Actors : tx[x] = NoTx
        BY DEF ScanInit
    <1>3. /\ \A h \in Hosts : host[h].phase = "idle"
          /\ \A d \in Desks : desk[d].phase = "away"
        BY DEF ScanInit, Idle, Away
    <1> QED
        BY <1>1, <1>2, <1>3
           DEF Yielding, NamesOK, DesksOK, HostsOK, FoundOK, SetAsideForAnother, Actors

LEMMA YieldStep == OneHost /\ YieldInv /\ [ScanNext]_scanVars => YieldInv'
    <1> SUFFICES ASSUME OneHost, ScanInv, Yielding, [ScanNext]_scanVars PROVE YieldInv'
        BY DEF YieldInv
    <1>1. ScanInv'
        BY ScanInvStep
    <1>2. ASSUME UNCHANGED <<page, vacated, host, tx, desk>> PROVE YieldGoal
        BY <1>2, AllStay DEF TxEnd
    <1>3. ASSUME UNCHANGED scanVars PROVE YieldGoal
        BY <1>2, <1>3 DEF scanVars, scanRows
    <1>4. ASSUME NEW u \in Uploads,
                 CreateUpload(u) \/ \E published \in BOOLEAN : SubmitUpload(u, published)
          PROVE  YieldGoal
        BY <1>2, <1>4 DEF CreateUpload, SubmitUpload
    <1>5. ASSUME NEW s \in Sheets, PrintSheet(s) PROVE YieldGoal
        BY <1>2, <1>5 DEF PrintSheet, scanRows
    <1>6. ASSUME NEW m \in BagToSet(waiting), LapseWaiting(m) \/ ExpireMessage(m)
          PROVE  YieldGoal
        BY <1>2, <1>6 DEF LapseWaiting, ExpireMessage, scanRows
    <1>7. ASSUME NEW m \in BagToSet(waiting), NEW h \in Hosts, TakeMessage(h, m)
          PROVE  YieldGoal
        BY <1>7, YieldHostFault
    <1>8. ASSUME NEW h \in Hosts, HostStep(h) \/ LapseHandled(h) \/ StopHost(h)
          PROVE  YieldGoal
        BY <1>8, YieldHostStep, YieldHostFault
    <1>9. ASSUME NEW d \in Desks, DeskStep(d) PROVE YieldGoal
        BY <1>9, YieldDeskStep
    <1>10. YieldGoal
        <2> HIDE DEF YieldGoal
        <2>1. CASE UNCHANGED scanVars
            BY <1>3, <2>1
        <2>2. CASE ScanNext
            BY <1>4, <1>5, <1>6, <1>7, <1>8, <1>9, <2>2 DEF ScanNext
        <2> QED
            BY <2>1, <2>2
    <1> QED
        BY <1>1, <1>10 DEF YieldGoal, YieldInv, Yielding

\* With one host, as the worker is deployed, a copy is never set aside for
\* nothing: whatever is printed, redelivered, given up, assigned and dismissed
\* meanwhile, a scan stands for the sheet of a page that was set aside as a
\* duplicate, and a later run's for one that was superseded, unless a person has
\* named that scan otherwise.
THEOREM CopiesYieldToAnother == OneHost /\ ScanSpec => []SetAsideForAnother
    <1>1. ScanInit => YieldInv
        BY ScanInvInit, YieldInit DEF YieldInv
    <1>2. OneHost /\ YieldInv /\ [ScanNext]_scanVars => YieldInv'
        BY YieldStep
    <1>3. YieldInv => SetAsideForAnother
        BY DEF YieldInv, Yielding
    <1>4. SUFFICES ASSUME OneHost PROVE ScanSpec => []SetAsideForAnother
        OBVIOUS
    <1>5. YieldInv /\ [ScanNext]_scanVars => YieldInv'
        BY <1>2, <1>4
    <1> QED
        BY <1>1, <1>3, <1>5, PTL DEF ScanSpec
=============================================================================
