--------------------------- MODULE RidershipScans ---------------------------
(***************************************************************************)
(* Scanned count sheets.  An upload is a PDF in storage; its message is    *)
(* split into a row and a message for each page; a page's message          *)
(* identifies the sheet the page is of and the print run its copy came     *)
(* from, and settles where it stands among the other scans of that sheet   *)
(* under an application lock.  What no code could read, a person at the    *)
(* desk assigns or sets aside.                                             *)
(*                                                                         *)
(* The queue delivers at least once, MaxTries times at most.  A host       *)
(* handles one message at a time, and messages wait for their turn in it   *)
(* while the lock on them runs out.  A step is one awaited call, with the  *)
(* reads and publishing that go with it where what comes between makes no  *)
(* difference: a message published late is one that waits on the queue.    *)
(***************************************************************************)
EXTENDS Naturals, FiniteSets, Bags

CONSTANTS
    Uploads,      \* files
    MaxPages,     \* the most pages a file has
    Sheets,       \* a page of a day's sheet: service date, block and sheet page
    NoSheet,      \* no sheet named
    MaxPrints,    \* bound on the times a sheet is printed
    Hosts,        \* processes that run the worker
    Desks,        \* people's requests
    MaxSubmits,   \* bound on the submissions of an upload
    MaxTries      \* maxDeliveryCount and MAX_DELIVERIES (3)

ASSUME ScanAssumption ==
    /\ NoSheet \notin Sheets /\ Hosts \cap Desks = {}
    /\ MaxPages \in Nat /\ MaxPrints \in Nat /\ MaxSubmits \in Nat /\ MaxTries \in Nat \ {0}

VARIABLES
    length,    \* how many pages the file has
    upload,    \* RidershipScanUploads.status (none: no row)
    submits,   \* submissions so far
    page,      \* RidershipScanPages (state none: no row)
    printed,   \* the runs a sheet was printed in, numbered by their time
    waiting,   \* the messages on the queue or waiting in a host
    dead,      \* what the dead-letter queue names
    host,      \* the message a host handles
    desk,      \* the request a person makes
    tx,        \* recordIdentified's transactions, by who runs them
    vacated    \* history: sheets whose page was named otherwise by a person

scanRows  == <<length, upload, page, vacated>>
queueVars == <<waiting, dead>>
scanVars  == <<scanRows, submits, printed, queueVars, host, desk, tx>>

Pages == Uploads \X (1 .. MaxPages)
Work == Uploads \cup Pages
PagesOf(u) == {u} \X (1 .. length[u])
Actors == Hosts \cup Desks
Prints == 0 .. MaxPrints      \* 0: the run is not known

UploadStates == {"none", "awaiting", "queued", "splitting", "processing", "done", "failed"}
PageStates == {"none", "pending", "matched", "blank", "duplicate", "superseded",
               "unreadable", "ignored"}
PageRows == [state : PageStates, sheet : Sheets \cup {NoSheet}, print : Prints,
             person : BOOLEAN]
Unnamed(state, person) ==
    [state |-> state, sheet |-> NoSheet, print |-> 0, person |-> person]

\* A delivery of a message; held: the lock on the message has not run out.
Delivery(w, n, held) == [work |-> w, try |-> n, held |-> held]

\* A host between messages, and one at work: what is left to queue, and the
\* sheet and the run it found.
Phases == {"idle", "loading", "marking", "reading", "refusing", "writing", "queueing",
           "analysing", "blank", "unreadable", "identified", "finishing", "givingUp",
           "closing"}
Idle == [phase |-> "idle", message |-> <<>>, todo |-> {}, sheet |-> NoSheet, print |-> 0]
Away == [phase |-> "away", page |-> <<>>, sheet |-> NoSheet, print |-> 0]

Deliveries == [work : Work, try : 1 .. MaxTries, held : BOOLEAN]
HostRows == [phase : Phases, message : Deliveries \cup {<<>>}, todo : SUBSET Pages,
             sheet : Sheets \cup {NoSheet}, print : Prints]
DeskRows == [phase : {"away", "assigning"}, page : Pages \cup {<<>>},
             sheet : Sheets \cup {NoSheet}, print : Prints]

\* A transaction that has the lock and has read the other scans.
TxRows == [on : Pages, sheet : Sheets, print : Prints,
           state : {"matched", "duplicate", "superseded"}, supersede : SUBSET Pages]
NoTx == [on |-> <<>>, sheet |-> NoSheet, print |-> 0, state |-> "none", supersede |-> {}]

ScanInit ==
    /\ length \in [Uploads -> 1 .. MaxPages]
    /\ upload = [u \in Uploads |-> "none"]
    /\ submits = [u \in Uploads |-> 0]
    /\ page = [p \in Pages |-> Unnamed("none", FALSE)]
    /\ printed = [s \in Sheets |-> 0]
    /\ waiting = EmptyBag
    /\ dead = {}
    /\ host = [h \in Hosts |-> Idle]
    /\ desk = [d \in Desks |-> Away]
    /\ tx = [x \in Actors |-> NoTx]
    /\ vacated = {}

-----------------------------------------------------------------------------
(* Requests.                                                                *)

CreateUpload(u) ==
    /\ upload[u] = "none"
    /\ upload' = [upload EXCEPT ![u] = "awaiting"]
    /\ UNCHANGED <<length, page, vacated, submits, printed, queueVars, host, desk, tx>>

\* submitUpload, the file being in storage: a submission that is repeated before
\* the worker begins publishes again, a later one does nothing.  The message
\* goes out or does not.
SubmitUpload(u, published) ==
    /\ upload[u] \in {"awaiting", "queued"}
    /\ submits[u] < MaxSubmits
    /\ submits' = [submits EXCEPT ![u] = @ + 1]
    /\ upload' = [upload EXCEPT ![u] = "queued"]
    /\ waiting' = IF published THEN waiting (+) SetToBag({Delivery(u, 1, TRUE)}) ELSE waiting
    /\ UNCHANGED <<length, page, vacated, printed, dead, host, desk, tx>>

\* External: a sheet is printed once more.
PrintSheet(s) ==
    /\ printed[s] < MaxPrints
    /\ printed' = [printed EXCEPT ![s] = @ + 1]
    /\ UNCHANGED <<scanRows, submits, queueVars, host, desk, tx>>

-----------------------------------------------------------------------------
(* The queue.                                                               *)

\* The message of a delivery once its lock is gone: back on the queue, or dead.
Requeued(m, bag) ==
    IF m.held /\ m.try < MaxTries
    THEN bag (+) SetToBag({Delivery(m.work, m.try + 1, TRUE)}) ELSE bag
DeadAfter(m) == IF m.held /\ m.try = MaxTries THEN dead \cup {m.work} ELSE dead

\* The lock on a message runs out while it waits for its turn in a host.
LapseWaiting(m) ==
    /\ m.held
    /\ waiting' = Requeued(m, (waiting (-) SetToBag({m}))
                                  (+) SetToBag({Delivery(m.work, m.try, FALSE)}))
    /\ dead' = DeadAfter(m)
    /\ UNCHANGED <<scanRows, submits, printed, host, desk, tx>>

\* The same for the message a host is handling.
LapseHandled(h) ==
    LET m == host[h].message IN
    /\ host[h].phase # "idle" /\ m.held
    /\ host' = [host EXCEPT ![h].message.held = FALSE]
    /\ waiting' = Requeued(m, waiting)
    /\ dead' = DeadAfter(m)
    /\ UNCHANGED <<scanRows, submits, printed, desk, tx>>

\* defaultMessageTimeToLive.
ExpireMessage(m) ==
    /\ m.held
    /\ waiting' = waiting (-) SetToBag({m})
    /\ dead' = dead \cup {m.work}
    /\ UNCHANGED <<scanRows, submits, printed, host, desk, tx>>

\* oneAtATime: the next message has its turn.
TakeMessage(h, m) ==
    /\ host[h].phase = "idle"
    /\ waiting' = waiting (-) SetToBag({m})
    /\ host' = [host EXCEPT ![h] = [Idle EXCEPT !.phase = "loading", !.message = m]]
    /\ UNCHANGED <<scanRows, submits, printed, dead, desk, tx>>

\* The handler's promise settles; the host turns to the next message.
Release(h) == host' = [host EXCEPT ![h] = Idle]

Advance(h, phase) == host' = [host EXCEPT ![h].phase = phase]

\* Mutant of Thrown: a page that failed for the last time is dropped.
ThrownDropped(h) ==
    LET m == host[h].message IN
    /\ Release(h)
    /\ waiting' = Requeued([m EXCEPT !.held = @ /\ m.try < MaxTries], waiting)
    /\ UNCHANGED dead

\* What is thrown goes to the queue, which delivers again, until the last
\* delivery; that one gives up on the work, and has no other try at that.
Thrown(h) ==
    LET m == host[h].message IN
    IF m.try = MaxTries /\ host[h].phase \notin {"givingUp", "closing"}
    THEN Advance(h, "givingUp") /\ UNCHANGED queueVars
    ELSE Release(h) /\ waiting' = Requeued(m, waiting) /\ dead' = DeadAfter(m)

\* Any call may throw; a transaction is rolled back.
Throw(h) ==
    /\ host[h].phase # "idle"
    /\ Thrown(h)
    /\ tx' = [tx EXCEPT ![h] = NoTx]
    /\ UNCHANGED <<scanRows, submits, printed, desk>>

\* The host stops.
StopHost(h) ==
    /\ host[h].phase # "idle"
    /\ Release(h)
    /\ waiting' = Requeued(host[h].message, waiting)
    /\ dead' = DeadAfter(host[h].message)
    /\ tx' = [tx EXCEPT ![h] = NoTx]
    /\ UNCHANGED <<scanRows, submits, printed, desk>>

-----------------------------------------------------------------------------
(* splitUpload.                                                             *)

Handles(h, phase, works) ==
    host[h].phase = phase /\ host[h].message.work \in works

\* A step of a host that changes no row.
NoRow == UNCHANGED <<scanRows, submits, printed, queueVars, desk, tx>>

LoadUpload(h) ==
    LET u == host[h].message.work IN
    /\ Handles(h, "loading", Uploads)
    /\ IF upload[u] \in {"queued", "splitting", "processing"}
       THEN Advance(h, "marking") ELSE Release(h)
    /\ NoRow

\* setStatus.
MarkSplitting(h) ==
    LET u == host[h].message.work IN
    /\ Handles(h, "marking", Uploads)
    /\ upload' = IF upload[u] \in {"done", "failed"} THEN upload
                 ELSE [upload EXCEPT ![u] = "splitting"]
    /\ Advance(h, "reading")
    /\ UNCHANGED <<length, page, vacated, submits, printed, queueVars, desk, tx>>

\* The original is read and its pages counted; a failure of either is caught,
\* and so is a number of pages that is out of bounds.
ReadOriginal(h, readable) ==
    /\ Handles(h, "reading", Uploads)
    /\ Advance(h, IF readable THEN "writing" ELSE "refusing")
    /\ NoRow

\* failUpload, for a file that cannot be read and by giveUpOnUpload.
FailUpload(h) ==
    LET u == host[h].message.work IN
    /\ Handles(h, "refusing", Uploads) \/ Handles(h, "givingUp", Uploads)
    /\ upload' = [upload EXCEPT ![u] = "failed"]
    /\ Release(h)
    /\ UNCHANGED <<length, page, vacated, submits, printed, queueVars, desk, tx>>

\* The missing pages are inserted; those that are pending will be queued.
WritePages(h) ==
    LET u == host[h].message.work IN
    /\ Handles(h, "writing", Uploads)
    /\ page' = [p \in Pages |->
                   IF p \in PagesOf(u) /\ page[p].state = "none"
                   THEN Unnamed("pending", FALSE) ELSE page[p]]
    /\ upload' = [upload EXCEPT ![u] = "processing"]
    /\ host' = [host EXCEPT ![h].phase = "queueing",
                            ![h].todo = {p \in PagesOf(u) : page[p].state \in {"none", "pending"}}]
    /\ UNCHANGED <<length, vacated, submits, printed, queueVars, desk, tx>>

\* A pending page is queued.  What is published although it seemed to fail is
\* this step and then Throw.
QueuePage(h, p) ==
    /\ Handles(h, "queueing", Uploads)
    /\ p \in host[h].todo
    /\ waiting' = waiting (+) SetToBag({Delivery(p, 1, TRUE)})
    /\ host' = [host EXCEPT ![h].todo = @ \ {p}]
    /\ UNCHANGED <<scanRows, submits, printed, dead, desk, tx>>

QueueingDone(h) ==
    /\ Handles(h, "queueing", Uploads)
    /\ host[h].todo = {}
    /\ Advance(h, "finishing")
    /\ NoRow

\* finishUploadIfDone, and the handler returns.
FinishUpload(h) ==
    LET w == host[h].message.work
        u == IF w \in Uploads THEN w ELSE w[1]
    IN
    /\ host[h].phase \in {"finishing", "closing"}
    /\ upload' = IF /\ upload[u] = "processing"
                    /\ \A p \in PagesOf(u) : page[p].state # "pending"
                 THEN [upload EXCEPT ![u] = "done"] ELSE upload
    /\ Release(h)
    /\ UNCHANGED <<length, page, vacated, submits, printed, queueVars, desk, tx>>

-----------------------------------------------------------------------------
(* recordIdentified.                                                        *)

\* Mutant of SheetFree: the lock is not taken.
SheetFreeUnlocked(s) == TRUE

\* Nobody has the application lock of the sheet.
SheetFree(s) == \A x \in Actors : tx[x].sheet # s

\* The sheet's pages but p.
OtherScans(p, s) == {q \in Pages \ {p} : page[q].state = "matched" /\ page[q].sheet = s}

\* Mutant of DuplicateOutcome: a copy of the same run counts as newer.
DuplicateOutcomeSameRun(others, print) ==
    IF others = {} THEN "matched"
    ELSE IF print = 0 \/ \E q \in others : page[q].print = 0 THEN "duplicate"
    ELSE IF \A q \in others : page[q].print <= print THEN "matched"
    ELSE "superseded"

\* duplicateOutcome.
DuplicateOutcome(others, print) ==
    IF others = {} THEN "matched"
    ELSE IF print = 0 \/ \E q \in others : page[q].print = 0 THEN "duplicate"
    ELSE IF \A q \in others : page[q].print < print THEN "matched"
    ELSE IF \E q \in others : page[q].print > print THEN "superseded"
    ELSE "duplicate"

\* The transaction has the lock and has read the other scans of the sheet.  Who
\* waits too long for it throws: the driver's time for a request (15 seconds, as
\* nothing sets it) ends before @LockTimeout, whose result is not looked at.
LockSheet(x, p, s, print) ==
    LET others == OtherScans(p, s)
        state == DuplicateOutcome(others, print)
    IN
    /\ tx[x] = NoTx
    /\ SheetFree(s)
    /\ tx' = [tx EXCEPT ![x] =
                 [on |-> p, sheet |-> s, print |-> print, state |-> state,
                  supersede |-> IF state = "matched" THEN others ELSE {}]]

\* The page's row: a person's word is written whatever the row says by now, the
\* worker's only on a page that is still pending.
Named(x) ==
    IF x \in Desks \/ page[tx[x].on].state = "pending"
    THEN [state |-> tx[x].state, sheet |-> tx[x].sheet, print |-> tx[x].print,
          person |-> x \in Desks]
    ELSE page[tx[x].on]

\* Sheets that lose their page to another: those of the pages that were matched
\* on a sheet which is not the transaction's.
Left(pages, s) == {page[q].sheet : q \in {q \in pages : page[q].state = "matched"}} \ {s}

\* The rows are written, the transaction ends and the lock is free.
CommitSheet(x) ==
    /\ tx[x] # NoTx
    /\ page' = [p \in Pages |->
                   IF p = tx[x].on THEN Named(x)
                   ELSE IF p \in tx[x].supersede /\ page[p].state = "matched"
                        THEN [page[p] EXCEPT !.state = "superseded"]
                   ELSE page[p]]
    /\ vacated' = vacated \cup Left(tx[x].supersede \cup {tx[x].on}, tx[x].sheet)
    /\ tx' = [tx EXCEPT ![x] = NoTx]

-----------------------------------------------------------------------------
(* processPage.                                                             *)

LoadPage(h) ==
    LET p == host[h].message.work IN
    /\ Handles(h, "loading", Pages)
    /\ IF page[p].state = "pending" THEN Advance(h, "analysing") ELSE Release(h)
    /\ NoRow

\* analysePage: what the image says, and which of the runs so far.
AnalysePage(h, s, print) ==
    /\ Handles(h, "analysing", Pages)
    /\ print \in 0 .. printed[s]
    /\ host' = [host EXCEPT ![h].phase = "identified", ![h].sheet = s, ![h].print = print]
    /\ NoRow

FindNoSheet(h, as) ==
    /\ Handles(h, "analysing", Pages)
    /\ Advance(h, as)
    /\ NoRow

\* updatePending.
SetAside(p, state) ==
    page' = IF page[p].state = "pending" THEN [page EXCEPT ![p] = Unnamed(state, FALSE)]
            ELSE page

UpdatePending(h) ==
    /\ Handles(h, "blank", Pages) \/ Handles(h, "unreadable", Pages)
    /\ SetAside(host[h].message.work, host[h].phase)
    /\ Advance(h, "finishing")
    /\ UNCHANGED <<length, upload, vacated, submits, printed, queueVars, desk, tx>>

BeginRecording(h) ==
    /\ Handles(h, "identified", Pages)
    /\ LockSheet(h, host[h].message.work, host[h].sheet, host[h].print)
    /\ UNCHANGED <<scanRows, submits, printed, queueVars, host, desk>>

CommitPage(h) ==
    /\ Handles(h, "identified", Pages)
    /\ CommitSheet(h)
    /\ Advance(h, "finishing")
    /\ UNCHANGED <<length, upload, submits, printed, queueVars, desk>>

\* giveUpOnPage: the page is left to a person.
GiveUpOnPage(h) ==
    /\ Handles(h, "givingUp", Pages)
    /\ SetAside(host[h].message.work, "unreadable")
    /\ Advance(h, "closing")
    /\ UNCHANGED <<length, upload, vacated, submits, printed, queueVars, desk, tx>>

-----------------------------------------------------------------------------
(* assignPage.                                                              *)

\* A person takes a page that no code could read, or that a person named
\* before, and says which sheet it is of; the run is known of a sheet that was
\* printed once.  NoSheet: it is of none.
TakePage(d, p, s) ==
    /\ desk[d].phase = "away"
    /\ page[p].state = "unreadable" \/ page[p].person
    /\ desk' = [desk EXCEPT ![d] =
                   [phase |-> "assigning", page |-> p, sheet |-> s,
                    print |-> IF s # NoSheet /\ printed[s] = 1 THEN 1 ELSE 0]]
    /\ UNCHANGED <<scanRows, submits, printed, queueVars, host, tx>>

\* The actions ignore and blank.
DismissPage(d, as) ==
    LET p == desk[d].page IN
    /\ desk[d].phase = "assigning" /\ desk[d].sheet = NoSheet
    /\ page' = [page EXCEPT ![p] = Unnamed(as, TRUE)]
    /\ vacated' = vacated \cup Left({p}, NoSheet)
    /\ desk' = [desk EXCEPT ![d] = Away]
    /\ UNCHANGED <<length, upload, submits, printed, queueVars, host, tx>>

BeginAssigning(d) ==
    /\ desk[d].phase = "assigning" /\ desk[d].sheet # NoSheet
    /\ LockSheet(d, desk[d].page, desk[d].sheet, desk[d].print)
    /\ UNCHANGED <<scanRows, submits, printed, queueVars, host, desk>>

CommitAssignment(d) ==
    /\ CommitSheet(d)
    /\ desk' = [desk EXCEPT ![d] = Away]
    /\ UNCHANGED <<length, upload, submits, printed, queueVars, host>>

\* The request fails.
LeaveDesk(d) ==
    /\ desk[d].phase # "away"
    /\ desk' = [desk EXCEPT ![d] = Away]
    /\ tx' = [tx EXCEPT ![d] = NoTx]
    /\ UNCHANGED <<scanRows, submits, printed, queueVars, host>>

-----------------------------------------------------------------------------
\* What a host does next with its message.
HostStep(h) ==
    \/ LoadUpload(h) \/ MarkSplitting(h) \/ WritePages(h) \/ QueueingDone(h)
    \/ FailUpload(h) \/ FinishUpload(h)
    \/ \E readable \in BOOLEAN : ReadOriginal(h, readable)
    \/ \E p \in Pages : QueuePage(h, p)
    \/ LoadPage(h) \/ UpdatePending(h) \/ BeginRecording(h) \/ CommitPage(h)
    \/ GiveUpOnPage(h)
    \/ \E s \in Sheets, print \in Prints : AnalysePage(h, s, print)
    \/ \E as \in {"blank", "unreadable"} : FindNoSheet(h, as)
    \/ Throw(h)

DeskStep(d) ==
    \/ \E p \in Pages, s \in Sheets \cup {NoSheet} : TakePage(d, p, s)
    \/ \E as \in {"ignored", "blank"} : DismissPage(d, as)
    \/ BeginAssigning(d) \/ CommitAssignment(d) \/ LeaveDesk(d)

ScanNext ==
    \/ \E u \in Uploads :
          CreateUpload(u) \/ \E published \in BOOLEAN : SubmitUpload(u, published)
    \/ \E s \in Sheets : PrintSheet(s)
    \/ \E m \in BagToSet(waiting) :
          \/ LapseWaiting(m) \/ ExpireMessage(m)
          \/ \E h \in Hosts : TakeMessage(h, m)
    \/ \E h \in Hosts : HostStep(h) \/ LapseHandled(h) \/ StopHost(h)
    \/ \E d \in Desks : DeskStep(d)

ScanSpec == ScanInit /\ [][ScanNext]_scanVars

\* A host takes what is waiting, and each of its calls returns or throws; a
\* person's request ends.
ScanFairness ==
    /\ \A h \in Hosts :
          /\ WF_scanVars(\E m \in BagToSet(waiting) : TakeMessage(h, m))
          /\ WF_scanVars(HostStep(h))
    /\ \A d \in Desks :
          WF_scanVars(CommitAssignment(d) \/ LeaveDesk(d))

FairScanSpec == ScanSpec /\ ScanFairness

-----------------------------------------------------------------------------
(* Properties.                                                              *)

\* Every variable has its type; a matched page has a sheet, a host that has
\* recognised one has it to record, and a person at work has a page.
ScanTypeOK ==
    /\ length \in [Uploads -> 1 .. MaxPages]
    /\ upload \in [Uploads -> UploadStates]
    /\ submits \in [Uploads -> 0 .. MaxSubmits]
    /\ page \in [Pages -> PageRows]
    /\ \A p \in Pages : page[p].state = "matched" => page[p].sheet \in Sheets
    /\ printed \in [Sheets -> Prints]
    /\ BagToSet(waiting) \subseteq Deliveries
    /\ dead \subseteq Work
    /\ host \in [Hosts -> HostRows]
    /\ \A h \in Hosts :
          /\ host[h].phase # "idle" => host[h].message \in Deliveries
          /\ host[h].phase = "identified" => host[h].sheet \in Sheets
    /\ desk \in [Desks -> DeskRows]
    /\ \A d \in Desks : desk[d].phase # "away" => desk[d].page \in Pages
    /\ tx \in [Actors -> TxRows \cup {NoTx}]
    /\ vacated \subseteq Sheets

\* "two copies processed at once cannot both become the sheet's page"
\* (recordIdentified), nor can the worker's and a person's.
OneScanPerSheet ==
    \A p, q \in Pages :
        /\ page[p].state = "matched" /\ page[q].state = "matched"
        /\ page[p].sheet = page[q].sheet
        => p = q

\* "It is kept either way" (duplicateOutcome): a copy is set aside for another
\* one only, which stands for the sheet, and as superseded only for one that
\* was printed later - unless a person has named that one otherwise since.
SetAsideForAnother ==
    \A p \in Pages :
        page[p].state \in {"duplicate", "superseded"} /\ page[p].sheet \notin vacated =>
            \E q \in Pages :
                /\ page[q].state = "matched" /\ page[q].sheet = page[p].sheet
                /\ page[p].state = "superseded" => page[q].print > page[p].print

\* "the page goes to a person rather than staying pending for ever"
\* (giveUpOnPage): unless its upload failed, or a host stopped or a lock ran
\* out once too often, a pending page is settled.
PageIsSettled ==
    \A p \in Pages :
        page[p].state = "pending" ~>
            \/ page[p].state # "pending"
            \/ upload[p[1]] = "failed"
            \/ p \in dead \/ p[1] \in dead

\* "neither stays pending" (ridershipScanWorker): an upload whose pages are
\* being made or read is done or failed in the end, unless a message of it was
\* dead-lettered.
UploadIsSettled ==
    \A u \in Uploads :
        upload[u] \in {"splitting", "processing"} ~>
            upload[u] \in {"done", "failed"} \/ dead \cap ({u} \cup PagesOf(u)) # {}

=============================================================================
