--------------------------- MODULE Subscriptions ---------------------------
(***************************************************************************)
(* The double opt-in state machine of the rider alert service: the         *)
(* Subscribers and SubscriberConfirmations tables and every operation of   *)
(* functions-restapi that writes them.                                     *)
(*                                                                         *)
(* One action is one committed database transaction, with one exception.   *)
(* A transaction that confirms a token reads the token's row (with an      *)
(* update lock) together with the subscriber's status (WITHOUT a lock),    *)
(* decides, and only then writes.  It is split into a read                 *)
(* (PresentEmailLink, PresentSmsCode) and a commit (Confirm), so that other*)
(* transactions run in between; the locks it holds meanwhile are in held.  *)
(*                                                                         *)
(* Wall-clock time is abstracted to two marks on the creation order of the *)
(* tokens: those issued longer ago than the resend cooldown, and those     *)
(* issued longer ago than their time to live.                              *)
(***************************************************************************)
EXTENDS Integers

CONSTANTS
    Subs,          \* ids that a row of Subscribers can get
    Phones,        \* phone numbers, in E.164
    Emails,        \* email addresses
    Codes,         \* the six-digit codes
    MaxConfs,      \* bound: tokens issued in one behaviour
    MaxAged,       \* bound: tokens that grow older than the cooldown
    MaxAttempts,   \* MAX_CONFIRM_ATTEMPTS (5 in the code)
    MaxMergeHops,  \* MAX_MERGE_HOPS (10 in the code)
    None           \* SQL NULL

ASSUME BoundsAssumption ==
    MaxConfs \in Nat /\ MaxAged \in Nat /\ MaxAttempts \in Nat \ {0} /\ MaxMergeHops \in Nat

ASSUME NoneAssumption ==
    /\ None \notin Subs \cup Phones \cup Emails \cup Codes
    /\ None \notin {"pending_confirmation", "confirmed", "unsubscribed"}

VARIABLES
    status,      \* Subscribers.status, or "absent" while no row has this id
    contact,     \* phone_number and email, by channel
    chan,        \* sms_status and email_status, by channel
    mergedInto,  \* merged_into
    prefs,       \* categories, routes and zones: whose choices the row carries
    linked,      \* the rider holds a manage link with the row's current key
    confs,       \* SubscriberConfirmations, numbered in order of created_at
    issued,      \* how many of them exist
    cooled,      \* confs[1..cooled] are older than RESEND_COOLDOWN_MS
    expired,     \* confs[1..expired] are past expires_at
    held,        \* rows locked by the transaction confirming c ({}: none is)
    stopMark     \* history: tokens issued before a contact was last stopped

rows == <<status, contact, chan, mergedInto, prefs, linked>>
clock == <<issued, cooled, expired>>
vars == <<status, contact, chan, mergedInto, prefs, linked, confs,
          issued, cooled, expired, held, stopMark>>

Channels == {"sms", "email"}
Other(ch) == IF ch = "sms" THEN "email" ELSE "sms"
Contacts(ch) == IF ch = "sms" THEN Phones ELSE Emails
ConfIds == 1 .. MaxConfs

Statuses == {"absent", "pending_confirmation", "confirmed", "opted_out", "merged"}
ChannelStatuses == {None, "pending_confirmation", "confirmed", "unsubscribed"}
Confirmations ==
    [sub : Subs \cup {None},
     channel : Channels,
     to : Phones \cup Emails \cup {None},
     token : Codes \cup {None},
     attempts : 0 .. MaxAttempts,
     state : {"unissued", "live", "superseded", "confirmed"}]

-----------------------------------------------------------------------------
(* The tables as the queries see them.                                      *)

\* A row that no merge has retired.
Unmerged(r) == status[r] # "absent" /\ mergedInto[r] = None

\* Neither confirmed nor superseded.
Live(c) == confs[c].state = "live"

\* The live tokens of a record, and of one channel of it.
LiveOf(r) == {c \in ConfIds : Live(c) /\ confs[c].sub = r}
LiveOn(r, ch) == {c \in LiveOf(r) : confs[c].channel = ch}

\* Live tokens of a channel whose record holds contact x there (the JOIN that
\* confirmSms and optOut make).
LiveFor(ch, x) ==
    {c \in ConfIds : /\ Live(c)
                     /\ confs[c].channel = ch
                     /\ contact[confs[c].sub][ch] = x}

\* Mutant of Unlocked: the lookup of a token without WITH (UPDLOCK, HOLDLOCK).
UnlockedWithoutHint(S) == TRUE

\* No confirming transaction holds one of these rows.
Unlocked(S) == \A c \in ConfIds : held[c] \cap S = {}

\* classifyConfirmation answers "eligible".
Eligible(c) ==
    /\ Live(c)
    /\ status[confs[c].sub] # "opted_out"
    /\ c > expired
    /\ confs[c].attempts < MaxAttempts

\* Mutant of Superseding: issue without superseding what is still live.
SupersedingNothing(S) == confs

\* The confirmation rows once those in S have their superseded_at.
Superseding(S) ==
    [c \in ConfIds |-> IF c \in S THEN [confs[c] EXCEPT !.state = "superseded"]
                                  ELSE confs[c]]

\* Mutant of Resolved: the survivor is looked up once.
ResolvedOnce(k) ==
    LET v == IF mergedInto[k] = None THEN k ELSE mergedInto[k]
    IN  IF mergedInto[v] = None THEN v ELSE None

\* The record a manage key leads to: merged_into followed a bounded number of
\* times, None when the bound is not enough (or there is a cycle).
Resolved(k) ==
    LET at[n \in 0 .. MaxMergeHops] ==
            IF n = 0 THEN k
            ELSE IF mergedInto[at[n - 1]] = None THEN at[n - 1]
            ELSE mergedInto[at[n - 1]]
    IN  IF mergedInto[at[MaxMergeHops]] = None THEN at[MaxMergeHops] ELSE None

-----------------------------------------------------------------------------
NoConfirmation ==
    [sub |-> None, channel |-> "sms", to |-> None, token |-> None,
     attempts |-> 0, state |-> "unissued"]

Init ==
    /\ status = [r \in Subs |-> "absent"]
    /\ contact = [r \in Subs |-> [ch \in Channels |-> None]]
    /\ chan = [r \in Subs |-> [ch \in Channels |-> None]]
    /\ mergedInto = [r \in Subs |-> None]
    /\ prefs = [r \in Subs |-> {}]
    /\ linked = [r \in Subs |-> FALSE]
    /\ confs = [c \in ConfIds |-> NoConfirmation]
    /\ issued = 0
    /\ cooled = 0
    /\ expired = 0
    /\ held = [c \in ConfIds |-> {}]
    /\ stopMark = [ch \in Channels |-> [x \in Phones \cup Emails |-> 0]]

-----------------------------------------------------------------------------
(* Issuing tokens.                                                          *)

\* UX_SubConfirm_Channel_Token: an SMS code is redrawn until no live row has
\* it.  An email token is 24 random bytes: the row's own identity.
Drawable(ch) ==
    IF ch = "email" THEN {None}
    ELSE {k \in Codes : \A c \in ConfIds :
                            Live(c) /\ confs[c].channel = "sms" => confs[c].token # k}

NewConfirmation(r, ch, x, token) ==
    [sub |-> r, channel |-> ch, to |-> x, token |-> token,
     attempts |-> 0, state |-> "live"]

\* POST /subscribers: the row and one token for each contact given, the phone
\* number's first.  Its prefs are its own choice.
Subscribe(r, given, code) ==
    LET emailId == IF given["sms"] = None THEN issued + 1 ELSE issued + 2
        last == IF given["email"] = None THEN issued + 1 ELSE emailId
    IN
    /\ status[r] = "absent"
    /\ \E ch \in Channels : given[ch] # None
    /\ last <= MaxConfs
    /\ code \in IF given["sms"] = None THEN {None} ELSE Drawable("sms")
    /\ status' = [status EXCEPT ![r] = "pending_confirmation"]
    /\ contact' = [contact EXCEPT ![r] = given]
    /\ chan' = [chan EXCEPT ![r] =
                   [ch \in Channels |-> IF given[ch] = None THEN None
                                        ELSE "pending_confirmation"]]
    /\ prefs' = [prefs EXCEPT ![r] = {r}]
    /\ confs' = [c \in ConfIds |->
                   IF given["sms"] # None /\ c = issued + 1
                     THEN NewConfirmation(r, "sms", given["sms"], code)
                   ELSE IF given["email"] # None /\ c = emailId
                     THEN NewConfirmation(r, "email", given["email"], None)
                   ELSE confs[c]]
    /\ issued' = last
    /\ UNCHANGED <<mergedInto, linked, cooled, expired, held, stopMark>>

\* When the last token of r's channel was created (0: there is none).
LastIssued(r, ch) ==
    LET ids == {c \in ConfIds : confs[c].sub = r /\ confs[c].channel = ch}
    IN  IF ids = {} THEN 0 ELSE CHOOSE c \in ids : \A d \in ids : d <= c

\* Mutant of Waiting: "not confirmed yet" taken for "pending".
WaitingOrStopped(ch, x) ==
    {w \in Subs : Unmerged(w) /\ contact[w][ch] = x /\ chan[w][ch] # "confirmed"}

\* The live records that await the confirmation of contact x.
Waiting(ch, x) ==
    {w \in Subs : /\ Unmerged(w)
                  /\ contact[w][ch] = x
                  /\ chan[w][ch] = "pending_confirmation"}

\* POST /subscribers/resend: supersede, then issue, for the waiting record
\* whose token is the newest - unless that is too recent.
ResendConfirmation(ch, x, r, code) ==
    LET spent == Superseding(LiveOn(r, ch))
    IN
    /\ r \in Waiting(ch, x)
    /\ \A w \in Waiting(ch, x) : LastIssued(w, ch) <= LastIssued(r, ch)
    /\ LastIssued(r, ch) <= cooled
    /\ issued < MaxConfs
    /\ Unlocked(LiveOn(r, ch))
    /\ code \in IF ch = "email" THEN {None}
                ELSE Drawable("sms") \cup {confs[c].token : c \in LiveOn(r, "sms")}
    /\ confs' = [spent EXCEPT ![issued + 1] = NewConfirmation(r, ch, x, code)]
    /\ issued' = issued + 1
    /\ UNCHANGED <<rows, cooled, expired, held, stopMark>>

-----------------------------------------------------------------------------
(* Confirming.                                                              *)

\* GET /subscribers/confirm-email, up to the decision.  UPDLOCK is on the
\* token's row alone; the subscriber's status is read and let go.
PresentEmailLink(c) ==
    /\ confs[c].channel = "email"
    /\ Eligible(c)
    /\ Unlocked({c})
    /\ held' = [held EXCEPT ![c] = {c}]
    /\ UNCHANGED <<rows, clock, confs, stopMark>>

\* A code texted from, or typed for, number x, up to the decision: the live
\* rows for the number are locked, and the code names one of them.
PresentSmsCode(x, c) ==
    /\ c \in LiveFor("sms", x)
    /\ Eligible(c)
    /\ Unlocked(LiveFor("sms", x))
    /\ held' = [held EXCEPT ![c] = LiveFor("sms", x)]
    /\ UNCHANGED <<rows, clock, confs, stopMark>>

\* Mutant of Guessed: a guess is counted against the newest code alone.
GuessedNewest(x) ==
    {c \in LiveFor("sms", x) : Eligible(c) /\ \A d \in LiveFor("sms", x) : d <= c}

\* The rows that a wrong code from number x is counted against.
Guessed(x) == {c \in LiveFor("sms", x) : Eligible(c)}

\* A code that names no live row of the number.  One that was sent to the
\* number earlier costs nothing; any other is counted against every row that
\* could still accept a code.
WrongSmsCode(x, code) ==
    LET live == LiveFor("sms", x)
        sentBefore == \E c \in ConfIds :
                        /\ confs[c].state \in {"superseded", "confirmed"}
                        /\ confs[c].channel = "sms"
                        /\ contact[confs[c].sub]["sms"] = x
                        /\ confs[c].token = code
    IN
    /\ \A c \in live : confs[c].token # code
    /\ Guessed(x) # {}
    /\ ~sentBefore
    /\ Unlocked(live)
    /\ confs' = [c \in ConfIds |->
                   IF c \in Guessed(x) THEN [confs[c] EXCEPT !.attempts = @ + 1]
                                     ELSE confs[c]]
    /\ UNCHANGED <<rows, clock, held, stopMark>>

\* Mutant of Duplicates: only records that are still waiting are looked up.
DuplicatesPending(r, ch) ==
    {o \in Subs \ {r} : /\ Unmerged(o) /\ status[o] = "pending_confirmation"
                        /\ contact[o][ch] = contact[r][ch]}

\* Every other live record with the contact that r has on channel ch.
Duplicates(r, ch) ==
    {o \in Subs \ {r} : Unmerged(o) /\ contact[o][ch] = contact[r][ch]}

\* Those of them that hold the contact already proven.
Established(r, ch) ==
    {o \in Duplicates(r, ch) : chan[o][ch] = "confirmed" /\ status[o] # "opted_out"}

\* Those that nobody ever proved on any channel: they are retired.
NeverProven(r, ch) ==
    {o \in Duplicates(r, ch) : status[o] = "pending_confirmation"}

\* Mutant of Takes: only preferences travel.
TakesNothing(v, r) == {}

\* The empty slots of v that r has a contact for.
Takes(v, r) == {h \in Channels : contact[v][h] = None /\ contact[r][h] # None}

\* Mutant of MergedPrefs: the union over every record that is retired.
MergedPrefsOfAll(v, r, retired) ==
    prefs[v] \cup prefs[r] \cup UNION {prefs[o] : o \in retired}

\* The survivor's preferences: the union with those of the record in hand, and
\* not with those of the records retired along with it.
MergedPrefs(v, r, retired) == prefs[v] \cup prefs[r]

\* Mutant of Voided: retiring a record leaves its tokens alone.
VoidedOnKept(c, kept, retired) ==
    {d \in ConfIds \ {c} : /\ Live(d) /\ confs[d].sub \in kept
                           /\ confs[d].channel = confs[c].channel}

\* Live tokens lost when token c confirms and `retired` records go: all of the
\* retired records' own, and those for this channel of the records that stay.
Voided(c, kept, retired) ==
    {d \in ConfIds \ {c} :
        /\ Live(d)
        /\ \/ confs[d].sub \in retired
           \/ confs[d].sub \in kept /\ confs[d].channel = confs[c].channel}

\* The confirmation rows after token c confirms and the merge is done.
Confirmed(c, moved, voided, v) ==
    [d \in ConfIds |->
        IF d = c THEN [confs[d] EXCEPT !.state = "confirmed"]
        ELSE IF d \in moved THEN [confs[d] EXCEPT !.sub = v]
        ELSE IF d \in voided THEN [confs[d] EXCEPT !.state = "superseded"]
        ELSE confs[d]]

\* markConfirmed, and mergeOnConfirm where no duplicate holds the contact
\* proven: the record in hand survives, and absorbs those never proven.
ConfirmAndKeep(c) ==
    LET r == confs[c].sub
        ch == confs[c].channel
        retired == NeverProven(r, ch)
        voided == Voided(c, Duplicates(r, ch) \ retired, retired)
    IN
    /\ held[c] # {}
    /\ Established(r, ch) = {}
    /\ \A d \in ConfIds \ {c} : held[d] \cap voided = {}
    /\ chan' = [chan EXCEPT ![r][ch] = "confirmed"]
    /\ status' = [o \in Subs |-> IF o = r THEN "confirmed"
                                 ELSE IF o \in retired THEN "merged"
                                 ELSE status[o]]
    /\ mergedInto' = [o \in Subs |-> IF o \in retired THEN r ELSE mergedInto[o]]
    /\ confs' = Confirmed(c, {}, voided, r)
    /\ held' = [held EXCEPT ![c] = {}]
    /\ UNCHANGED <<contact, prefs, linked, clock, stopMark>>

\* markConfirmed, and mergeOnConfirm where v holds the contact proven: the
\* record in hand is folded into v, which takes its preferences and the
\* contacts v lacks, with their tokens.
ConfirmAndFold(c, v) ==
    LET r == confs[c].sub
        ch == confs[c].channel
        takes == Takes(v, r)
        retired == NeverProven(r, ch) \ {v}
        moved == {d \in LiveOf(r) \ {c} : confs[d].channel \in takes}
        voided == Voided(c, Duplicates(r, ch) \ (retired \cup {v}),
                         retired \cup {r}) \ moved
    IN
    /\ held[c] # {}
    /\ v \in Established(r, ch)
    /\ \A d \in ConfIds \ {c} : held[d] \cap (moved \cup voided) = {}
    /\ contact' = [contact EXCEPT ![v] =
                      [h \in Channels |-> IF h \in takes THEN contact[r][h] ELSE @[h]]]
    /\ chan' = [chan EXCEPT ![v] =
                      [h \in Channels |-> IF h \in takes THEN chan[r][h] ELSE @[h]],
                            ![r][ch] = "confirmed"]
    /\ prefs' = [prefs EXCEPT ![v] = MergedPrefs(v, r, retired)]
    /\ status' = [o \in Subs |-> IF o \in retired \cup {r} THEN "merged" ELSE status[o]]
    /\ mergedInto' = [o \in Subs |-> IF o \in retired \cup {r} THEN v ELSE mergedInto[o]]
    /\ confs' = Confirmed(c, moved, voided, v)
    /\ held' = [held EXCEPT ![c] = {}]
    /\ UNCHANGED <<linked, clock, stopMark>>

\* The confirming transaction is rolled back: the database chose it as the
\* victim of a deadlock, or the host stopped.
AbandonConfirm(c) ==
    /\ held[c] # {}
    /\ held' = [held EXCEPT ![c] = {}]
    /\ UNCHANGED <<rows, clock, confs, stopMark>>

-----------------------------------------------------------------------------
(* Stopping.                                                                *)

\* optOut: STOP from a number, or the one-click header of an alert that was
\* mailed to an address.  It takes every live record with the contact.
OptOut(ch, x) ==
    LET hit == {r \in Subs : /\ Unmerged(r)
                             /\ contact[r][ch] = x
                             /\ chan[r][ch] # "unsubscribed"}
    IN
    /\ ch = "email" =>
         \E c \in ConfIds : /\ confs[c].state = "confirmed"
                            /\ contact[confs[c].sub]["email"] = x
    /\ Unlocked(LiveFor(ch, x))
    /\ chan' = [r \in Subs |->
                  IF r \in hit THEN [chan[r] EXCEPT ![ch] = "unsubscribed"] ELSE chan[r]]
    /\ status' = [r \in Subs |->
                    IF r \in hit /\ chan[r][Other(ch)] \in {None, "unsubscribed"}
                    THEN "opted_out" ELSE status[r]]
    /\ confs' = Superseding(LiveFor(ch, x))
    /\ stopMark' = [stopMark EXCEPT ![ch][x] = issued]
    /\ UNCHANGED <<contact, mergedInto, prefs, linked, clock, held>>

\* POST /subscribers/manage-link: the key goes to a confirmed channel of a
\* confirmed record.  The footer of an alert email carries the same link to
\* the same records, so the two-minute limit on asking again is left out.
RequestManageLink(ch, x, r) ==
    /\ Unmerged(r)
    /\ contact[r][ch] = x
    /\ chan[r][ch] = "confirmed"
    /\ status[r] = "confirmed"
    /\ linked' = [linked EXCEPT ![r] = TRUE]
    /\ UNCHANGED <<status, contact, chan, mergedInto, prefs, clock, confs, held, stopMark>>

\* PUT /subscribers/preferences with the key of record k.  A channel not in
\* keep is stopped; the confirmation rows are not touched.
WritePreferences(k, keep) ==
    LET r == Resolved(k)
        chan1 == [h \in Channels |->
                    IF chan[r][h] = None \/ h \in keep THEN chan[r][h] ELSE "unsubscribed"]
    IN
    /\ linked[k]
    /\ r # None
    /\ status[r] # "opted_out"
    /\ \A h \in keep : chan[r][h] # "unsubscribed"
    /\ chan' = [chan EXCEPT ![r] = chan1]
    /\ prefs' = [prefs EXCEPT ![r] = {r}]
    /\ status' = [status EXCEPT ![r] =
                    IF \A h \in Channels : chan1[h] \in {None, "unsubscribed"}
                    THEN "opted_out" ELSE @]
    /\ UNCHANGED <<contact, mergedInto, linked, clock, confs, held, stopMark>>

\* POST /subscribers/unsubscribe with the key of record k: every channel
\* stops, every token is void, and the key is replaced by one nobody was sent.
UnsubscribeAll(k) ==
    LET r == Resolved(k)
    IN
    /\ linked[k]
    /\ r # None
    /\ Unlocked(LiveOf(r))
    /\ chan' = [chan EXCEPT ![r] =
                   [h \in Channels |-> IF @[h] = None THEN None ELSE "unsubscribed"]]
    /\ status' = [status EXCEPT ![r] = "opted_out"]
    /\ linked' = [linked EXCEPT ![r] = FALSE]
    /\ confs' = Superseding(LiveOf(r))
    /\ UNCHANGED <<contact, mergedInto, prefs, clock, held, stopMark>>

-----------------------------------------------------------------------------
(* Time.                                                                    *)

\* RESEND_COOLDOWN_MS after the newest token was issued.
CooldownPasses ==
    /\ cooled < issued
    /\ issued <= MaxAged
    /\ cooled' = issued
    /\ UNCHANGED <<rows, issued, expired, confs, held, stopMark>>

\* CONFIRM_TTL_HOURS after the oldest unexpired token was issued.
TokenExpires ==
    /\ expired < cooled
    /\ expired' = expired + 1
    /\ UNCHANGED <<rows, issued, cooled, confs, held, stopMark>>

-----------------------------------------------------------------------------
GivenContacts ==
    {[ch \in Channels |-> IF ch = "sms" THEN p ELSE e] :
        p \in Phones \cup {None}, e \in Emails \cup {None}}

Next ==
    \/ \E r \in Subs, given \in GivenContacts, code \in Codes \cup {None} :
          Subscribe(r, given, code)
    \/ \E ch \in Channels : \E x \in Contacts(ch), r \in Subs, code \in Codes \cup {None} :
          ResendConfirmation(ch, x, r, code)
    \/ \E c \in ConfIds : PresentEmailLink(c)
    \/ \E x \in Phones, c \in ConfIds : PresentSmsCode(x, c)
    \/ \E x \in Phones, code \in Codes : WrongSmsCode(x, code)
    \/ \E c \in ConfIds : ConfirmAndKeep(c)
    \/ \E c \in ConfIds, v \in Subs : ConfirmAndFold(c, v)
    \/ \E c \in ConfIds : AbandonConfirm(c)
    \/ \E ch \in Channels : \E x \in Contacts(ch) : OptOut(ch, x)
    \/ \E ch \in Channels : \E x \in Contacts(ch), r \in Subs : RequestManageLink(ch, x, r)
    \/ \E k \in Subs, keep \in SUBSET Channels : WritePreferences(k, keep)
    \/ \E k \in Subs : UnsubscribeAll(k)
    \/ CooldownPasses
    \/ TokenExpires

Spec == Init /\ [][Next]_vars

-----------------------------------------------------------------------------
(* Safety.                                                                  *)

TypeOK ==
    /\ status \in [Subs -> Statuses]
    /\ contact \in [Subs -> [Channels -> Phones \cup Emails \cup {None}]]
    /\ \A r \in Subs : \A ch \in Channels : contact[r][ch] \in Contacts(ch) \cup {None}
    /\ chan \in [Subs -> [Channels -> ChannelStatuses]]
    /\ mergedInto \in [Subs -> Subs \cup {None}]
    /\ prefs \in [Subs -> SUBSET Subs]
    /\ linked \in [Subs -> BOOLEAN]
    /\ confs \in [ConfIds -> Confirmations]
    /\ issued \in 0 .. MaxConfs
    /\ cooled \in 0 .. issued
    /\ expired \in 0 .. cooled
    /\ held \in [ConfIds -> SUBSET ConfIds]
    /\ stopMark \in [Channels -> [Phones \cup Emails -> 0 .. issued]]

\* A contact is confirmed on one live record at most, so that nobody is sent
\* an alert twice: what mergeOnConfirm is for, whatever order the duplicates'
\* tokens are presented in.
OneOwner ==
    \A r, o \in Subs : \A ch \in Channels :
        /\ Unmerged(r) /\ chan[r][ch] = "confirmed"
        /\ Unmerged(o) /\ chan[o][ch] = "confirmed"
        /\ contact[r][ch] = contact[o][ch]
        => r = o

\* A live token is on an unmerged record that still holds the contact it was
\* sent to: presenting it confirms that contact, not another one, however
\* often the record was folded into others.
LiveTokenIsAddressed ==
    \A c \in ConfIds : Live(c) =>
        /\ Unmerged(confs[c].sub)
        /\ contact[confs[c].sub][confs[c].channel] = confs[c].to

\* After a contact was stopped by optOut, alerts go to it again only once a
\* token issued later was confirmed: neither an older token, nor a duplicate
\* record, nor a transaction in progress, nor a merge brings it back.
StopIsFinal ==
    \A r \in Subs : \A ch \in Channels :
        Unmerged(r) /\ chan[r][ch] = "confirmed" =>
            \E c \in ConfIds : /\ confs[c].state = "confirmed"
                               /\ confs[c].channel = ch
                               /\ confs[c].to = contact[r][ch]
                               /\ c > stopMark[ch][contact[r][ch]]

\* A record has one live token per channel at most, and none for a channel
\* that is already confirmed: two would double a guesser's tries, and resend
\* and foldInto both move tokens.
OneLiveToken ==
    \A c, d \in ConfIds :
        Live(c) =>
            /\ chan[confs[c].sub][confs[c].channel] # "confirmed"
            /\ Live(d) /\ confs[d].sub = confs[c].sub
                       /\ confs[d].channel = confs[c].channel => d = c

\* "keeps every code that can still accept at the same five tries it would
\* have alone": of two live codes for a number, the older has seen every guess
\* the newer has, so that signing up again buys no extra try against it.
EveryGuessCounts ==
    \A c, d \in ConfIds :
        /\ Live(c) /\ Live(d) /\ expired < c /\ c < d
        /\ confs[c].channel = "sms" /\ confs[d].channel = "sms"
        /\ confs[c].to = confs[d].to
        /\ chan[confs[c].sub]["sms"] = "pending_confirmation"
        => confs[c].attempts >= confs[d].attempts

\* A record carries no preferences but its own and those of signups that
\* themselves confirmed a contact: a stranger cannot widen a rider's alerts by
\* signing up with the rider's number and never proving it.
FoldedPreferencesWereProven ==
    \A r \in Subs : \A p \in prefs[r] \ {r} :
        \E c \in ConfIds : confs[c].state = "confirmed" /\ confs[c].sub = p

\* Every manage link ever mailed still leads to a live record: merging makes
\* no cycle, and its chains are as short as the bound resolveManageKey walks.
EveryKeyResolves ==
    \A k \in Subs : Resolved(k) # None

-----------------------------------------------------------------------------
(* What OneOwner and StopIsFinal rest on (see Subscriptions_proofs).        *)

\* A confirmed channel has a contact and is not on an opted-out record.
RowsOK ==
    \A r \in Subs :
        /\ status[r] = "absent" => mergedInto[r] = None
        /\ \A ch \in Channels : chan[r][ch] = "confirmed" =>
              contact[r][ch] # None /\ status[r] # "opted_out"

\* A live token was sent to some contact, after that contact's last stop.
TokensOK ==
    \A c \in ConfIds :
        /\ confs[c].state = "unissued" <=> c > issued
        /\ Live(c) => /\ confs[c].sub \in Subs
                      /\ confs[c].to \in Contacts(confs[c].channel)
                      /\ c > stopMark[confs[c].channel][confs[c].to]

\* Only live tokens are locked, each by one transaction, which also holds its
\* own: nobody else spends, voids or moves a token between read and commit.
LocksOK ==
    \A c \in ConfIds :
        /\ held[c] # {} => c \in held[c]
        /\ \A d \in held[c] : Live(d)
        /\ \A d \in ConfIds : d # c => held[c] \cap held[d] = {}

\* The inductive invariant.
IInv ==
    /\ TypeOK
    /\ RowsOK
    /\ TokensOK
    /\ LocksOK
    /\ LiveTokenIsAddressed
    /\ OneOwner
    /\ StopIsFinal

\* What a record's status and its contacts say of its channels: an opted-out
\* record has none to confirm, a pending one none confirmed, and a channel has a
\* status where the record has a contact.
ChannelsOK ==
    \A r \in Subs : \A h \in Channels :
        /\ status[r] = "absent" => chan[r][h] = None
        /\ status[r] = "pending_confirmation" => chan[r][h] # "confirmed"
        /\ status[r] = "opted_out" => chan[r][h] \in {None, "unsubscribed"}
        /\ chan[r][h] = None <=> contact[r][h] = None

\* What the other invariants and the action properties need besides.
TokenInv ==
    /\ ChannelsOK
    /\ OneLiveToken
    /\ EveryGuessCounts
    /\ FoldedPreferencesWereProven

\* Whatever records one starts from, following merged_into leaves them: merges
\* never run in a circle.
MergesEnd ==
    \A S \in SUBSET Subs : S # {} => \E r \in S : mergedInto[r] \notin S

-----------------------------------------------------------------------------
(* What a step may never do.                                                *)

\* A contact that a rider proved is not lost when its record is merged: the
\* survivor holds it, confirmed - unless the survivor already had another
\* contact (or the same one) in that slot.
ProvenContactSurvivesMerge ==
    [][\A r \in Subs : \A ch \in Channels :
         Unmerged(r) /\ chan[r][ch] = "confirmed" /\ mergedInto'[r] # None =>
            LET v == mergedInto'[r]
            IN  \/ contact'[v][ch] = contact[r][ch] /\ chan'[v][ch] = "confirmed"
                \/ contact[v][ch] # None]_vars

\* A channel that was stopped and has no token outstanding is stopped for
\* good: nothing issues a token for it and nothing confirms it.
StoppedWithoutTokenIsFinal ==
    [][\A r \in Subs : \A ch \in Channels :
         chan[r][ch] = "unsubscribed" /\ LiveOn(r, ch) = {} =>
            chan'[r][ch] = "unsubscribed" /\ LiveOn(r, ch)' = {}]_vars

\* "no token may revive a record someone asked to be removed from, whatever
\* state the token is in" (classifyConfirmation).
OptedOutIsFinal ==
    [][\A r \in Subs : status[r] = "opted_out" => status'[r] = "opted_out"]_vars

\* A record that was opted out, none of whose tokens is being confirmed.
SettledOptOut(r) ==
    /\ status[r] = "opted_out"
    /\ \A c \in ConfIds : held[c] # {} => confs[c].sub # r

\* What holds instead: a rider who leaves altogether is opted out for good, and
\* so is a record that was opted out otherwise while no token of it was being
\* confirmed.
LeavingIsFinal ==
    [][\A r \in Subs :
         \/ SettledOptOut(r)
         \/ \E k \in Subs : Resolved(k) = r /\ UnsubscribeAll(k)
         => SettledOptOut(r)']_vars

-----------------------------------------------------------------------------
(* What the owner of a contact may rely on: module Consent.                 *)

Addresses == {a \in Channels \X (Phones \cup Emails) : a[2] \in Contacts(a[1])}

\* The tokens in some state that were sent to an address.
SentTo(a, state) ==
    {c \in ConfIds : /\ confs[c].state = state
                     /\ confs[c].channel = a[1] /\ confs[c].to = a[2]}

\* Alerts go to the address: an unmerged record holds it confirmed.
IsOn(a) ==
    \E r \in Subs : Unmerged(r) /\ contact[r][a[1]] = a[2] /\ chan[r][a[1]] = "confirmed"

DoubleOptIn == INSTANCE Consent WITH
    Inboxes <- Addresses,
    sent <- issued,
    asked <- [a \in Addresses |-> SentTo(a, "live")],
    answered <- [a \in Addresses |-> SentTo(a, "confirmed")],
    on <- {a \in Addresses : IsOn(a)},
    stopped <- [a \in Addresses |-> stopMark[a[1]][a[2]]]

\* Signing up, resending, confirming, merging and stopping are steps of Consent:
\* no interleaving of them turns on a contact that did not answer.
ImplementsConsent == DoubleOptIn!ConsentSpec

=============================================================================
