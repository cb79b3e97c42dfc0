------------------------ MODULE AlertDispatch_proofs ------------------------
(***************************************************************************)
(* For any subscriptions, alerts and deliveries: one delivery of an alert  *)
(* reaches a contact once and with consent, a run that ends has logged     *)
(* everyone, and what the Teams history says was sent is not posted or     *)
(* overwritten by another delivery.  The subscriptions go on as they would *)
(* alone (SubscriptionsGoOn), so that what is proved of them holds while   *)
(* alerts are sent.                                                        *)
(***************************************************************************)
EXTENDS AlertDispatch, Subscriptions_proofs

-----------------------------------------------------------------------------
(* The subscriptions.                                                       *)

\* A row that a merge retired stays marked as merged.
MergedOK == \A r \in Subs : mergedInto[r] # None => status[r] = "merged"

LEMMA MergedKeeps == IInv /\ MergedOK /\ [Next]_vars => MergedOK'
<1> SUFFICES ASSUME IInv, MergedOK, [Next]_vars, NEW o \in Subs, mergedInto'[o] # None
             PROVE  status'[o] = "merged"
  BY DEF MergedOK
<1> status \in [Subs -> Statuses] /\ mergedInto \in [Subs -> Subs \cup {None}]
  BY DEF IInv, TypeOK
<1> USE DEF MergedOK
<1>1. ASSUME NEW r \in Subs, NEW given, NEW code, Subscribe(r, given, code)
      PROVE  status'[o] = "merged"
  BY <1>1 DEF Subscribe
<1>2. ASSUME UNCHANGED <<status, mergedInto>> PROVE status'[o] = "merged"
  BY <1>2
<1>3. ASSUME NEW c \in ConfIds, ConfirmAndKeep(c) PROVE status'[o] = "merged"
  <2>1. confs[c].sub \in Subs /\ Unmerged(confs[c].sub)
    BY <1>3, HeldToken DEF ConfirmAndKeep
  <2>2. confs[c].sub \notin NeverProven(confs[c].sub, confs[c].channel)
    BY DEF NeverProven, Duplicates
  <2> QED  BY <1>3, <2>1, <2>2 DEF ConfirmAndKeep, Unmerged
<1>4. ASSUME NEW c \in ConfIds, NEW v \in Subs, ConfirmAndFold(c, v)
      PROVE  status'[o] = "merged"
  BY <1>4 DEF ConfirmAndFold
<1>5. ASSUME NEW ch \in Channels, NEW x \in Contacts(ch), OptOut(ch, x)
      PROVE  status'[o] = "merged"
  BY <1>5 DEF OptOut, Unmerged
<1>6. ASSUME NEW k \in Subs, NEW keep \in SUBSET Channels, WritePreferences(k, keep)
      PROVE  status'[o] = "merged"
  <2>1. Resolved(k) # None => mergedInto[Resolved(k)] = None
    BY DEF Resolved
  <2> DEFINE r == Resolved(k)
  <2>2. mergedInto' = mergedInto /\ r # None /\ \E s : status' = [status EXCEPT ![r] = s]
    BY <1>6 DEF WritePreferences
  <2> HIDE DEF r
  <2> QED  BY <2>1, <2>2 DEF r
<1>7. ASSUME NEW k \in Subs, UnsubscribeAll(k) PROVE status'[o] = "merged"
  <2>1. Resolved(k) # None => mergedInto[Resolved(k)] = None
    BY DEF Resolved
  <2> DEFINE r == Resolved(k)
  <2>2. mergedInto' = mergedInto /\ r # None /\ status' = [status EXCEPT ![r] = "opted_out"]
    BY <1>7 DEF UnsubscribeAll
  <2> QED  BY <2>1, <2>2
<1>8. ASSUME Next, ~ UNCHANGED <<status, mergedInto>>
      PROVE  \/ \E r \in Subs : \E given, code : Subscribe(r, given, code)
             \/ \E c \in ConfIds : ConfirmAndKeep(c)
             \/ \E c \in ConfIds, v \in Subs : ConfirmAndFold(c, v)
             \/ \E ch \in Channels : \E x \in Contacts(ch) : OptOut(ch, x)
             \/ \E k \in Subs, keep \in SUBSET Channels : WritePreferences(k, keep)
             \/ \E k \in Subs : UnsubscribeAll(k)
  BY <1>8 DEF Next, ResendConfirmation, PresentEmailLink, PresentSmsCode, WrongSmsCode,
     AbandonConfirm, RequestManageLink, CooldownPasses, TokenExpires, rows
<1> QED
  BY <1>1, <1>2, <1>3, <1>4, <1>5, <1>6, <1>7, <1>8 DEF vars

\* A confirmed token stays what it is, whoever owns it by then.
LEMMA ConfirmedStays ==
    ASSUME IInv, [Next]_vars, NEW d \in ConfIds, confs[d].state = "confirmed"
    PROVE  /\ confs'[d].state = "confirmed"
           /\ confs'[d].channel = confs[d].channel
           /\ confs'[d].to = confs[d].to
<1> DEFINE Stays == /\ confs'[d].state = "confirmed"
                    /\ confs'[d].channel = confs[d].channel
                    /\ confs'[d].to = confs[d].to
<1> TypeOK /\ TokensOK /\ LocksOK
  BY DEF IInv
<1> d \in Int /\ issued \in Int /\ d <= issued /\ d # issued + 1 /\ ~(d > issued)
  BY BoundsAssumption DEF TypeOK, TokensOK, ConfIds
<1>1. ASSUME NEW r \in Subs, NEW given \in GivenContacts, NEW code, Subscribe(r, given, code)
      PROVE  Stays
  BY <1>1, SubscribeRow
<1>2. ASSUME NEW ch \in Channels, NEW x, NEW r, NEW code, ResendConfirmation(ch, x, r, code)
      PROVE  Stays
  <2>1. d \notin LiveOn(r, ch)
    BY DEF LiveOn, LiveOf, Live
  <2> QED  BY <1>2, <2>1, ResendRow
<1>3. ASSUME NEW x, NEW code, WrongSmsCode(x, code) PROVE Stays
  BY <1>3, GuessRow
<1>4. ASSUME NEW S, confs' = Superseding(S), \A c \in S : Live(c) PROVE Stays
  <2>1. d \notin S
    BY <1>4 DEF Live
  <2> QED  BY <1>4, <2>1, SupersedingRow
<1>5. ASSUME NEW c \in ConfIds, NEW moved, NEW voided, NEW v,
             confs' = Confirmed(c, moved, voided, v), \A e \in voided : Live(e)
      PROVE  Stays
  <2>1. d \notin voided
    BY <1>5 DEF Live
  <2> QED  BY <1>5, <2>1, ConfirmedRow
<1>6. ASSUME confs' = confs PROVE Stays
  BY <1>6
<1>7. ASSUME NEW c \in ConfIds, ConfirmAndKeep(c) PROVE Stays
  <2> DEFINE retired == NeverProven(confs[c].sub, confs[c].channel)
             voided == Voided(c, Duplicates(confs[c].sub, confs[c].channel) \ retired, retired)
  <2>1. confs' = Confirmed(c, {}, voided, confs[c].sub)
    BY <1>7 DEF ConfirmAndKeep
  <2>2. \A e \in voided : Live(e)
    BY DEF Voided
  <2> HIDE DEF voided
  <2> QED  BY <2>1, <2>2, <1>5
<1>8. ASSUME NEW c \in ConfIds, NEW v \in Subs, ConfirmAndFold(c, v) PROVE Stays
  <2> DEFINE r == confs[c].sub
             ch == confs[c].channel
             takes == Takes(v, r)
             retired == NeverProven(r, ch) \ {v}
             moved == {e \in LiveOf(r) \ {c} : confs[e].channel \in takes}
             voided == Voided(c, Duplicates(r, ch) \ (retired \cup {v}),
                              retired \cup {r}) \ moved
  <2>1. confs' = Confirmed(c, moved, voided, v)
    BY <1>8 DEF ConfirmAndFold
  <2>2. \A e \in voided : Live(e)
    BY DEF Voided
  <2> HIDE DEF voided, moved
  <2> QED  BY <2>1, <2>2, <1>5
<1>9. ASSUME NEW ch, NEW x, OptOut(ch, x) PROVE Stays
  <2>1. \A c \in LiveFor(ch, x) : Live(c)
    BY DEF LiveFor
  <2>2. confs' = Superseding(LiveFor(ch, x))
    BY <1>9 DEF OptOut
  <2> QED  BY <2>1, <2>2, <1>4
<1>10. ASSUME NEW k, UnsubscribeAll(k) PROVE Stays
  <2>1. \A c \in LiveOf(Resolved(k)) : Live(c)
    BY DEF LiveOf
  <2>2. confs' = Superseding(LiveOf(Resolved(k)))
    BY <1>10 DEF UnsubscribeAll
  <2> QED  BY <2>1, <2>2, <1>4
<1>11. ASSUME Next, confs' # confs
       PROVE  \/ \E r \in Subs, given \in GivenContacts : \E code : Subscribe(r, given, code)
              \/ \E ch \in Channels : \E x, r, code : ResendConfirmation(ch, x, r, code)
              \/ \E x, code : WrongSmsCode(x, code)
              \/ \E c \in ConfIds : ConfirmAndKeep(c)
              \/ \E c \in ConfIds, v \in Subs : ConfirmAndFold(c, v)
              \/ \E ch, x : OptOut(ch, x)
              \/ \E k : UnsubscribeAll(k)
  BY <1>11 DEF Next, PresentEmailLink, PresentSmsCode, AbandonConfirm, RequestManageLink,
     WritePreferences, CooldownPasses, TokenExpires
<1> QED
  BY <1>1, <1>2, <1>3, <1>6, <1>7, <1>8, <1>9, <1>10, <1>11 DEF vars

-----------------------------------------------------------------------------
(* Types, and the local states a run can be in.                             *)

LEMMA Bounds == MaxDeliveries \in Nat \ {0} /\ Runs = 1 .. MaxDeliveries
  BY DispatchAssumption DEF Runs

LEMMA PlaceNames == Places \subseteq Nat /\ \A i \in Places : Targets[i] \in Audiences
  BY DispatchAssumption DEF Places

\* Two signups read for one alert never share a contact.
Distinct(S) ==
    \A t, u \in S : t.channel = u.channel /\ t.to = u.to => t = u

LocalStates ==
    {r \in RunStates :
        /\ r.phase \in {"none", "posting", "thrown"} =>
              r.recordset = {} /\ r.todo = {} /\ r.unlogged = None
        /\ r.phase = "completed" => r.todo = {} /\ r.unlogged = None
        /\ r.phase # "posting" => r.unrecorded = None
        /\ r.unrecorded # None => r.known
        /\ r.unrecorded # None => \A i \in r.places : r.unrecorded < i
        /\ r.todo \subseteq r.recordset
        /\ r.unlogged # None => r.unlogged.rcpt \in r.recordset \ r.todo
        /\ Distinct(r.recordset)}

RunOK == run \in [Messages -> [Runs -> LocalStates]]

\* A run that posts holds the lock, and what is on the queue can be delivered.
QueueOK ==
    /\ queue \in [Messages -> {"unpublished", "queued", "locked", "settled", "dead"}]
    /\ deliveries \in [Messages -> 0 .. MaxDeliveries]
    /\ \A m \in Messages :
          /\ queue[m] \in {"unpublished", "queued"} => deliveries[m] < MaxDeliveries
          /\ \A n \in Runs :
                /\ n > deliveries[m] => run[m][n].phase = "none"
                /\ run[m][n].phase = "posting" => queue[m] = "locked" /\ deliveries[m] = n

TablesOK ==
    /\ teamsLog \in [Messages -> [Audiences -> Outcomes \cup {None}]]
    /\ log \subseteq LogRows
    /\ posted \subseteq [msg : Messages, run : Runs, place : Places]
    /\ accepted \subseteq [msg : Messages, run : Runs, rcpt : Recipients]
    /\ reports \subseteq [send : accepted, result : {"delivered", "bounced"}]

\* What a run that read the history has yet to post was not sent before, but by
\* the run itself.
Unposted(m, n, i) == teamsLog[m][Targets[i]] = "sent" => PostedBefore(m, n, i)

\* What it is about to log as sent, it has posted.
PostsOK ==
    \A m \in Messages : \A n \in Runs : \A i \in Places :
        run[m][n].phase = "posting" /\ run[m][n].known =>
            /\ i \in run[m][n].places \/ i = run[m][n].unrecorded => Unposted(m, n, i)
            /\ i = run[m][n].unrecorded /\ run[m][n].outcome = "sent" =>
                  [msg |-> m, run |-> n, place |-> i] \in posted

Logged(m, n, t) == \E row \in log : row.msg = m /\ row.run = n /\ row.rcpt = t

\* Everyone who is not waiting to be sent it is logged, or about to be.
LoggedOK ==
    \A m \in Messages : \A n \in Runs : \A t \in run[m][n].recordset \ run[m][n].todo :
        \/ run[m][n].unlogged # None /\ run[m][n].unlogged.rcpt = t
        \/ Logged(m, n, t)

\* Whom a run has sent it is no longer waiting.
SentOK ==
    \A s \in accepted :
        /\ run[s.msg][s.run].phase \notin {"none", "posting"}
        /\ run[s.msg][s.run].phase = "fanning" =>
              s.rcpt \in run[s.msg][s.run].recordset \ run[s.msg][s.run].todo

Consented(t) ==
    \E c \in ConfIds : /\ confs[c].state = "confirmed"
                       /\ confs[c].channel = t.channel
                       /\ confs[c].to = t.to

ConsentOK ==
    /\ \A m \in Messages : \A n \in Runs : \A t \in run[m][n].todo : Consented(t)
    /\ \A s \in accepted : Consented(s.rcpt)

DInv ==
    /\ RunOK /\ QueueOK /\ TablesOK
    /\ PostsOK /\ LoggedOK /\ SentOK /\ OneAlertPerContact /\ ConsentOK

-----------------------------------------------------------------------------
(* What each step of a run makes of its local state.                        *)

\* Run n of event m goes on; the other runs stay as they are.
OneRun(m, n) ==
    /\ RunOK'
    /\ \A k \in Messages : \A j \in Runs : (k = m /\ j = n) \/ run'[k][j] = run[k][j]

LEMMA BecomesOne ==
    ASSUME RunOK, NEW m \in Messages, NEW n \in Runs, NEW r \in LocalStates, Becomes(m, n, r)
    PROVE  OneRun(m, n) /\ run'[m][n] = r
  BY DEF RunOK, Becomes, OneRun

LEMMA Fields ==
    ASSUME RunOK, NEW m \in Messages, NEW n \in Runs
    PROVE  run[m][n] \in LocalStates /\ run[m][n] \in RunStates
  BY DEF RunOK, LocalStates

LEMMA NoRunFields ==
    /\ NoRun \in LocalStates /\ NoRun.phase = "none" /\ NoRun.unrecorded = None
    /\ NoRun.recordset = {} /\ NoRun.todo = {} /\ NoRun.unlogged = None
  BY DEF NoRun, LocalStates, RunStates, Outcomes, Distinct

LEMMA DeliverRun ==
    ASSUME DInv, NEW m \in Messages, NEW known \in BOOLEAN, Deliver(m, known)
    PROVE  LET n == deliveries[m] + 1 IN
           /\ n \in Runs /\ OneRun(m, n)
           /\ run'[m][n].phase = "posting" /\ run'[m][n].known = known
           /\ run'[m][n].places = ToPost(m, known) /\ run'[m][n].unrecorded = None
           /\ run'[m][n].recordset = {} /\ run'[m][n].todo = {}
<1> DEFINE n == deliveries[m] + 1
           r == [NoRun EXCEPT !.phase = "posting", !.known = known,
                              !.places = ToPost(m, known)]
<1>1. n \in Runs
  BY Bounds DEF DInv, QueueOK, Deliver
<1>2. r \in LocalStates
  BY NothingAssumption DEF NoRun, LocalStates, RunStates, Outcomes, Distinct, ToPost
<1>3. Becomes(m, n, r)
  BY DEF Deliver
<1>4. OneRun(m, n) /\ run'[m][n] = r
  BY <1>1, <1>2, <1>3, BecomesOne DEF DInv
<1> QED  BY <1>1, <1>4 DEF NoRun

LEMMA ThrownRun ==
    ASSUME RunOK, NEW m \in Messages, NEW n \in Runs,
           Becomes(m, n, [NoRun EXCEPT !.phase = "thrown"])
    PROVE  /\ OneRun(m, n) /\ run'[m][n].phase = "thrown" /\ run'[m][n].unrecorded = None
           /\ run'[m][n].recordset = {} /\ run'[m][n].todo = {}
<1>1. [NoRun EXCEPT !.phase = "thrown"] \in LocalStates
  BY DEF NoRun, LocalStates, RunStates, Outcomes, Distinct
<1>2. OneRun(m, n) /\ run'[m][n] = [NoRun EXCEPT !.phase = "thrown"]
  BY <1>1, BecomesOne
<1> QED  BY <1>2 DEF NoRun

LEMMA CompleteRun ==
    ASSUME RunOK, NEW m \in Messages, NEW n \in Runs, Complete(m, n)
    PROVE  /\ OneRun(m, n) /\ run'[m][n].phase = "completed"
           /\ run'[m][n].recordset = run[m][n].recordset
           /\ run'[m][n].todo = {} /\ run[m][n].todo = {}
           /\ run'[m][n].unlogged = None /\ run[m][n].unlogged = None
<1> DEFINE r == [run[m][n] EXCEPT !.phase = "completed"]
<1>1. run[m][n] \in LocalStates /\ run[m][n] \in RunStates
  BY Fields
<1>2. run[m][n].todo = {} /\ run[m][n].unrecorded = None /\ run[m][n].unlogged = None
  BY <1>1 DEF Complete, LocalStates
<1>3. r \in LocalStates
  BY <1>1, <1>2 DEF LocalStates, RunStates
<1>4. OneRun(m, n) /\ run'[m][n] = r
  BY <1>3, BecomesOne DEF Complete
<1> QED  BY <1>1, <1>2, <1>4 DEF RunStates

LEMMA PostRun ==
    ASSUME RunOK, NEW m \in Messages, NEW n \in Runs, NEW i \in Places,
           NEW outcome \in Outcomes, NEW taken \in BOOLEAN, PostToTeams(m, n, i, outcome, taken)
    PROVE  /\ OneRun(m, n) /\ run'[m][n].phase = "posting"
           /\ run'[m][n].known = run[m][n].known
           /\ run'[m][n].places = run[m][n].places \ {i}
           /\ run'[m][n].unrecorded \in {i, None} /\ run'[m][n].outcome = outcome
           /\ run'[m][n].recordset = {} /\ run'[m][n].todo = {}
<1> DEFINE r == [run[m][n] EXCEPT !.places = @ \ {i},
                                  !.unrecorded = IF run[m][n].known THEN i ELSE None,
                                  !.outcome = outcome]
<1>1. run[m][n] \in LocalStates /\ run[m][n] \in RunStates
  BY Fields
<1>2. run[m][n].phase = "posting" /\ run[m][n].recordset = {} /\ run[m][n].todo = {}
      /\ run[m][n].unlogged = None
  BY <1>1 DEF PostToTeams, LocalStates
<1>3. r \in RunStates
  BY <1>1 DEF RunStates
<1>4. /\ r.phase = "posting" /\ r.recordset = {} /\ r.todo = {} /\ r.unlogged = None
      /\ r.known = run[m][n].known
      /\ r.places = run[m][n].places \ {i}
      /\ r.unrecorded = IF run[m][n].known THEN i ELSE None
      /\ r.outcome = outcome
  BY <1>1, <1>2 DEF RunStates
<1>5. \A j \in run[m][n].places \ {i} : i < j
  <2> HIDE DEF r
  <2>1. run[m][n].places \subseteq Places /\ \A j \in run[m][n].places : i <= j
    BY <1>1 DEF RunStates, PostToTeams
  <2>2. i \in Nat /\ \A j \in run[m][n].places : j \in Nat
    BY <2>1, PlaceNames
  <2> QED  BY <2>1, <2>2
<1>6. r \in LocalStates
  BY <1>3, <1>4, <1>5 DEF LocalStates, Distinct
<1>7. OneRun(m, n) /\ run'[m][n] = r
  BY <1>6, BecomesOne DEF PostToTeams
<1> HIDE DEF r
<1> QED  BY <1>4, <1>7

LEMMA RecordRun ==
    ASSUME RunOK, NEW m \in Messages, NEW n \in Runs, NEW stored, RecordPost(m, n, stored)
    PROVE  /\ OneRun(m, n) /\ run'[m][n].phase = "posting"
           /\ run'[m][n].known = run[m][n].known
           /\ run'[m][n].places = run[m][n].places
           /\ run'[m][n].unrecorded = None
           /\ run'[m][n].recordset = {} /\ run'[m][n].todo = {}
           /\ run[m][n].unrecorded # None /\ run[m][n].unrecorded \in Places
           /\ \A i \in run[m][n].places : i \in Places /\ run[m][n].unrecorded < i
           /\ run[m][n].known /\ run[m][n].outcome \in Outcomes
<1> DEFINE r == [run[m][n] EXCEPT !.unrecorded = None]
<1>1. run[m][n] \in LocalStates /\ run[m][n] \in RunStates
  BY Fields
<1>2. /\ run[m][n].phase = "posting" /\ run[m][n].recordset = {} /\ run[m][n].todo = {}
      /\ run[m][n].unlogged = None /\ run[m][n].unrecorded # None
      /\ \A i \in run[m][n].places : run[m][n].unrecorded < i
      /\ run[m][n].places \subseteq Places
      /\ run[m][n].unrecorded \in Places \cup {None}
      /\ run[m][n].known /\ run[m][n].outcome \in Outcomes
  BY <1>1 DEF RecordPost, LocalStates, RunStates
<1>3. r \in LocalStates
  BY <1>1, <1>2 DEF LocalStates, RunStates, Distinct
<1>4. OneRun(m, n) /\ run'[m][n] = r
  BY <1>3, BecomesOne DEF RecordPost
<1>5. /\ r.phase = run[m][n].phase /\ r.known = run[m][n].known
      /\ r.places = run[m][n].places /\ r.unrecorded = None
      /\ r.recordset = run[m][n].recordset /\ r.todo = run[m][n].todo
  BY <1>1 DEF RunStates
<1> HIDE DEF r
<1>6. \A i \in run[m][n].places : i \in Places /\ run[m][n].unrecorded < i
  BY <1>2
<1>7. run[m][n].unrecorded # None /\ run[m][n].unrecorded \in Places
  BY <1>2
<1> QED  BY <1>2, <1>4, <1>5, <1>6, <1>7

\* Whoever is read is on one record that holds the contact, proven.
LEMMA ReadDistinct ==
    ASSUME IInv, MergedOK, NEW matched \in SUBSET Subs
    PROVE  /\ Distinct(Eligibles(matched))
           /\ \A t \in Eligibles(matched) : Consented(t)
<1>1. ASSUME NEW t \in Eligibles(matched)
      PROVE  /\ t \in Recipients /\ t.sub \in Subs /\ t.channel \in Channels
             /\ Unmerged(t.sub) /\ chan[t.sub][t.channel] = "confirmed"
             /\ t.to = contact[t.sub][t.channel]
  BY NoneAssumption DEF Eligibles, Recipients, Unmerged, MergedOK
<1>2. ASSUME NEW t \in Eligibles(matched), NEW u \in Eligibles(matched),
             t.channel = u.channel, t.to = u.to
      PROVE  t = u
  <2>1. t.sub = u.sub
    BY <1>1, <1>2 DEF IInv, OneOwner
  <2> QED  BY <1>1, <1>2, <2>1 DEF Recipients
<1>3. ASSUME NEW t \in Eligibles(matched) PROVE Consented(t)
  BY <1>1 DEF IInv, StopIsFinal, Consented
<1> QED  BY <1>2, <1>3 DEF Distinct

LEMMA ReadRun ==
    ASSUME RunOK, IInv, MergedOK, NEW m \in Messages, NEW n \in Runs,
           NEW matched \in SUBSET Subs, ReadSubscribers(m, n, matched)
    PROVE  /\ OneRun(m, n) /\ run'[m][n].phase = "fanning"
           /\ run'[m][n].unrecorded = None
           /\ run'[m][n].recordset = run'[m][n].todo
           /\ \A t \in run'[m][n].todo : Consented(t)
<1> DEFINE r == [run[m][n] EXCEPT !.phase = "fanning", !.recordset = Eligibles(matched),
                                  !.todo = Eligibles(matched)]
<1>1. run[m][n] \in LocalStates /\ run[m][n] \in RunStates
  BY Fields
<1>2. run[m][n].unrecorded = None /\ run[m][n].places = {} /\ run[m][n].unlogged = None
  BY <1>1 DEF ReadSubscribers, LocalStates
<1>3. Eligibles(matched) \subseteq Recipients
  BY DEF Eligibles
<1>4. Distinct(Eligibles(matched)) /\ \A t \in Eligibles(matched) : Consented(t)
  BY ReadDistinct
<1>5. r \in RunStates
  BY <1>1, <1>3 DEF RunStates
<1>6. /\ r.phase = "fanning" /\ r.recordset = Eligibles(matched) /\ r.todo = Eligibles(matched)
      /\ r.unlogged = None /\ r.unrecorded = None /\ r.places = {}
  BY <1>1, <1>2 DEF RunStates
<1> HIDE DEF r
<1>7. r \in LocalStates
  BY <1>4, <1>5, <1>6 DEF LocalStates
<1>8. OneRun(m, n) /\ run'[m][n] = r
  BY <1>7, BecomesOne DEF ReadSubscribers, r
<1> QED  BY <1>4, <1>6, <1>8

LEMMA SendRun ==
    ASSUME RunOK, NEW m \in Messages, NEW n \in Runs, NEW t, NEW outcome \in Outcomes,
           NEW taken \in BOOLEAN, NEW threw \in BOOLEAN, Send(m, n, t, outcome, taken, threw)
    PROVE  /\ OneRun(m, n) /\ run'[m][n].phase = "fanning"
           /\ run'[m][n].unrecorded = None
           /\ t \in Recipients /\ t \in run[m][n].todo /\ t \in run[m][n].recordset
           /\ run[m][n].unlogged = None
           /\ run'[m][n].recordset = run[m][n].recordset
           /\ run'[m][n].todo = run[m][n].todo \ {t}
           /\ run'[m][n].unlogged # None /\ run'[m][n].unlogged.rcpt = t
<1> DEFINE u == [rcpt |-> t, status |-> outcome, inCatch |-> threw]
           r == [run[m][n] EXCEPT !.todo = @ \ {t}, !.unlogged = u]
<1>1. run[m][n] \in LocalStates /\ run[m][n] \in RunStates
  BY Fields
<1>2. /\ run[m][n].phase = "fanning" /\ run[m][n].unrecorded = None /\ run[m][n].unlogged = None
      /\ t \in Recipients /\ t \in run[m][n].todo /\ run[m][n].todo \subseteq run[m][n].recordset
      /\ Distinct(run[m][n].recordset)
  BY <1>1 DEF Send, LocalStates, RunStates
<1>3. u \in Unlogged /\ u.rcpt = t
  BY <1>2 DEF Unlogged
<1>4. u # None
  BY <1>3, NothingAssumption
<1>5. Becomes(m, n, r)
  BY DEF Send
<1> HIDE DEF u
<1>6. r \in RunStates
  BY <1>1, <1>3 DEF RunStates
<1>7. /\ r.phase = "fanning" /\ r.recordset = run[m][n].recordset
      /\ r.todo = run[m][n].todo \ {t}
      /\ r.unlogged = u /\ r.unrecorded = None /\ r.places = run[m][n].places
  BY <1>1, <1>2 DEF RunStates
<1> HIDE DEF r
<1>8. r \in LocalStates
  BY <1>2, <1>3, <1>6, <1>7 DEF LocalStates
<1>9. OneRun(m, n) /\ run'[m][n] = r
  BY <1>5, <1>8, BecomesOne
<1> QED  BY <1>2, <1>3, <1>4, <1>7, <1>9

LEMMA LogRun ==
    ASSUME RunOK, NEW m \in Messages, NEW n \in Runs, LogDelivery(m, n)
    PROVE  /\ OneRun(m, n) /\ run'[m][n].phase = "fanning"
           /\ run'[m][n].unrecorded = None
           /\ run'[m][n].recordset = run[m][n].recordset
           /\ run'[m][n].todo = run[m][n].todo
           /\ run[m][n].unlogged \in Unlogged
<1> DEFINE r == [run[m][n] EXCEPT !.unlogged = None]
<1>1. run[m][n] \in LocalStates /\ run[m][n] \in RunStates
  BY Fields
<1>2. run[m][n].phase = "fanning" /\ run[m][n].unlogged # None
  BY DEF LogDelivery
<1>3. r \in LocalStates
  BY <1>1, <1>2 DEF LocalStates, RunStates
<1>4. OneRun(m, n) /\ run'[m][n] = r
  BY <1>3, BecomesOne DEF LogDelivery
<1>5. run[m][n].unlogged \in Unlogged /\ run[m][n].unrecorded = None
  BY <1>1, <1>2 DEF RunStates, LocalStates
<1> QED  BY <1>1, <1>2, <1>4, <1>5 DEF RunStates

\* The send is the catch block's to log, or the run is over.
LEMMA LogFailsRun ==
    ASSUME RunOK, NEW m \in Messages, NEW n \in Runs, NEW stored, LogDeliveryFails(m, n, stored)
    PROVE  /\ OneRun(m, n) /\ run'[m][n].unrecorded = None
           /\ run[m][n].phase = "fanning" /\ run[m][n].unlogged \in Unlogged
           /\ run'[m][n].phase \in {"fanning", "thrown"}
           /\ AfterLogFailed(m, n).phase = run'[m][n].phase
           /\ run'[m][n].phase = "fanning" =>
                 /\ run'[m][n].recordset = run[m][n].recordset
                 /\ run'[m][n].todo = run[m][n].todo
                 /\ run'[m][n].unlogged # None
                 /\ run'[m][n].unlogged.rcpt = run[m][n].unlogged.rcpt
           /\ run'[m][n].phase = "thrown" =>
                 run'[m][n].recordset = {} /\ run'[m][n].todo = {}
<1> DEFINE u == run[m][n].unlogged
           f == FailedSend(u)
           r == [run[m][n] EXCEPT !.unlogged = f]
<1>1. run[m][n] \in LocalStates /\ run[m][n] \in RunStates
  BY Fields
<1>2. /\ run[m][n].phase = "fanning" /\ u \in Unlogged /\ run[m][n].unrecorded = None
      /\ u # None
  BY <1>1 DEF LogDeliveryFails, RunStates, LocalStates
<1>3. CASE u.inCatch
  <2>1. AfterLogFailed(m, n) = [NoRun EXCEPT !.phase = "thrown"]
    BY <1>3 DEF AfterLogFailed
  <2>2. Becomes(m, n, [NoRun EXCEPT !.phase = "thrown"])
    BY <2>1 DEF LogDeliveryFails
  <2>3. [NoRun EXCEPT !.phase = "thrown"].phase = "thrown"
    BY DEF NoRun
  <2> QED  BY <1>2, <2>1, <2>2, <2>3, ThrownRun
<1>4. CASE ~ u.inCatch
  <2>1. AfterLogFailed(m, n) = r
    BY <1>4 DEF AfterLogFailed
  <2>a. u.rcpt \in Recipients
    BY <1>2 DEF Unlogged
  <2>b. f \in Unlogged /\ f.rcpt = u.rcpt
    BY <2>a DEF FailedSend, Unlogged, Outcomes
  <2> HIDE DEF f
  <2>2. f \in Unlogged /\ f.rcpt = u.rcpt /\ f # None
    BY <2>b, NothingAssumption
  <2>3. r \in RunStates /\ r.phase = "fanning" /\ r.unlogged = f
        /\ r.recordset = run[m][n].recordset /\ r.todo = run[m][n].todo
        /\ r.unrecorded = None /\ r.places = run[m][n].places
    BY <1>1, <1>2, <2>2 DEF RunStates
  <2> HIDE DEF r
  <2>4. r \in LocalStates
    BY <1>1, <1>2, <2>2, <2>3 DEF LocalStates
  <2>5. OneRun(m, n) /\ run'[m][n] = r
    BY <2>1, <2>4, BecomesOne DEF LogDeliveryFails
  <2> QED  BY <1>2, <2>1, <2>2, <2>3, <2>5
<1> QED  BY <1>3, <1>4

-----------------------------------------------------------------------------
(* Every step preserves DInv.                                               *)

\* What a step leaves alone keeps what is said of it.
LEMMA Frame ==
    ASSUME DInv
    PROVE  /\ run' = run => RunOK'
           /\ UNCHANGED <<run, teamsLog, posted>> => PostsOK'
           /\ UNCHANGED <<run, log>> => LoggedOK'
           /\ UNCHANGED <<run, accepted>> => SentOK'
           /\ UNCHANGED accepted => OneAlertPerContact'
           /\ UNCHANGED <<run, accepted, confs>> => ConsentOK'
           /\ UNCHANGED <<teamsLog, log, posted, accepted, reports>> => TablesOK'
<1>1. run' = run => RunOK'
  BY DEF DInv, RunOK
<1>2. UNCHANGED <<run, teamsLog, posted>> => PostsOK'
  <2> SUFFICES ASSUME UNCHANGED <<run, teamsLog, posted>> PROVE PostsOK'
    OBVIOUS
  <2>1. \A m, n, i : Unposted(m, n, i)' <=> Unposted(m, n, i)
    BY DEF Unposted, PostedBefore
  <2>2. run' = run /\ posted' = posted /\ PostsOK
    BY DEF DInv
  <2> QED  BY <2>1, <2>2 DEF PostsOK
<1>3. UNCHANGED <<run, log>> => LoggedOK'
  BY DEF DInv, LoggedOK, Logged
<1>4. UNCHANGED <<run, accepted>> => SentOK'
  BY DEF DInv, SentOK
<1>5. UNCHANGED accepted => OneAlertPerContact'
  BY DEF DInv, OneAlertPerContact
<1>6. UNCHANGED <<run, accepted, confs>> => ConsentOK'
  BY DEF DInv, ConsentOK, Consented
<1>7. UNCHANGED <<teamsLog, log, posted, accepted, reports>> => TablesOK'
  BY DEF DInv, TablesOK
<1> QED  BY <1>1, <1>2, <1>3, <1>4, <1>5, <1>6, <1>7

\* A run that does not post, or no longer, has nothing to post again.
LEMMA PostsKept ==
    ASSUME DInv, NEW m \in Messages, NEW n \in Runs, OneRun(m, n),
           run'[m][n].phase # "posting", UNCHANGED <<teamsLog, posted>>
    PROVE  PostsOK'
<1>1. \A k \in Messages : \A j \in Runs : \A i : Unposted(k, j, i)' <=> Unposted(k, j, i)
  BY DEF Unposted, PostedBefore
<1>2. ASSUME NEW k \in Messages, NEW j \in Runs, run'[k][j].phase = "posting"
      PROVE  run'[k][j] = run[k][j]
  BY <1>2 DEF OneRun
<1> HIDE DEF Unposted
<1> QED  BY <1>1, <1>2 DEF DInv, PostsOK

\* A run keeps the lock while it posts, and leaves the queue in order.
LEMMA QueueKept ==
    ASSUME DInv, NEW m \in Messages, NEW n \in Runs, OneRun(m, n),
           run[m][n].phase # "none", deliveries' = deliveries,
           \/ /\ queue' = queue
              /\ run'[m][n].phase = "posting" => run[m][n].phase = "posting"
           \/ /\ run'[m][n].phase # "posting"
              /\ \/ queue' = Returned(m, n)
                 \/ queue' = IF Holds(m, n) THEN [queue EXCEPT ![m] = "settled"] ELSE queue
    PROVE  QueueOK'
<1> QueueOK
  BY DEF DInv
<1> USE Bounds
<1>1. n \leq deliveries[m] /\ n \in Nat /\ \A k \in Messages : deliveries[k] \in Nat
  BY DEF QueueOK
<1>0. \A k \in Messages : \A j \in Runs : j > deliveries[k] => run'[k][j].phase = "none"
  BY <1>1 DEF QueueOK, OneRun
<1>2. CASE queue' = queue /\ (run'[m][n].phase = "posting" => run[m][n].phase = "posting")
  <2>1. \A k \in Messages : \A j \in Runs :
          run'[k][j].phase = "posting" => run[k][j].phase = "posting"
    BY <1>2 DEF OneRun
  <2> QED  BY <1>0, <1>2, <2>1 DEF QueueOK
<1>3. CASE run'[m][n].phase # "posting" /\ ~ Holds(m, n) /\ queue' = queue
  BY <1>1, <1>3 DEF QueueOK, OneRun
<1>4. ASSUME run'[m][n].phase # "posting", Holds(m, n),
             NEW q \in {"queued", "settled", "dead"}, q = "queued" => n # MaxDeliveries,
             queue' = [queue EXCEPT ![m] = q]
      PROVE  QueueOK'
  <2>1. \A j \in Runs : run'[m][j].phase # "posting"
    <3>1. \A j \in Runs : run[m][j].phase = "posting" => j = n
      BY <1>4 DEF QueueOK, Holds
    <3>2. \A j \in Runs : j = n \/ run'[m][j] = run[m][j]
      BY DEF OneRun
    <3> QED  BY <1>4, <3>1, <3>2
  <2>2. deliveries[m] = n
    BY <1>4 DEF Holds
  <2>3. /\ queue' \in [Messages -> {"unpublished", "queued", "locked", "settled", "dead"}]
        /\ queue'[m] = q /\ \A k \in Messages \ {m} : queue'[k] = queue[k]
    BY <1>4 DEF QueueOK
  <2>4. q = "queued" => deliveries[m] < MaxDeliveries
    BY <1>1, <1>4, <2>2 DEF QueueOK
  <2>5. \A k \in Messages \ {m} : \A j \in Runs : run'[k][j] = run[k][j]
    BY DEF OneRun
  <2>6. \A k \in Messages : queue'[k] \in {"unpublished", "queued"} => deliveries[k] < MaxDeliveries
    BY <2>3, <2>4, <1>4 DEF QueueOK
  <2>7. \A k \in Messages : \A j \in Runs :
          run'[k][j].phase = "posting" => queue'[k] = "locked" /\ deliveries[k] = j
    BY <2>1, <2>3, <2>5 DEF QueueOK
  <2> QED  BY <1>0, <2>3, <2>6, <2>7 DEF QueueOK
<1> QED
  BY <1>2, <1>3, <1>4 DEF Returned

LEMMA PublishKeeps == ASSUME DInv, NEW m \in Messages, Publish(m) PROVE DInv'
<1>1. UNCHANGED <<run, teamsLog, log, posted, accepted, reports, confs>>
  BY DEF Publish, vars
<1>2. QueueOK'
  BY Bounds DEF Publish, DInv, QueueOK
<1> QED  BY <1>1, <1>2, Frame DEF DInv

LEMMA ExpireEventKeeps == ASSUME DInv, NEW m \in Messages, ExpireEvent(m) PROVE DInv'
<1>1. UNCHANGED <<run, teamsLog, log, posted, accepted, reports, confs>>
  BY DEF ExpireEvent, vars
<1>2. QueueOK'
  BY Bounds DEF ExpireEvent, DInv, QueueOK
<1> QED  BY <1>1, <1>2, Frame DEF DInv

LEMMA DeliverKeeps ==
    ASSUME DInv, NEW m \in Messages, NEW known \in BOOLEAN, Deliver(m, known) PROVE DInv'
<1> DEFINE n == deliveries[m] + 1
<1>1. UNCHANGED <<teamsLog, log, posted, accepted, reports, confs>>
  BY DEF Deliver, vars
<1>2. /\ n \in Runs /\ OneRun(m, n)
      /\ run'[m][n].phase = "posting" /\ run'[m][n].known = known
      /\ run'[m][n].places = ToPost(m, known) /\ run'[m][n].unrecorded = None
      /\ run'[m][n].recordset = {} /\ run'[m][n].todo = {}
  BY DeliverRun
<1>3. /\ queue[m] = "queued" /\ queue' = [queue EXCEPT ![m] = "locked"]
      /\ deliveries' = [deliveries EXCEPT ![m] = n]
  BY DEF Deliver
<1>4. QueueOK /\ deliveries[m] \in Nat /\ n > deliveries[m] /\ run[m][n].phase = "none"
  BY <1>2, Bounds DEF DInv, QueueOK
<1> HIDE DEF n
<1>5. QueueOK'
  <2>1. \A j \in Runs : run[m][j].phase # "posting"
    BY <1>3, <1>4 DEF QueueOK
  <2>2. n = deliveries[m] + 1
    BY DEF n
  <2> QED  BY <1>2, <1>3, <1>4, <2>1, <2>2, Bounds DEF QueueOK, OneRun
<1>6. PostsOK'
  <2>1. \A i \in ToPost(m, known) : known => teamsLog[m][Targets[i]] # "sent"
    BY DEF ToPost
  <2>2. \A k \in Messages : \A j \in Runs : \A i : Unposted(k, j, i)' <=> Unposted(k, j, i)
    BY <1>1 DEF Unposted, PostedBefore
  <2>3. \A i \in ToPost(m, known) : known => Unposted(m, n, i)
    BY <2>1 DEF Unposted
  <2> HIDE DEF n
  <2> QED  BY <1>1, <1>2, <2>2, <2>3, NothingAssumption DEF DInv, PostsOK, OneRun
<1>7. LoggedOK'
  BY <1>1, <1>2 DEF DInv, LoggedOK, Logged, OneRun
<1>8. SentOK'
  BY <1>1, <1>2, <1>4 DEF DInv, SentOK, OneRun, TablesOK
<1>9. ConsentOK'
  BY <1>1, <1>2 DEF DInv, ConsentOK, Consented, OneRun
<1> QED  BY <1>1, <1>2, <1>5, <1>6, <1>7, <1>8, <1>9, Frame DEF DInv, OneRun

LEMMA LoseLockKeeps ==
    ASSUME DInv, NEW m \in Messages, NEW n \in Runs, LoseLock(m, n) PROVE DInv'
<1>1. UNCHANGED <<run, teamsLog, log, posted, accepted, reports, confs>>
  BY DEF LoseLock, vars
<1>2. QueueOK'
  <2>1. OneRun(m, n)
    BY <1>1, Frame DEF OneRun
  <2> QED  BY <1>1, <2>1, QueueKept DEF LoseLock
<1> QED  BY <1>1, <1>2, Frame DEF DInv

\* A run that ends, thrown or completed, waits for nobody.
LEMMA EndingKeeps ==
    ASSUME DInv, NEW m \in Messages, NEW n \in Runs, OneRun(m, n), QueueOK',
           UNCHANGED <<teamsLog, log, posted, accepted, reports, confs>>,
           run'[m][n].phase \in {"thrown", "completed"}, run'[m][n].todo = {},
           \/ run'[m][n].recordset = {}
           \/ /\ run'[m][n].recordset = run[m][n].recordset
              /\ run[m][n].todo = {} /\ run[m][n].unlogged = None
    PROVE  DInv'
<1>1. PostsOK'
  BY PostsKept
<1>2. LoggedOK'
  BY DEF DInv, LoggedOK, Logged, OneRun
<1>3. SentOK'
  BY DEF DInv, SentOK, OneRun, TablesOK
<1>4. ConsentOK'
  BY DEF DInv, ConsentOK, Consented, OneRun
<1> QED  BY <1>1, <1>2, <1>3, <1>4, Frame DEF DInv, OneRun

LEMMA AbortKeeps ==
    ASSUME DInv, NEW m \in Messages, NEW n \in Runs, Abort(m, n) PROVE DInv'
<1>1. UNCHANGED <<teamsLog, log, posted, accepted, reports, confs>>
  BY DEF Abort, vars
<1>2. /\ OneRun(m, n) /\ run'[m][n].phase = "thrown" /\ run'[m][n].recordset = {}
      /\ run'[m][n].todo = {}
  BY ThrownRun DEF Abort, DInv
<1>3. QueueOK'
  BY <1>2, QueueKept DEF Abort
<1> QED  BY <1>1, <1>2, <1>3, EndingKeeps

LEMMA CompleteKeeps ==
    ASSUME DInv, NEW m \in Messages, NEW n \in Runs, Complete(m, n) PROVE DInv'
<1>1. UNCHANGED <<teamsLog, log, posted, accepted, reports, confs>>
  BY DEF Complete, vars
<1>2. /\ OneRun(m, n) /\ run'[m][n].phase = "completed"
      /\ run'[m][n].recordset = run[m][n].recordset
      /\ run'[m][n].todo = {} /\ run[m][n].todo = {} /\ run[m][n].unlogged = None
  BY CompleteRun DEF DInv
<1>3. QueueOK'
  BY <1>2, QueueKept DEF Complete
<1> QED  BY <1>1, <1>2, <1>3, EndingKeeps

LEMMA PostToTeamsKeeps ==
    ASSUME DInv, NEW m \in Messages, NEW n \in Runs, NEW i \in Places,
           NEW outcome \in Outcomes, NEW taken \in BOOLEAN, PostToTeams(m, n, i, outcome, taken)
    PROVE  DInv'
<1>1. UNCHANGED <<queue, deliveries, teamsLog, log, accepted, reports, confs>>
  BY DEF PostToTeams, vars
<1>2. /\ OneRun(m, n) /\ run'[m][n].phase = "posting"
      /\ run'[m][n].known = run[m][n].known
      /\ run'[m][n].places = run[m][n].places \ {i}
      /\ run'[m][n].unrecorded \in {i, None} /\ run'[m][n].outcome = outcome
      /\ run'[m][n].recordset = {} /\ run'[m][n].todo = {}
  BY PostRun DEF DInv
<1>3. /\ run[m][n].phase = "posting" /\ i \in run[m][n].places
      /\ posted \subseteq posted'
      /\ outcome = "sent" => [msg |-> m, run |-> n, place |-> i] \in posted'
  BY DEF PostToTeams
<1>4. QueueOK'
  BY <1>1, <1>2, <1>3, QueueKept
<1>5. TablesOK'
  BY <1>1 DEF DInv, TablesOK, PostToTeams
<1>6. PostsOK'
  <2>1. \A k \in Messages : \A j \in Runs : \A p : Unposted(k, j, p) => Unposted(k, j, p)'
    BY <1>1, <1>3 DEF Unposted, PostedBefore
  <2>2. ASSUME NEW k \in Messages, NEW j \in Runs, k # m \/ j # n
        PROVE  run'[k][j] = run[k][j]
    BY <1>2, <2>2 DEF OneRun
  <2>3. run[m][n].known => Unposted(m, n, i)
            /\ \A p \in Places : p \in run[m][n].places => Unposted(m, n, p)
    BY <1>3 DEF DInv, PostsOK
  <2>4. ASSUME NEW k \in Messages, NEW j \in Runs, NEW p \in Places, k # m \/ j # n,
               run'[k][j].phase = "posting", run'[k][j].known
        PROVE  /\ p \in run'[k][j].places \/ p = run'[k][j].unrecorded => Unposted(k, j, p)'
               /\ p = run'[k][j].unrecorded /\ run'[k][j].outcome = "sent" =>
                     [msg |-> k, run |-> j, place |-> p] \in posted'
    BY <1>3, <2>1, <2>2, <2>4 DEF DInv, PostsOK
  <2>5. ASSUME NEW p \in Places, run'[m][n].known
        PROVE  /\ p \in run'[m][n].places \/ p = run'[m][n].unrecorded => Unposted(m, n, p)'
               /\ p = run'[m][n].unrecorded /\ run'[m][n].outcome = "sent" =>
                     [msg |-> m, run |-> n, place |-> p] \in posted'
    BY <1>2, <1>3, <2>1, <2>3, <2>5, NothingAssumption
  <2> QED  BY <2>4, <2>5 DEF PostsOK
<1>7. LoggedOK'
  BY <1>1, <1>2 DEF DInv, LoggedOK, Logged, OneRun
<1>8. SentOK'
  BY <1>1, <1>2, <1>3 DEF DInv, SentOK, OneRun, TablesOK
<1>9. ConsentOK'
  BY <1>1, <1>2 DEF DInv, ConsentOK, Consented, OneRun
<1> QED  BY <1>1, <1>2, <1>4, <1>5, <1>6, <1>7, <1>8, <1>9, Frame DEF DInv, OneRun

\* Only the run that holds the lock writes the history, and only of an
\* audience that it has posted to.
LEMMA RecordPostKeeps ==
    ASSUME DInv, NEW m \in Messages, NEW n \in Runs, NEW stored \in BOOLEAN,
           RecordPost(m, n, stored)
    PROVE  DInv'
<1> DEFINE u == run[m][n].unrecorded
           a == Targets[u]
<1>1. UNCHANGED <<queue, deliveries, log, posted, accepted, reports, confs>>
  BY DEF RecordPost, vars
<1>2. /\ OneRun(m, n) /\ run'[m][n].phase = "posting"
      /\ run'[m][n].places = run[m][n].places
      /\ run'[m][n].known = run[m][n].known /\ run[m][n].known
      /\ run'[m][n].unrecorded = None
      /\ run'[m][n].recordset = {} /\ run'[m][n].todo = {}
      /\ u \in Places /\ u # None /\ \A i \in run[m][n].places : i \in Places /\ u < i
      /\ run[m][n].outcome \in Outcomes
  BY RecordRun DEF DInv
<1>3. run[m][n].phase = "posting"
  BY DEF RecordPost
<1>4. teamsLog' = teamsLog \/ teamsLog' = [teamsLog EXCEPT ![m][a] = run[m][n].outcome]
  BY DEF RecordPost
<1> HIDE DEF u
<1>0. a \in Audiences
  BY <1>2, PlaceNames
<1> HIDE DEF a
<1>5. QueueOK'
  BY <1>1, <1>2, <1>3, QueueKept
<1>6. TablesOK'
  BY <1>0, <1>1, <1>2, <1>4 DEF DInv, TablesOK
<1>7. PostsOK'
  <2>1. \A j \in Runs : run[m][j].phase = "posting" => j = n
    BY <1>3 DEF DInv, QueueOK
  <2>2. \A k \in Messages \ {m} : teamsLog'[k] = teamsLog[k]
    BY <1>4 DEF DInv, TablesOK
  <2>3. \A b \in Audiences : b = a \/ teamsLog'[m][b] = teamsLog[m][b]
    BY <1>4 DEF DInv, TablesOK
  <2>4. teamsLog'[m][a] = teamsLog[m][a] \/ teamsLog'[m][a] = run[m][n].outcome
    BY <1>0, <1>4 DEF DInv, TablesOK
  <2>5. ASSUME NEW k \in Messages \ {m}, NEW j \in Runs, NEW p \in Places,
               run'[k][j].phase = "posting", run'[k][j].known
        PROVE  /\ p \in run'[k][j].places \/ p = run'[k][j].unrecorded => Unposted(k, j, p)'
               /\ p = run'[k][j].unrecorded /\ run'[k][j].outcome = "sent" =>
                     [msg |-> k, run |-> j, place |-> p] \in posted'
    <3>1. Unposted(k, j, p)' <=> Unposted(k, j, p)
      BY <1>1, <2>2 DEF Unposted, PostedBefore
    <3>2. run'[k][j] = run[k][j]
      BY <1>2 DEF OneRun
    <3> QED  BY <1>1, <2>5, <3>1, <3>2 DEF DInv, PostsOK
  <2>6. ASSUME NEW p \in run[m][n].places PROVE Unposted(m, n, p)'
    <3>1. p \in Places /\ u < p /\ Unposted(m, n, p)
      BY <1>2, <1>3 DEF DInv, PostsOK
    <3>2. CASE Targets[p] # a
      BY <1>1, <2>3, <3>1, <3>2, PlaceNames DEF Unposted, PostedBefore
    <3>3. CASE Targets[p] = a /\ teamsLog'[m][a] = teamsLog[m][a]
      BY <1>1, <3>1, <3>3 DEF Unposted, PostedBefore
    <3>4. CASE Targets[p] = a /\ teamsLog'[m][a] = run[m][n].outcome
      <4>1. run[m][n].outcome = "sent" => [msg |-> m, run |-> n, place |-> u] \in posted
        BY <1>2, <1>3 DEF DInv, PostsOK, u
      <4>2. run[m][n].outcome = "sent" => PostedBefore(m, n, p)
        BY <1>2, <3>1, <3>4, <4>1 DEF PostedBefore, a
      <4> QED  BY <1>1, <3>4, <4>2 DEF Unposted, PostedBefore
    <3> QED  BY <2>4, <3>2, <3>3, <3>4
  <2>7. ASSUME NEW j \in Runs, run'[m][j].phase = "posting" PROVE j = n
    BY <1>2, <2>1, <2>7 DEF OneRun
  <2> QED  BY <1>2, <2>5, <2>6, <2>7, NothingAssumption DEF PostsOK
<1>8. LoggedOK'
  BY <1>1, <1>2 DEF DInv, LoggedOK, Logged, OneRun
<1>9. SentOK'
  BY <1>1, <1>2, <1>3 DEF DInv, SentOK, OneRun, TablesOK
<1>10. ConsentOK'
  BY <1>1, <1>2 DEF DInv, ConsentOK, Consented, OneRun
<1> QED
  BY <1>1, <1>2, <1>5, <1>6, <1>7, <1>8, <1>9, <1>10, Frame DEF DInv, OneRun

LEMMA ReadSubscribersKeeps ==
    ASSUME DInv, IInv, MergedOK, NEW m \in Messages, NEW n \in Runs,
           NEW matched \in SUBSET Subs, ReadSubscribers(m, n, matched)
    PROVE  DInv'
<1>1. UNCHANGED <<queue, deliveries, teamsLog, log, posted, accepted, reports, confs>>
  BY DEF ReadSubscribers, vars
<1>2. /\ OneRun(m, n) /\ run'[m][n].phase = "fanning"
      /\ run'[m][n].recordset = run'[m][n].todo
      /\ \A t \in run'[m][n].todo : Consented(t)
  BY ReadRun DEF DInv
<1>3. run[m][n].phase = "posting"
  BY DEF ReadSubscribers
<1>4. QueueOK'
  BY <1>1, <1>2, <1>3, QueueKept
<1>5. PostsOK'
  BY <1>1, <1>2, PostsKept
<1>6. LoggedOK'
  BY <1>1, <1>2 DEF DInv, LoggedOK, Logged, OneRun
<1>7. SentOK'
  BY <1>1, <1>2, <1>3 DEF DInv, SentOK, OneRun, TablesOK
<1>8. ConsentOK'
  BY <1>1, <1>2 DEF DInv, ConsentOK, Consented, OneRun
<1> QED  BY <1>1, <1>2, <1>4, <1>5, <1>6, <1>7, <1>8, Frame DEF DInv, OneRun

\* Nobody waiting was sent it by this run yet, nor anyone with their contact.
LEMMA SendKeeps ==
    ASSUME DInv, NEW m \in Messages, NEW n \in Runs, NEW t, NEW outcome \in Outcomes,
           NEW taken \in BOOLEAN, NEW threw \in BOOLEAN, Send(m, n, t, outcome, taken, threw)
    PROVE  DInv'
<1> DEFINE new == [msg |-> m, run |-> n, rcpt |-> t]
<1>1. UNCHANGED <<queue, deliveries, teamsLog, log, posted, reports, confs>>
  BY DEF Send, vars
<1>2. /\ OneRun(m, n) /\ run'[m][n].phase = "fanning"
      /\ t \in Recipients /\ t \in run[m][n].todo /\ t \in run[m][n].recordset
      /\ run[m][n].unlogged = None
      /\ run'[m][n].recordset = run[m][n].recordset
      /\ run'[m][n].todo = run[m][n].todo \ {t}
      /\ run'[m][n].unlogged # None /\ run'[m][n].unlogged.rcpt = t
  BY SendRun DEF DInv
<1>3. run[m][n].phase = "fanning" /\ Distinct(run[m][n].recordset)
  BY DEF Send, DInv, RunOK, LocalStates
<1>4. accepted' = accepted \/ accepted' = accepted \cup {new}
  BY DEF Send
<1>5. QueueOK'
  BY <1>1, <1>2, <1>3, QueueKept
<1>6. TablesOK'
  <2>1. reports \subseteq [send : accepted, result : {"delivered", "bounced"}]
    BY DEF DInv, TablesOK
  <2>2. accepted \subseteq accepted'
    BY <1>4
  <2>3. accepted' \subseteq [msg : Messages, run : Runs, rcpt : Recipients]
    BY <1>2, <1>4 DEF DInv, TablesOK
  <2>4. reports' \subseteq [send : accepted', result : {"delivered", "bounced"}]
    BY <1>1, <2>1, <2>2
  <2> QED  BY <1>1, <2>3, <2>4 DEF DInv, TablesOK
<1>7. PostsOK'
  BY <1>1, <1>2, PostsKept
<1>8. LoggedOK'
  BY <1>1, <1>2 DEF DInv, LoggedOK, Logged, OneRun
<1>9. \A s \in accepted : s.msg = m /\ s.run = n =>
          s.rcpt \in run[m][n].recordset \ run[m][n].todo
  BY <1>3 DEF DInv, SentOK
<1>10. SentOK'
  <2>1. \A s \in accepted : s.msg \in Messages /\ s.run \in Runs
    BY DEF DInv, TablesOK
  <2>2. new.msg = m /\ new.run = n /\ new.rcpt = t
    OBVIOUS
  <2> HIDE DEF new
  <2> QED  BY <1>2, <1>3, <1>4, <1>9, <2>1, <2>2 DEF DInv, SentOK, OneRun
<1>11. OneAlertPerContact'
  <2>1. \A s \in accepted : ~ /\ s.msg = m /\ s.run = n
                              /\ s.rcpt.channel = t.channel /\ s.rcpt.to = t.to
    BY <1>2, <1>3, <1>9 DEF Distinct
  <2>2. new.msg = m /\ new.run = n /\ new.rcpt = t
    OBVIOUS
  <2> HIDE DEF new
  <2> QED  BY <1>4, <2>1, <2>2 DEF DInv, OneAlertPerContact
<1>12. ConsentOK'
  <2>1. Consented(t)
    BY <1>2 DEF DInv, ConsentOK
  <2>2. new.rcpt = t
    OBVIOUS
  <2> HIDE DEF new
  <2> QED  BY <1>1, <1>2, <1>4, <2>1, <2>2 DEF DInv, ConsentOK, Consented, OneRun
<1> QED
  BY <1>2, <1>5, <1>6, <1>7, <1>8, <1>10, <1>11, <1>12 DEF DInv, OneRun

LEMMA RowOfIsRow ==
    ASSUME NEW m \in Messages, NEW n \in Runs, NEW u \in Unlogged
    PROVE  /\ RowOf(m, n, u) \in LogRows
           /\ RowOf(m, n, u).msg = m /\ RowOf(m, n, u).run = n /\ RowOf(m, n, u).rcpt = u.rcpt
<1>1. u.rcpt \in Recipients /\ u.status \in Outcomes
  BY DEF Unlogged
<1>2. (~u.inCatch /\ u.status = "sent") \in BOOLEAN
  OBVIOUS
<1> QED  BY <1>1, <1>2, Zenon DEF RowOf, LogRows

LEMMA LogDeliveryKeeps ==
    ASSUME DInv, NEW m \in Messages, NEW n \in Runs, LogDelivery(m, n) PROVE DInv'
<1> DEFINE u == run[m][n].unlogged
           new == RowOf(m, n, u)
<1>1. UNCHANGED <<queue, deliveries, teamsLog, posted, accepted, reports, confs>>
  BY DEF LogDelivery, vars
<1>2. /\ OneRun(m, n) /\ run'[m][n].phase = "fanning"
      /\ run'[m][n].recordset = run[m][n].recordset
      /\ run'[m][n].todo = run[m][n].todo
      /\ u \in Unlogged
  BY LogRun DEF DInv
<1>3. run[m][n].phase = "fanning" /\ log' = log \cup {new}
  BY DEF LogDelivery
<1>4. new \in LogRows /\ new.msg = m /\ new.run = n /\ new.rcpt = u.rcpt
  BY <1>2, RowOfIsRow
<1> HIDE DEF new
<1>5. QueueOK'
  BY <1>1, <1>2, <1>3, QueueKept
<1>6. TablesOK'
  BY <1>1, <1>3, <1>4 DEF DInv, TablesOK
<1>7. PostsOK'
  BY <1>1, <1>2, PostsKept
<1>8. LoggedOK'
  BY <1>2, <1>3, <1>4 DEF DInv, LoggedOK, Logged, OneRun
<1>9. SentOK'
  BY <1>1, <1>2, <1>3 DEF DInv, SentOK, OneRun, TablesOK
<1>10. ConsentOK'
  BY <1>1, <1>2 DEF DInv, ConsentOK, Consented, OneRun
<1> QED
  BY <1>1, <1>2, <1>5, <1>6, <1>7, <1>8, <1>9, <1>10, Frame DEF DInv, OneRun

LEMMA LogDeliveryFailsKeeps ==
    ASSUME DInv, NEW m \in Messages, NEW n \in Runs, NEW stored \in BOOLEAN,
           LogDeliveryFails(m, n, stored)
    PROVE  DInv'
<1> DEFINE u == run[m][n].unlogged
           new == RowOf(m, n, u)
<1>1. UNCHANGED <<deliveries, teamsLog, posted, accepted, reports, confs>>
  BY DEF LogDeliveryFails, vars
<1>2. /\ OneRun(m, n) /\ run[m][n].phase = "fanning" /\ u \in Unlogged
      /\ run'[m][n].phase \in {"fanning", "thrown"}
      /\ AfterLogFailed(m, n).phase = run'[m][n].phase
      /\ run'[m][n].phase = "fanning" =>
            /\ run'[m][n].recordset = run[m][n].recordset
            /\ run'[m][n].todo = run[m][n].todo
            /\ run'[m][n].unlogged # None
            /\ run'[m][n].unlogged.rcpt = u.rcpt
      /\ run'[m][n].phase = "thrown" => run'[m][n].recordset = {} /\ run'[m][n].todo = {}
  BY LogFailsRun DEF DInv
<1>3. log' = log \/ log' = log \cup {new}
  BY DEF LogDeliveryFails
<1>4. new \in LogRows
  BY <1>2, RowOfIsRow
<1> HIDE DEF new
<1>5. QueueOK'
  <2>1. queue' = IF run'[m][n].phase = "thrown" THEN Returned(m, n) ELSE queue
    BY <1>2 DEF LogDeliveryFails
  <2> QED  BY <1>1, <1>2, <2>1, QueueKept
<1>6. TablesOK'
  BY <1>1, <1>3, <1>4 DEF DInv, TablesOK
<1>7. PostsOK'
  BY <1>1, <1>2, PostsKept
<1>8. LoggedOK'
  BY <1>2, <1>3 DEF DInv, LoggedOK, Logged, OneRun
<1>9. SentOK'
  BY <1>1, <1>2 DEF DInv, SentOK, OneRun, TablesOK
<1>10. ConsentOK'
  BY <1>1, <1>2 DEF DInv, ConsentOK, Consented, OneRun
<1> QED
  BY <1>1, <1>2, <1>5, <1>6, <1>7, <1>8, <1>9, <1>10, Frame DEF DInv, OneRun

\* Changing rows of the log in place loses nobody's row.
LEMMA RowsChanged ==
    ASSUME DInv, run' = run,
           \A row \in log : \E new \in log' :
               new.msg = row.msg /\ new.run = row.run /\ new.rcpt = row.rcpt
    PROVE  LoggedOK'
<1> SUFFICES ASSUME NEW m \in Messages, NEW n \in Runs, NEW t, Logged(m, n, t)
             PROVE  Logged(m, n, t)'
  BY DEF DInv, LoggedOK
<1> QED  BY DEF Logged

LEMMA ReportDeliveryKeeps ==
    ASSUME DInv, NEW s \in accepted, NEW result \in {"delivered", "bounced"},
           ReportDelivery(s, result)
    PROVE  DInv'
<1>1. UNCHANGED <<queue, deliveries, run, teamsLog, posted, accepted, confs>>
  BY DEF ReportDelivery, vars
<1> DEFINE Hit(row) == /\ row.msg = s.msg /\ row.run = s.run /\ row.rcpt = s.rcpt
                       /\ row.provider
           After(row) == IF Hit(row) THEN [row EXCEPT !.status = result] ELSE row
<1>2. log' = {After(row) : row \in log}
  BY DEF ReportDelivery
<1>3. ASSUME NEW row \in log
      PROVE  /\ After(row) \in LogRows /\ After(row).msg = row.msg
             /\ After(row).run = row.run /\ After(row).rcpt = row.rcpt
  BY <1>3 DEF DInv, TablesOK, LogRows
<1> HIDE DEF After
<1>4. log' \subseteq LogRows
  BY <1>2, <1>3
<1>5. reports' \subseteq [send : accepted', result : {"delivered", "bounced"}]
  BY <1>1 DEF ReportDelivery, DInv, TablesOK
<1>6. TablesOK'
  BY <1>1, <1>4, <1>5 DEF DInv, TablesOK
<1>7. LoggedOK'
  <2>1. \A row \in log : \E new \in log' :
            new.msg = row.msg /\ new.run = row.run /\ new.rcpt = row.rcpt
    BY <1>2, <1>3
  <2> QED  BY <1>1, <2>1, RowsChanged
<1>8. QueueOK'
  BY <1>1 DEF DInv, QueueOK
<1> QED  BY <1>1, <1>6, <1>7, <1>8, Frame DEF DInv

\* Whatever the subscriptions do, consent that was given stays on record.
LEMMA SubscriptionStepKeeps == ASSUME DInv, IInv, SubscriptionStep PROVE DInv'
<1>1. UNCHANGED <<queue, deliveries, run, teamsLog, posted, accepted, reports>>
  BY DEF SubscriptionStep
<1> DEFINE After(row) == IF \E c \in Confirming : confs[c].sub = row.rcpt.sub
                         THEN [row EXCEPT !.fresh = FALSE] ELSE row
<1>2. log' = {After(row) : row \in log}
  BY DEF SubscriptionStep
<1>3. ASSUME NEW row \in log
      PROVE  /\ After(row) \in LogRows /\ After(row).msg = row.msg
             /\ After(row).run = row.run /\ After(row).rcpt = row.rcpt
  <2>1. row \in LogRows
    BY DEF DInv, TablesOK
  <2>2. /\ [row EXCEPT !.fresh = FALSE] \in LogRows
        /\ [row EXCEPT !.fresh = FALSE].msg = row.msg
        /\ [row EXCEPT !.fresh = FALSE].run = row.run
        /\ [row EXCEPT !.fresh = FALSE].rcpt = row.rcpt
    BY <2>1 DEF LogRows
  <2> QED  BY <2>1, <2>2
<1> HIDE DEF After
<1>4. log' \subseteq LogRows
  BY <1>2, <1>3
<1>5. TablesOK'
  BY <1>1, <1>4 DEF DInv, TablesOK
<1>6. LoggedOK'
  <2>1. \A row \in log : \E new \in log' :
            new.msg = row.msg /\ new.run = row.run /\ new.rcpt = row.rcpt
    BY <1>2, <1>3
  <2> QED  BY <1>1, <2>1, RowsChanged
<1>7. QueueOK'
  BY <1>1 DEF DInv, QueueOK
<1>8. ConsentOK'
  <2>1. ASSUME NEW t, Consented(t) PROVE Consented(t)'
    <3>1. Next
      BY DEF SubscriptionStep
    <3>2. PICK c \in ConfIds : /\ confs[c].state = "confirmed"
                               /\ confs[c].channel = t.channel /\ confs[c].to = t.to
      BY <2>1 DEF Consented
    <3>3. /\ confs'[c].state = "confirmed"
          /\ confs'[c].channel = t.channel /\ confs'[c].to = t.to
      BY <3>1, <3>2, ConfirmedStays
    <3> QED  BY <3>3 DEF Consented
  <2> QED  BY <1>1, <2>1 DEF DInv, ConsentOK
<1> QED  BY <1>1, <1>5, <1>6, <1>7, <1>8, Frame DEF DInv

-----------------------------------------------------------------------------
(* The theorems.                                                            *)

LEMMA InitDInv == DispatchInit => DInv
<1> SUFFICES ASSUME DispatchInit PROVE DInv
  OBVIOUS
<1>1. \A m \in Messages : \A n \in Runs : run[m][n] = NoRun
  BY DEF DispatchInit
<1>2. RunOK
  BY NoRunFields DEF DispatchInit, RunOK
<1>3. QueueOK
  BY <1>1, NoRunFields, Bounds DEF DispatchInit, QueueOK
<1>4. TablesOK
  BY DEF DispatchInit, TablesOK
<1>5. PostsOK /\ LoggedOK
  BY <1>1, NoRunFields DEF PostsOK, LoggedOK
<1>6. SentOK /\ OneAlertPerContact
  BY DEF DispatchInit, SentOK, OneAlertPerContact
<1>7. ConsentOK
  BY <1>1, NoRunFields DEF DispatchInit, ConsentOK
<1> QED  BY <1>2, <1>3, <1>4, <1>5, <1>6, <1>7 DEF DInv

LEMMA HandlerStepKeeps ==
    ASSUME DInv, IInv, MergedOK, NEW m \in Messages, NEW n \in Runs, HandlerStep(m, n)
    PROVE  DInv'
<1>1. ASSUME NEW t \in run[m][n].todo, NEW outcome \in Outcomes, NEW taken \in BOOLEAN,
             NEW threw \in BOOLEAN, Send(m, n, t, outcome, taken, threw)
      PROVE  DInv'
  BY <1>1, SendKeeps
<1> QED
  BY <1>1, CompleteKeeps, PostToTeamsKeeps, RecordPostKeeps, ReadSubscribersKeeps,
     LogDeliveryKeeps, LogDeliveryFailsKeeps DEF HandlerStep

LEMMA NextDInv == DInv /\ IInv /\ MergedOK /\ [DispatchNext]_allVars => DInv'
<1> SUFFICES ASSUME DInv, IInv, MergedOK, [DispatchNext]_allVars PROVE DInv'
  OBVIOUS
<1>1. CASE SubscriptionStep
  BY <1>1, SubscriptionStepKeeps
<1>2. ASSUME NEW m \in Messages,
             \/ Publish(m) \/ ExpireEvent(m)
             \/ \E known \in BOOLEAN : Deliver(m, known)
             \/ \E n \in Runs : LoseLock(m, n) \/ Abort(m, n) \/ HandlerStep(m, n)
      PROVE  DInv'
  BY <1>2, PublishKeeps, ExpireEventKeeps, DeliverKeeps, LoseLockKeeps, AbortKeeps,
     HandlerStepKeeps
<1>3. ASSUME NEW s \in accepted, NEW result \in {"delivered", "bounced"},
             ReportDelivery(s, result)
      PROVE  DInv'
  BY <1>3, ReportDeliveryKeeps
<1>4. CASE UNCHANGED allVars
  <2>1. UNCHANGED <<queue, deliveries, run, teamsLog, log, posted, accepted, reports, confs>>
    BY <1>4 DEF allVars, dispatchVars, vars
  <2>2. QueueOK'
    BY <2>1 DEF DInv, QueueOK
  <2> QED  BY <2>1, <2>2, Frame DEF DInv
<1> QED
  BY <1>1, <1>2, <1>3, <1>4 DEF DispatchNext

\* Who changes the subscriptions, the Teams posts and their history.
LEMMA HandlerChanges ==
    ASSUME NEW m \in Messages, NEW n \in Runs, HandlerStep(m, n)
    PROVE  /\ UNCHANGED vars
           /\ \/ posted' = posted
              \/ \E i \in Places, outcome \in Outcomes, taken \in BOOLEAN :
                    PostToTeams(m, n, i, outcome, taken)
           /\ \/ teamsLog' = teamsLog
              \/ \E stored \in BOOLEAN : RecordPost(m, n, stored)
<1>1. CASE Complete(m, n)
  BY <1>1 DEF Complete
<1>2. ASSUME NEW i \in Places, NEW outcome \in Outcomes, NEW taken \in BOOLEAN,
             PostToTeams(m, n, i, outcome, taken)
      PROVE  UNCHANGED <<vars, teamsLog>>
  BY <1>2 DEF PostToTeams
<1>3. ASSUME NEW stored \in BOOLEAN, RecordPost(m, n, stored) PROVE UNCHANGED <<vars, posted>>
  BY <1>3 DEF RecordPost
<1>4. ASSUME NEW matched \in SUBSET Subs, ReadSubscribers(m, n, matched)
      PROVE  UNCHANGED <<vars, posted, teamsLog>>
  BY <1>4 DEF ReadSubscribers
<1>5. ASSUME NEW t \in run[m][n].todo, NEW outcome \in Outcomes, NEW taken \in BOOLEAN,
             NEW threw \in BOOLEAN, Send(m, n, t, outcome, taken, threw)
      PROVE  UNCHANGED <<vars, posted, teamsLog>>
  BY <1>5 DEF Send
<1>6. ASSUME LogDelivery(m, n) PROVE UNCHANGED <<vars, posted, teamsLog>>
  BY <1>6 DEF LogDelivery
<1>7. ASSUME NEW stored \in BOOLEAN, LogDeliveryFails(m, n, stored)
      PROVE  UNCHANGED <<vars, posted, teamsLog>>
  BY <1>7 DEF LogDeliveryFails
<1>8. CASE \E i \in Places, outcome \in Outcomes, taken \in BOOLEAN :
              PostToTeams(m, n, i, outcome, taken)
  BY <1>2, <1>8
<1>9. CASE \E stored \in BOOLEAN : RecordPost(m, n, stored)
  BY <1>3, <1>9
<1> HIDE DEF vars
<1> QED
  BY <1>1, <1>4, <1>5, <1>6, <1>7, <1>8, <1>9 DEF HandlerStep, Complete

LEMMA StepChanges ==
    ASSUME DispatchNext
    PROVE  /\ Next \/ UNCHANGED vars
           /\ \/ posted' = posted
              \/ \E m \in Messages, n \in Runs : \E i \in Places, outcome \in Outcomes,
                                                    taken \in BOOLEAN :
                    PostToTeams(m, n, i, outcome, taken)
           /\ \/ teamsLog' = teamsLog
              \/ \E m \in Messages, n \in Runs : \E stored \in BOOLEAN : RecordPost(m, n, stored)
<1>1. CASE SubscriptionStep
  BY <1>1 DEF SubscriptionStep
<1>2. ASSUME NEW m \in Messages, Publish(m) \/ ExpireEvent(m)
      PROVE  UNCHANGED <<vars, posted, teamsLog>>
  BY <1>2 DEF Publish, ExpireEvent
<1>3. ASSUME NEW m \in Messages, NEW known \in BOOLEAN, Deliver(m, known)
      PROVE  UNCHANGED <<vars, posted, teamsLog>>
  BY <1>3 DEF Deliver
<1>4. ASSUME NEW m \in Messages, NEW n \in Runs, LoseLock(m, n) \/ Abort(m, n)
      PROVE  UNCHANGED <<vars, posted, teamsLog>>
  BY <1>4 DEF LoseLock, Abort
<1>5. ASSUME NEW s \in accepted, NEW result \in {"delivered", "bounced"},
             ReportDelivery(s, result)
      PROVE  UNCHANGED <<vars, posted, teamsLog>>
  BY <1>5 DEF ReportDelivery
<1>6. CASE \E m \in Messages, n \in Runs : HandlerStep(m, n)
  BY <1>6, HandlerChanges
<1>7. \/ SubscriptionStep
      \/ UNCHANGED <<vars, posted, teamsLog>>
      \/ \E m \in Messages, n \in Runs : HandlerStep(m, n)
  BY <1>2, <1>3, <1>4, <1>5 DEF DispatchNext
<1> QED  BY <1>1, <1>6, <1>7

\* The dispatch never writes a table of the subscriptions: while alerts are
\* sent they behave as they do alone, and everything proved of them holds.
THEOREM SubscriptionsGoOn == DispatchSpec => Spec
<1>1. [DispatchNext]_allVars => [Next]_vars
  BY StepChanges DEF allVars
<1> QED  BY <1>1, PTL DEF DispatchSpec, Spec

LEMMA InitMerged == Init => MergedOK
  BY DEF Init, MergedOK

\* The invariant of the dispatch, on the invariant of the subscriptions.
THEOREM DispatchInductive == DispatchSpec => [](DInv /\ IInv /\ MergedOK)
<1>1. DispatchSpec => Spec
  BY SubscriptionsGoOn
<1>2. Spec => []IInv
  BY Inductive
<1>3. Spec => []MergedOK
  BY <1>2, InitMerged, MergedKeeps, PTL DEF Spec
<1>4. DispatchSpec => []DInv
  BY <1>1, <1>2, <1>3, InitDInv, NextDInv, PTL DEF DispatchSpec
<1> QED  BY <1>1, <1>2, <1>3, <1>4, PTL

\* Queue, runs and logs keep their types: the deliveries of an event stay
\* within maxDeliveryCount, and a report is about a send that was accepted.
THEOREM DispatchTypeCorrect == DispatchSpec => []DispatchTypeOK
<1>1. DInv => DispatchTypeOK
  BY DEF DInv, RunOK, QueueOK, TablesOK, DispatchTypeOK, LocalStates
<1> QED  BY <1>1, DispatchInductive, PTL

\* One delivery of an alert reaches a contact once, however signups were
\* merged before it (mergeOnConfirm) and whatever fails on the way.
THEOREM OnePerContact == DispatchSpec => []OneAlertPerContact
<1>1. DInv => OneAlertPerContact
  BY DEF DInv
<1> QED  BY <1>1, DispatchInductive, PTL

\* The double opt-in, end to end: whoever is sent an alert confirmed a token
\* on that channel, sent to that contact.
THEOREM EveryAlertHasConsent == DispatchSpec => []AlertHasConsent
<1>1. DInv => AlertHasConsent
  BY DEF DInv, ConsentOK, Consented, AlertHasConsent
<1> QED  BY <1>1, DispatchInductive, PTL

\* A run of the handler that ends normally has logged everyone it read,
\* whichever sends and inserts failed on the way (the catch of fanOut).
THEOREM NobodyIsUnlogged == DispatchSpec => []EveryRecipientIsLogged
<1>1. DInv => EveryRecipientIsLogged
  <2> SUFFICES ASSUME DInv, NEW m \in Messages, NEW n \in Runs, run[m][n].phase = "completed",
                      NEW t \in run[m][n].recordset
               PROVE  Logged(m, n, t)
    BY DEF EveryRecipientIsLogged, Logged
  <2>1. run[m][n].todo = {} /\ run[m][n].unlogged = None
    BY DEF DInv, RunOK, LocalStates
  <2> QED  BY <2>1 DEF DInv, LoggedOK
<1> QED  BY <1>1, DispatchInductive, PTL

\* postToTeams: a row of the history that says sent is overwritten only by the
\* delivery that has posted to its audience before, when the alert names the
\* audience a second time.  No other delivery of the event takes it back.
THEOREM SentPostsAreFinal == DispatchSpec => TeamsSentIsFinal
<1> DEFINE Final ==
        \A m \in Messages : \A a \in Audiences :
            teamsLog[m][a] = "sent" /\ teamsLog'[m][a] # "sent"
            => \E n \in Runs : \E i \in Places :
                  /\ Targets[i] = a /\ run[m][n].unrecorded = i
                  /\ PostedBefore(m, n, i)
<1>1. DInv /\ [DispatchNext]_allVars => Final
  <2> SUFFICES ASSUME DInv, [DispatchNext]_allVars, NEW m \in Messages, NEW a \in Audiences,
                      teamsLog[m][a] = "sent", teamsLog'[m][a] # "sent"
               PROVE  \E n \in Runs : \E i \in Places :
                         /\ Targets[i] = a /\ run[m][n].unrecorded = i
                         /\ PostedBefore(m, n, i)
    OBVIOUS
  <2>1. PICK k \in Messages, n \in Runs, stored \in BOOLEAN : RecordPost(k, n, stored)
    BY StepChanges DEF allVars, dispatchVars
  <2> DEFINE u == run[k][n].unrecorded
  <2>2. /\ u \in Places /\ u # None /\ run[k][n].phase = "posting" /\ run[k][n].known
    BY <2>1, RecordRun DEF DInv, RecordPost
  <2>3. Unposted(k, n, u)
    BY <2>2 DEF DInv, PostsOK
  <2>4. teamsLog' = teamsLog \/ teamsLog' = [teamsLog EXCEPT ![k][Targets[u]] = run[k][n].outcome]
    BY <2>1 DEF RecordPost
  <2>5. u = run[k][n].unrecorded
    OBVIOUS
  <2> HIDE DEF u
  <2>6. k = m /\ Targets[u] = a
    BY <2>4 DEF DInv, TablesOK
  <2>7. PostedBefore(m, n, u)
    BY <2>3, <2>6 DEF Unposted
  <2> QED  BY <2>2, <2>5, <2>6, <2>7
<1> QED  BY <1>1, DispatchInductive, PTL DEF DispatchSpec, TeamsSentIsFinal

\* postToTeams: "an audience already logged as sent for this message is not
\* posted again" by a delivery that could read the history, unless that delivery
\* has posted to it itself.
THEOREM SentPostsAreNotRepeated == DispatchSpec => LoggedAsSentIsNotReposted
<1> DEFINE Fresh ==
        \A m \in Messages : \A n \in Runs : \A i \in Places :
            /\ teamsLog[m][Targets[i]] = "sent" /\ run[m][n].known
            /\ [msg |-> m, run |-> n, place |-> i] \in posted' \ posted
            => PostedBefore(m, n, i)
<1>1. DInv /\ [DispatchNext]_allVars => Fresh
  <2> SUFFICES ASSUME DInv, [DispatchNext]_allVars, NEW m \in Messages, NEW n \in Runs,
                      NEW i \in Places, run[m][n].known,
                      [msg |-> m, run |-> n, place |-> i] \in posted' \ posted
               PROVE  Unposted(m, n, i)
    BY DEF Unposted
  <2>1. PICK k \in Messages, j \in Runs, p \in Places, outcome \in Outcomes,
             taken \in BOOLEAN : PostToTeams(k, j, p, outcome, taken)
    BY StepChanges DEF allVars, dispatchVars
  <2>2. posted' \subseteq posted \cup {[msg |-> k, run |-> j, place |-> p]}
    BY <2>1 DEF PostToTeams
  <2>3. k = m /\ j = n /\ p = i
    BY <2>2
  <2>4. run[m][n].phase = "posting" /\ i \in run[m][n].places
    BY <2>1, <2>3 DEF PostToTeams
  <2> QED  BY <2>4 DEF DInv, PostsOK
<1> QED  BY <1>1, DispatchInductive, PTL DEF DispatchSpec, LoggedAsSentIsNotReposted

=============================================================================
