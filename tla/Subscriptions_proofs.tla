------------------------ MODULE Subscriptions_proofs ------------------------
(***************************************************************************)
(* What Subscriptions promises, for every number of records, contacts,     *)
(* codes and tokens: IInv is inductive, and TokenInv beside it; merges     *)
(* never run in a circle; the subscriptions implement Consent; and a rider *)
(* who leaves is opted out for good.                                       *)
(***************************************************************************)
EXTENDS Subscriptions, Consent, FunctionTheorems, WellFoundedInduction, TLAPS

\* The tables start out empty.
LEMMA InitTypeOK == Init => TypeOK
BY BoundsAssumption
   DEF Init, TypeOK, NoConfirmation, Confirmations, ConfIds, Statuses,
       ChannelStatuses, Channels, Contacts

\* Voiding tokens keeps the confirmation rows well typed.
LEMMA SupersedingType ==
    ASSUME confs \in [ConfIds -> Confirmations], NEW S
    PROVE  Superseding(S) \in [ConfIds -> Confirmations]
BY DEF Superseding, Confirmations

\* So does a merge.
LEMMA ConfirmedType ==
    ASSUME confs \in [ConfIds -> Confirmations],
           NEW c \in ConfIds, NEW moved, NEW voided, NEW v, moved = {} \/ v \in Subs
    PROVE  Confirmed(c, moved, voided, v) \in [ConfIds -> Confirmations]
BY DEF Confirmed, Confirmations

\* A token being confirmed is live, on a live record that holds the contact it
\* was sent to, and that contact was not stopped since.
LEMMA HeldToken ==
    ASSUME IInv, NEW c \in ConfIds, held[c] # {}
    PROVE  /\ Live(c) /\ c \in held[c]
           /\ confs[c].sub \in Subs /\ confs[c].channel \in Channels
           /\ Unmerged(confs[c].sub)
           /\ contact[confs[c].sub][confs[c].channel] = confs[c].to
           /\ confs[c].to \in Contacts(confs[c].channel)
           /\ confs[c].to # None
           /\ c > stopMark[confs[c].channel][confs[c].to]
BY NoneAssumption
   DEF IInv, TypeOK, LocksOK, TokensOK, LiveTokenIsAddressed, Confirmations, Contacts, Channels

\* Every operation keeps every column in its domain.
LEMMA NextTypeOK == IInv /\ [Next]_vars => TypeOK'
<1> SUFFICES ASSUME IInv, [Next]_vars PROVE TypeOK'
  OBVIOUS
<1> TypeOK
  BY DEF IInv
<1> USE DEF Channels, Statuses, ChannelStatuses
<1>1. ASSUME NEW r \in Subs, NEW given \in GivenContacts, NEW code \in Codes \cup {None},
             Subscribe(r, given, code)
      PROVE  TypeOK'
  <2>1. given \in [Channels -> Phones \cup Emails \cup {None}]
        /\ \A ch \in Channels : given[ch] \in Contacts(ch) \cup {None}
    BY DEF GivenContacts, Contacts
  <2>2. issued' \in 0 .. MaxConfs /\ issued' >= issued
    BY <1>1, BoundsAssumption DEF Subscribe, TypeOK
  <2>3. confs' \in [ConfIds -> Confirmations]
    <3>1. \A c \in ConfIds : confs'[c] \in Confirmations
      BY <1>1, <2>1, BoundsAssumption
         DEF Subscribe, TypeOK, NewConfirmation, Confirmations, Contacts
    <3> QED  BY <3>1, <1>1 DEF Subscribe
  <2>4. stopMark' \in [Channels -> [Phones \cup Emails -> 0 .. issued']]
    BY <1>1, <2>2 DEF Subscribe, TypeOK
  <2>5. /\ contact' \in [Subs -> [Channels -> Phones \cup Emails \cup {None}]]
        /\ \A o \in Subs : \A ch \in Channels : contact'[o][ch] \in Contacts(ch) \cup {None}
    BY <1>1, <2>1 DEF Subscribe, TypeOK
  <2>6. chan' \in [Subs -> [Channels -> ChannelStatuses]]
    BY <1>1, <2>1 DEF Subscribe, TypeOK
  <2> QED  BY <1>1, <2>2, <2>3, <2>4, <2>5, <2>6 DEF Subscribe, TypeOK
<1>2. ASSUME NEW ch \in Channels, NEW x \in Contacts(ch), NEW r \in Subs,
             NEW code \in Codes \cup {None}, ResendConfirmation(ch, x, r, code)
      PROVE  TypeOK'
  <2>1. Superseding(LiveOn(r, ch)) \in [ConfIds -> Confirmations]
    BY SupersedingType DEF TypeOK
  <2>2. NewConfirmation(r, ch, x, code) \in Confirmations
    BY BoundsAssumption DEF NewConfirmation, Confirmations, Contacts
  <2>3. confs' \in [ConfIds -> Confirmations]
    BY <1>2, <2>1, <2>2 DEF ResendConfirmation
  <2>4. issued' \in 0 .. MaxConfs /\ issued' >= issued
    BY <1>2, BoundsAssumption DEF ResendConfirmation, TypeOK
  <2>5. stopMark' \in [Channels -> [Phones \cup Emails -> 0 .. issued']]
    BY <1>2, <2>4 DEF ResendConfirmation, TypeOK
  <2> QED  BY <1>2, <2>3, <2>4, <2>5 DEF ResendConfirmation, TypeOK, rows
<1>3. ASSUME NEW c \in ConfIds, PresentEmailLink(c) PROVE TypeOK'
  BY <1>3 DEF PresentEmailLink, TypeOK, rows, clock
<1>4. ASSUME NEW x \in Phones, NEW c \in ConfIds, PresentSmsCode(x, c) PROVE TypeOK'
  BY <1>4 DEF PresentSmsCode, TypeOK, rows, clock, LiveFor
<1>5. ASSUME NEW x \in Phones, NEW code \in Codes, WrongSmsCode(x, code) PROVE TypeOK'
  <2>1. ASSUME NEW c \in ConfIds PROVE confs'[c] \in Confirmations
    <3>1. confs[c] \in Confirmations
      BY DEF TypeOK
    <3>2. CASE c \in Guessed(x)
      <4>1. confs[c].attempts < MaxAttempts /\ confs[c].attempts \in 0 .. MaxAttempts
        BY <3>1, <3>2 DEF Guessed, Eligible, Confirmations
      <4>2. confs[c].attempts + 1 \in 0 .. MaxAttempts
        BY <4>1, BoundsAssumption
      <4>3. [confs[c] EXCEPT !.attempts = @ + 1] \in Confirmations
        BY <3>1, <4>2 DEF Confirmations
      <4> QED  BY <1>5, <3>2, <4>3 DEF WrongSmsCode
    <3>3. CASE c \notin Guessed(x)
      BY <1>5, <3>1, <3>3 DEF WrongSmsCode
    <3> QED  BY <3>2, <3>3
  <2>2. confs' \in [ConfIds -> Confirmations]
    BY <1>5, <2>1 DEF WrongSmsCode
  <2> QED  BY <1>5, <2>2 DEF WrongSmsCode, TypeOK, rows, clock
<1>6. ASSUME NEW c \in ConfIds, ConfirmAndKeep(c) PROVE TypeOK'
  <2> DEFINE r == confs[c].sub
             ch == confs[c].channel
             retired == NeverProven(r, ch)
             voided == Voided(c, Duplicates(r, ch) \ retired, retired)
  <2>1. ch \in Channels /\ r \in Subs
    BY <1>6, HeldToken DEF ConfirmAndKeep
  <2>2. confs' \in [ConfIds -> Confirmations]
    BY <1>6, ConfirmedType DEF ConfirmAndKeep, TypeOK
  <2>3. chan' \in [Subs -> [Channels -> ChannelStatuses]]
    BY <1>6, <2>1 DEF ConfirmAndKeep, TypeOK
  <2>4. status' \in [Subs -> Statuses]
    BY <1>6 DEF ConfirmAndKeep, TypeOK
  <2>5. mergedInto' \in [Subs -> Subs \cup {None}]
    BY <1>6, <2>1 DEF ConfirmAndKeep, TypeOK
  <2>6. held' \in [ConfIds -> SUBSET ConfIds]
    BY <1>6 DEF ConfirmAndKeep, TypeOK
  <2> QED  BY <1>6, <2>2, <2>3, <2>4, <2>5, <2>6 DEF ConfirmAndKeep, TypeOK, clock
<1>7. ASSUME NEW c \in ConfIds, NEW v \in Subs, ConfirmAndFold(c, v) PROVE TypeOK'
  <2> DEFINE r == confs[c].sub
             ch == confs[c].channel
  <2>1. ch \in Channels /\ r \in Subs
    BY <1>7, HeldToken DEF ConfirmAndFold
  <2>2. confs' \in [ConfIds -> Confirmations]
    BY <1>7, ConfirmedType DEF ConfirmAndFold, TypeOK
  <2>3. chan' \in [Subs -> [Channels -> ChannelStatuses]]
    <3> DEFINE slots == [h \in Channels |-> IF h \in Takes(v, r) THEN chan[r][h] ELSE chan[v][h]]
    <3>1. slots \in [Channels -> ChannelStatuses]
      BY <2>1 DEF TypeOK
    <3>2. [chan EXCEPT ![v] = slots] \in [Subs -> [Channels -> ChannelStatuses]]
      BY <3>1 DEF TypeOK
    <3>3. chan' = [[chan EXCEPT ![v] = slots] EXCEPT ![r][ch] = "confirmed"]
      BY <1>7 DEF ConfirmAndFold
    <3> HIDE DEF slots
    <3> QED  BY <2>1, <3>2, <3>3
  <2>4. status' \in [Subs -> Statuses]
    BY <1>7 DEF ConfirmAndFold, TypeOK
  <2>5. mergedInto' \in [Subs -> Subs \cup {None}]
    BY <1>7 DEF ConfirmAndFold, TypeOK
  <2>6. held' \in [ConfIds -> SUBSET ConfIds]
    BY <1>7 DEF ConfirmAndFold, TypeOK
  <2>7. prefs' \in [Subs -> SUBSET Subs]
    <3>1. prefs' = [prefs EXCEPT ![v] = prefs[v] \cup prefs[r]]
      BY <1>7 DEF ConfirmAndFold, MergedPrefs
    <3>2. prefs \in [Subs -> SUBSET Subs]
      BY DEF TypeOK
    <3> HIDE DEF r
    <3> QED  BY <2>1, <3>1, <3>2
  <2>8. /\ contact' \in [Subs -> [Channels -> Phones \cup Emails \cup {None}]]
        /\ \A o \in Subs : \A h \in Channels : contact'[o][h] \in Contacts(h) \cup {None}
    <3> DEFINE slots == [h \in Channels |-> IF h \in Takes(v, r) THEN contact[r][h]
                                            ELSE contact[v][h]]
    <3>1. contact' = [contact EXCEPT ![v] = slots]
      BY <1>7 DEF ConfirmAndFold
    <3>2. /\ slots \in [Channels -> Phones \cup Emails \cup {None}]
          /\ \A h \in Channels : slots[h] \in Contacts(h) \cup {None}
      BY <2>1 DEF TypeOK
    <3> HIDE DEF slots
    <3> QED  BY <3>1, <3>2 DEF TypeOK
  <2> QED  BY <1>7, <2>2, <2>3, <2>4, <2>5, <2>6, <2>7, <2>8 DEF ConfirmAndFold, TypeOK, clock
<1>8. ASSUME NEW c \in ConfIds, AbandonConfirm(c) PROVE TypeOK'
  BY <1>8 DEF AbandonConfirm, TypeOK, rows, clock
<1>9. ASSUME NEW ch \in Channels, NEW x \in Contacts(ch), OptOut(ch, x) PROVE TypeOK'
  <2>1. confs' \in [ConfIds -> Confirmations]
    BY <1>9, SupersedingType DEF OptOut, TypeOK
  <2>2. chan' \in [Subs -> [Channels -> ChannelStatuses]]
    BY <1>9 DEF OptOut, TypeOK
  <2>3. status' \in [Subs -> Statuses]
    BY <1>9 DEF OptOut, TypeOK
  <2>4. stopMark' \in [Channels -> [Phones \cup Emails -> 0 .. issued]]
    BY <1>9, BoundsAssumption DEF OptOut, TypeOK, Contacts
  <2> QED  BY <1>9, <2>1, <2>2, <2>3, <2>4 DEF OptOut, TypeOK, clock
<1>10. ASSUME NEW ch \in Channels, NEW x \in Contacts(ch), NEW r \in Subs,
              RequestManageLink(ch, x, r)
       PROVE  TypeOK'
  BY <1>10 DEF RequestManageLink, TypeOK, clock
<1>11. ASSUME NEW k \in Subs, NEW keep \in SUBSET Channels, WritePreferences(k, keep)
       PROVE  TypeOK'
  <2>1. chan' \in [Subs -> [Channels -> ChannelStatuses]]
    <3> DEFINE r == Resolved(k)
               kept == [h \in Channels |-> IF chan[r][h] = None \/ h \in keep THEN chan[r][h]
                                           ELSE "unsubscribed"]
    <3>1. chan' = [chan EXCEPT ![r] = kept]
      BY <1>11 DEF WritePreferences
    <3>2. r \in Subs => kept \in [Channels -> ChannelStatuses]
      BY DEF TypeOK
    <3> HIDE DEF kept, r
    <3> QED  BY <3>1, <3>2 DEF TypeOK
  <2>2. status' \in [Subs -> Statuses]
    BY <1>11 DEF WritePreferences, TypeOK
  <2>3. prefs' \in [Subs -> SUBSET Subs]
    <3> DEFINE r == Resolved(k)
    <3>1. prefs' = [prefs EXCEPT ![r] = {r}]
      BY <1>11 DEF WritePreferences
    <3>2. prefs \in [Subs -> SUBSET Subs]
      BY DEF TypeOK
    <3> HIDE DEF r
    <3> QED  BY <3>1, <3>2
  <2> QED  BY <1>11, <2>1, <2>2, <2>3 DEF WritePreferences, TypeOK, clock
<1>12. ASSUME NEW k \in Subs, UnsubscribeAll(k) PROVE TypeOK'
  <2>1. chan' \in [Subs -> [Channels -> ChannelStatuses]]
    BY <1>12 DEF UnsubscribeAll, TypeOK
  <2>2. confs' \in [ConfIds -> Confirmations]
    BY <1>12, SupersedingType DEF UnsubscribeAll, TypeOK
  <2> QED  BY <1>12, <2>1, <2>2 DEF UnsubscribeAll, TypeOK, clock
<1>13. CASE CooldownPasses
  BY <1>13 DEF CooldownPasses, TypeOK, rows
<1>14. CASE TokenExpires
  BY <1>14 DEF TokenExpires, TypeOK, rows
<1>15. CASE UNCHANGED vars
  BY <1>15 DEF vars, TypeOK
<1> QED
  BY <1>1, <1>2, <1>3, <1>4, <1>5, <1>6, <1>7, <1>8, <1>9, <1>10, <1>11, <1>12,
     <1>13, <1>14, <1>15 DEF Next

-----------------------------------------------------------------------------
(* What the operators on the confirmation rows do to one row.               *)

\* Superseding changes the state of the rows in S and nothing else.
LEMMA SupersedingRow ==
    ASSUME TypeOK, NEW S, NEW d \in ConfIds
    PROVE  /\ Superseding(S)[d].sub = confs[d].sub
           /\ Superseding(S)[d].channel = confs[d].channel
           /\ Superseding(S)[d].to = confs[d].to
           /\ Superseding(S)[d].attempts = confs[d].attempts
           /\ Superseding(S)[d].state =
                 IF d \in S THEN "superseded" ELSE confs[d].state
BY DEF TypeOK, Superseding, Confirmations

\* A merge spends token c, moves some rows to record v, supersedes others.
LEMMA ConfirmedRow ==
    ASSUME TypeOK, NEW c \in ConfIds, NEW moved, NEW voided, NEW v, NEW d \in ConfIds
    PROVE  /\ Confirmed(c, moved, voided, v)[d].sub =
                 IF d # c /\ d \in moved THEN v ELSE confs[d].sub
           /\ Confirmed(c, moved, voided, v)[d].channel = confs[d].channel
           /\ Confirmed(c, moved, voided, v)[d].to = confs[d].to
           /\ Confirmed(c, moved, voided, v)[d].state =
                 IF d = c THEN "confirmed"
                 ELSE IF d \in voided /\ d \notin moved THEN "superseded"
                 ELSE confs[d].state
BY DEF TypeOK, Confirmed, Confirmations

\* Counting a wrong guess leaves all else of a row as it is.
LEMMA GuessRow ==
    ASSUME TypeOK, NEW x, NEW code, WrongSmsCode(x, code), NEW d \in ConfIds
    PROVE  /\ confs'[d].sub = confs[d].sub
           /\ confs'[d].channel = confs[d].channel
           /\ confs'[d].to = confs[d].to
           /\ confs'[d].state = confs[d].state
BY DEF TypeOK, WrongSmsCode, Confirmations

\* Signing up adds one or two live rows for the new record, after the others.
LEMMA SubscribeRow ==
    ASSUME TypeOK, NEW r \in Subs, NEW given \in GivenContacts, NEW code,
           Subscribe(r, given, code), NEW d \in ConfIds
    PROVE  \/ confs'[d] = confs[d] /\ (d \leq issued \/ d > issued')
           \/ /\ d > issued /\ d \leq issued'
              /\ confs'[d].sub = r /\ confs'[d].channel \in Channels
              /\ confs'[d].to = given[confs'[d].channel]
              /\ confs'[d].to # None /\ confs'[d].state = "live"
<1>1. issued \in Int /\ d \in Int
  BY BoundsAssumption DEF TypeOK, ConfIds
<1> QED
  BY <1>1 DEF TypeOK, Subscribe, NewConfirmation, Channels

\* A resend supersedes the record's live rows of the channel and adds one.
LEMMA ResendRow ==
    ASSUME TypeOK, NEW ch \in Channels, NEW x, NEW r, NEW code,
           ResendConfirmation(ch, x, r, code), NEW d \in ConfIds
    PROVE  IF d = issued + 1
           THEN /\ confs'[d].sub = r /\ confs'[d].channel = ch
                /\ confs'[d].to = x /\ confs'[d].state = "live"
           ELSE /\ confs'[d].sub = confs[d].sub
                /\ confs'[d].channel = confs[d].channel
                /\ confs'[d].to = confs[d].to
                /\ confs'[d].state = IF d \in LiveOn(r, ch) THEN "superseded"
                                     ELSE confs[d].state
<1>1. confs' = [Superseding(LiveOn(r, ch)) EXCEPT ![issued + 1] =
                    NewConfirmation(r, ch, x, code)]
  BY DEF ResendConfirmation
<1>2. Superseding(LiveOn(r, ch)) \in [ConfIds -> Confirmations]
  BY SupersedingType DEF TypeOK
<1> QED
  BY <1>1, <1>2, SupersedingRow DEF NewConfirmation

-----------------------------------------------------------------------------
(* Every operation preserves the inductive invariant: Rest is what it adds  *)
(* to TypeOK.                                                               *)

Rest ==
    RowsOK /\ TokensOK /\ LocksOK /\ LiveTokenIsAddressed /\ OneOwner /\ StopIsFinal

\* A new record owns nothing, and no token or lock is disturbed by it.
LEMMA SubscribeKeeps ==
    ASSUME IInv, NEW r \in Subs, NEW given \in GivenContacts, NEW code,
           Subscribe(r, given, code)
    PROVE  Rest'
<1> TypeOK /\ RowsOK /\ TokensOK /\ LocksOK /\ LiveTokenIsAddressed /\ OneOwner /\ StopIsFinal
  BY DEF IInv
<1>1. \A ch \in Channels : given[ch] \in Contacts(ch) \cup {None}
  BY DEF GivenContacts, Contacts, Channels
<1>2. \A o \in Subs \ {r} : /\ status'[o] = status[o] /\ chan'[o] = chan[o]
                            /\ contact'[o] = contact[o] /\ mergedInto'[o] = mergedInto[o]
  BY DEF Subscribe, TypeOK
<1>3. /\ status[r] = "absent" /\ status'[r] = "pending_confirmation"
      /\ mergedInto'[r] = None
      /\ contact'[r] = given
      /\ \A ch \in Channels : chan'[r][ch] # "confirmed"
  BY NoneAssumption DEF Subscribe, TypeOK, RowsOK
<1>4. stopMark' = stopMark /\ held' = held
  BY DEF Subscribe
<1>5. \A d \in ConfIds : confs[d].state # "unissued" => confs'[d] = confs[d]
  BY SubscribeRow DEF TokensOK, TypeOK, ConfIds
<1>6. RowsOK'
  BY <1>2, <1>3 DEF RowsOK
<1>7. TokensOK'
  <2> SUFFICES ASSUME NEW d \in ConfIds
               PROVE  /\ confs'[d].state = "unissued" <=> d > issued'
                      /\ Live(d)' => /\ confs'[d].sub \in Subs
                                     /\ confs'[d].to \in Contacts(confs'[d].channel)
                                     /\ d > stopMark'[confs'[d].channel][confs'[d].to]
    BY DEF TokensOK
  <2>1. CASE confs'[d] = confs[d] /\ (d \leq issued \/ d > issued')
    <3>1. issued \leq issued' /\ issued \in Int /\ issued' \in Int
      BY BoundsAssumption DEF Subscribe, TypeOK
    <3>2. confs'[d].state = "unissued" <=> d > issued'
      BY <2>1, <3>1 DEF TokensOK, ConfIds
    <3>3. Live(d)' => Live(d)
      BY <2>1 DEF Live
    <3> QED  BY <2>1, <1>4, <3>2, <3>3 DEF TokensOK
  <2>2. CASE /\ d > issued /\ d \leq issued'
             /\ confs'[d].sub = r /\ confs'[d].channel \in Channels
             /\ confs'[d].to = given[confs'[d].channel]
             /\ confs'[d].to # None /\ confs'[d].state = "live"
    <3>1. confs'[d].to \in Contacts(confs'[d].channel)
      BY <2>2, <1>1
    <3>2. stopMark[confs'[d].channel][confs'[d].to] \in 0 .. issued
      BY <2>2, <3>1 DEF TypeOK, Contacts
    <3>3. issued' \in Int
      BY DEF Subscribe, TypeOK
    <3> QED  BY <2>2, <3>1, <3>2, <3>3, <1>4 DEF Live, ConfIds, TypeOK
  <2> QED  BY <2>1, <2>2, SubscribeRow
<1>8. LocksOK'
  BY <1>4, <1>5 DEF LocksOK, Live, TypeOK
<1>9. LiveTokenIsAddressed'
  <2> SUFFICES ASSUME NEW d \in ConfIds, Live(d)'
               PROVE  /\ Unmerged(confs[d].sub)'
                      /\ contact'[confs'[d].sub][confs'[d].channel] = confs'[d].to
    BY DEF LiveTokenIsAddressed
  <2>1. CASE confs'[d] = confs[d]
    <3>1. Live(d) /\ confs[d].sub \in Subs /\ Unmerged(confs[d].sub)
      BY <2>1 DEF Live, TokensOK, LiveTokenIsAddressed
    <3>2. confs[d].sub # r
      BY <3>1, <1>3 DEF Unmerged
    <3> QED  BY <2>1, <3>1, <3>2, <1>2 DEF Unmerged, LiveTokenIsAddressed
  <2>2. CASE confs'[d].sub = r /\ confs'[d].to = given[confs'[d].channel]
    BY <2>2, <1>3 DEF Unmerged
  <2> QED  BY <2>1, <2>2, SubscribeRow
<1>10. OneOwner'
  BY <1>2, <1>3 DEF OneOwner, Unmerged
<1>11. StopIsFinal'
  <2> SUFFICES ASSUME NEW o \in Subs, NEW ch \in Channels,
                      Unmerged(o)', chan'[o][ch] = "confirmed"
               PROVE  \E c \in ConfIds : /\ confs'[c].state = "confirmed"
                                         /\ confs'[c].channel = ch
                                         /\ confs'[c].to = contact'[o][ch]
                                         /\ c > stopMark'[ch][contact'[o][ch]]
    BY DEF StopIsFinal
  <2>1. o # r
    BY <1>3
  <2>2. PICK c \in ConfIds : /\ confs[c].state = "confirmed"
                             /\ confs[c].channel = ch
                             /\ confs[c].to = contact[o][ch]
                             /\ c > stopMark[ch][contact[o][ch]]
    BY <2>1, <1>2 DEF StopIsFinal, Unmerged
  <2> QED  BY <2>1, <2>2, <1>2, <1>4, <1>5
<1> QED  BY <1>6, <1>7, <1>8, <1>9, <1>10, <1>11 DEF Rest

\* Where the rows of Subscribers, the marks and the locks stay as they are, and
\* no token becomes live or is unspent, the invariant stays.
LEMMA FrameKeeps ==
    ASSUME IInv,
           UNCHANGED <<status, contact, chan, mergedInto, issued, stopMark, held>>,
           \A d \in ConfIds : /\ confs'[d].sub = confs[d].sub
                              /\ confs'[d].channel = confs[d].channel
                              /\ confs'[d].to = confs[d].to
                              /\ confs'[d].state = confs[d].state
    PROVE  Rest'
<1>1. RowsOK' /\ OneOwner'
  BY DEF IInv, RowsOK, OneOwner, Unmerged
<1>2. TokensOK' /\ LiveTokenIsAddressed'
  BY DEF IInv, TokensOK, LiveTokenIsAddressed, Live, Unmerged
<1>3. LocksOK'
  BY DEF IInv, TypeOK, LocksOK, Live
<1>4. StopIsFinal'
  BY DEF IInv, StopIsFinal, Unmerged
<1> QED  BY <1>1, <1>2, <1>3, <1>4 DEF Rest

\* A transaction takes the locks S, which nobody else holds, or lets go of all.
LEMMA LockKeeps ==
    ASSUME IInv, NEW c \in ConfIds, NEW S \in SUBSET ConfIds,
           UNCHANGED <<status, contact, chan, mergedInto, issued, stopMark, confs>>,
           held' = [held EXCEPT ![c] = S],
           S # {} => c \in S,
           \A d \in S : Live(d),
           Unlocked(S)
    PROVE  Rest'
<1>1. RowsOK' /\ OneOwner' /\ TokensOK' /\ LiveTokenIsAddressed' /\ StopIsFinal'
  BY DEF IInv, RowsOK, OneOwner, TokensOK, LiveTokenIsAddressed, StopIsFinal, Live, Unmerged
<1>2. LocksOK'
  <2>1. \A d \in ConfIds : held'[d] = IF d = c THEN S ELSE held[d]
    BY DEF IInv, TypeOK
  <2>2. \A d \in ConfIds : Live(d)' <=> Live(d)
    BY DEF Live
  <2>3. LocksOK /\ \A d \in ConfIds : held[d] \cap S = {} /\ held[d] \subseteq ConfIds
    BY DEF IInv, Unlocked, TypeOK
  <2> QED  BY <2>1, <2>2, <2>3 DEF LocksOK
<1> QED  BY <1>1, <1>2 DEF Rest

\* Stopping: channels only leave "confirmed", records only become opted out,
\* unlocked tokens S are voided; where a contact's mark moves, no record has it
\* confirmed any more and no token for it is left.
LEMMA StopKeeps ==
    ASSUME IInv, NEW S, Unlocked(S),
           UNCHANGED <<contact, mergedInto, issued, held>>,
           \A r \in Subs : \A ch \in Channels :
              chan'[r][ch] = "confirmed" =>
                 chan[r][ch] = "confirmed" /\ status'[r] # "opted_out",
           \A r \in Subs : status'[r] \in {status[r], "opted_out"},
           \A d \in ConfIds : /\ confs'[d].sub = confs[d].sub
                              /\ confs'[d].channel = confs[d].channel
                              /\ confs'[d].to = confs[d].to
                              /\ confs'[d].state = IF d \in S THEN "superseded"
                                                   ELSE confs[d].state,
           \A d \in S \cap ConfIds : Live(d),
           \A ch \in Channels, x \in Phones \cup Emails :
              \/ stopMark'[ch][x] = stopMark[ch][x]
              \/ /\ \A r \in Subs : ~(/\ Unmerged(r) /\ contact[r][ch] = x
                                      /\ chan'[r][ch] = "confirmed")
                 /\ \A d \in ConfIds \ S :
                       ~(Live(d) /\ confs[d].channel = ch /\ confs[d].to = x)
    PROVE  Rest'
<1> TypeOK /\ RowsOK /\ TokensOK /\ LocksOK /\ LiveTokenIsAddressed /\ OneOwner /\ StopIsFinal
  BY DEF IInv
<1>1. \A d \in ConfIds : Live(d)' <=> Live(d) /\ d \notin S
  BY DEF Live
<1>2. \A r \in Subs : \A ch \in Channels :
         Unmerged(r)' /\ chan'[r][ch] = "confirmed" =>
            Unmerged(r) /\ chan[r][ch] = "confirmed"
  BY DEF Unmerged
<1>3. RowsOK'
  BY DEF RowsOK
<1>4. OneOwner'
  BY <1>2 DEF OneOwner
<1>5. TokensOK'
  <2> SUFFICES ASSUME NEW d \in ConfIds
               PROVE  /\ confs'[d].state = "unissued" <=> d > issued'
                      /\ Live(d)' => /\ confs'[d].sub \in Subs
                                     /\ confs'[d].to \in Contacts(confs'[d].channel)
                                     /\ d > stopMark'[confs'[d].channel][confs'[d].to]
    BY DEF TokensOK
  <2>1. confs'[d].state = "unissued" <=> d > issued'
    BY DEF TokensOK, Live
  <2>2. ASSUME Live(d)'
        PROVE  /\ confs'[d].sub \in Subs
               /\ confs'[d].to \in Contacts(confs'[d].channel)
               /\ d > stopMark'[confs'[d].channel][confs'[d].to]
    <3>1. Live(d) /\ d \notin S
      BY <1>1, <2>2
    <3>2. confs[d].channel \in Channels /\ confs[d].to \in Phones \cup Emails
      BY <3>1 DEF TokensOK, TypeOK, Confirmations, Contacts
    <3> QED  BY <3>1, <3>2 DEF TokensOK
  <2> QED  BY <2>1, <2>2
<1>6. LocksOK'
  BY <1>1 DEF LocksOK, Unlocked, TypeOK
<1>7. LiveTokenIsAddressed'
  BY <1>1 DEF LiveTokenIsAddressed, TokensOK, Unmerged
<1>8. StopIsFinal'
  <2> SUFFICES ASSUME NEW r \in Subs, NEW ch \in Channels,
                      Unmerged(r)', chan'[r][ch] = "confirmed"
               PROVE  \E c \in ConfIds : /\ confs'[c].state = "confirmed"
                                         /\ confs'[c].channel = ch
                                         /\ confs'[c].to = contact'[r][ch]
                                         /\ c > stopMark'[ch][contact'[r][ch]]
    BY DEF StopIsFinal
  <2>1. Unmerged(r) /\ chan[r][ch] = "confirmed"
    BY <1>2
  <2>2. PICK c \in ConfIds : /\ confs[c].state = "confirmed"
                             /\ confs[c].channel = ch
                             /\ confs[c].to = contact[r][ch]
                             /\ c > stopMark[ch][contact[r][ch]]
    BY <2>1 DEF StopIsFinal
  <2>3. contact[r][ch] \in Phones \cup Emails
    BY <2>1 DEF TypeOK, RowsOK, Contacts
  <2>4. stopMark'[ch][contact[r][ch]] = stopMark[ch][contact[r][ch]]
    BY <2>1, <2>3
  <2>5. confs'[c].state = "confirmed"
    BY <2>2 DEF Live
  <2> QED  BY <2>2, <2>4, <2>5
<1> QED  BY <1>3, <1>4, <1>5, <1>6, <1>7, <1>8 DEF Rest

\* optOut reaches every record and every token of the contact.
LEMMA OptOutKeeps ==
    ASSUME IInv, NEW ch \in Channels, NEW x \in Contacts(ch), OptOut(ch, x)
    PROVE  Rest'
<1> TypeOK /\ RowsOK /\ TokensOK /\ LiveTokenIsAddressed
  BY DEF IInv
<1> DEFINE S == LiveFor(ch, x)
<1>1. Unlocked(S) /\ confs' = Superseding(S) /\ UNCHANGED <<contact, mergedInto, issued, held>>
  BY DEF OptOut, clock
<1>2. \A d \in S \cap ConfIds : Live(d)
  BY DEF LiveFor
<1>3. \A r \in Subs :
         /\ \A h \in Channels : chan'[r][h] = "confirmed" => chan[r][h] = "confirmed"
         /\ status'[r] \in {status[r], "opted_out"}
  BY DEF OptOut, TypeOK
<1>4. \A r \in Subs : \A h \in Channels :
         chan'[r][h] = "confirmed" => status'[r] # "opted_out"
  <2> SUFFICES ASSUME NEW r \in Subs, NEW h \in Channels,
                      chan'[r][h] = "confirmed", status'[r] = "opted_out"
               PROVE  FALSE
    OBVIOUS
  <2>1. chan[r][h] = "confirmed" /\ status[r] # "opted_out"
    BY <1>3 DEF RowsOK
  <2>2. /\ chan'[r] = [chan[r] EXCEPT ![ch] = "unsubscribed"]
        /\ chan[r][Other(ch)] \in {None, "unsubscribed"}
    BY <2>1 DEF OptOut
  <2>3. h = Other(ch)
    BY <2>2 DEF Other, Channels, TypeOK
  <2> QED  BY <2>1, <2>2, <2>3, NoneAssumption
<1>5. ASSUME NEW h \in Channels, NEW y \in Phones \cup Emails
      PROVE  \/ stopMark'[h][y] = stopMark[h][y]
             \/ /\ \A r \in Subs : ~(/\ Unmerged(r) /\ contact[r][h] = y
                                     /\ chan'[r][h] = "confirmed")
                /\ \A d \in ConfIds \ S :
                      ~(Live(d) /\ confs[d].channel = h /\ confs[d].to = y)
  <2>1. CASE h = ch /\ y = x
    <3>1. \A r \in Subs : ~(Unmerged(r) /\ contact[r][h] = y /\ chan'[r][h] = "confirmed")
      BY <2>1 DEF OptOut, TypeOK
    <3>2. \A d \in ConfIds \ S : ~(Live(d) /\ confs[d].channel = h /\ confs[d].to = y)
      BY <2>1 DEF LiveFor, LiveTokenIsAddressed
    <3> QED  BY <3>1, <3>2
  <2>2. CASE ~(h = ch /\ y = x)
    BY <2>2 DEF OptOut, TypeOK
  <2> QED  BY <2>1, <2>2
<1> HIDE DEF S
<1> QED  BY <1>1, <1>2, <1>3, <1>4, <1>5, SupersedingRow, StopKeeps

\* The preference page stops channels of one record and touches no token.
LEMMA WritePreferencesKeeps ==
    ASSUME IInv, NEW k \in Subs, NEW keep \in SUBSET Channels, WritePreferences(k, keep)
    PROVE  Rest'
<1> TypeOK /\ RowsOK
  BY DEF IInv
<1> DEFINE r == Resolved(k)
           kept == [h \in Channels |-> IF chan[r][h] = None \/ h \in keep THEN chan[r][h]
                                       ELSE "unsubscribed"]
<1>1. /\ chan' = [chan EXCEPT ![r] = kept]
      /\ status' = [status EXCEPT ![r] =
            IF \A h \in Channels : kept[h] \in {None, "unsubscribed"}
            THEN "opted_out" ELSE @]
      /\ UNCHANGED <<contact, mergedInto, issued, confs, held, stopMark>>
  BY DEF WritePreferences, clock
<1>2. \A h \in Channels : kept[h] = "confirmed" => chan[r][h] = "confirmed"
  OBVIOUS
<1> HIDE DEF kept, r
<1>3. \A o \in Subs : \A h \in Channels :
         chan'[o][h] = "confirmed" => chan[o][h] = "confirmed" /\ status'[o] # "opted_out"
  BY <1>1, <1>2, NoneAssumption DEF TypeOK, RowsOK
<1>4. \A o \in Subs : status'[o] \in {status[o], "opted_out"}
  BY <1>1 DEF TypeOK
<1>5. Unlocked({})
  BY DEF Unlocked
<1> QED  BY <1>1, <1>3, <1>4, <1>5, StopKeeps

\* Unsubscribing stops every channel of one record and voids its tokens.
LEMMA UnsubscribeAllKeeps ==
    ASSUME IInv, NEW k \in Subs, UnsubscribeAll(k)
    PROVE  Rest'
<1> TypeOK /\ RowsOK
  BY DEF IInv
<1> DEFINE r == Resolved(k)
           S == LiveOf(r)
<1>1. /\ Unlocked(S) /\ confs' = Superseding(S)
      /\ chan' = [chan EXCEPT ![r] =
            [h \in Channels |-> IF @[h] = None THEN None ELSE "unsubscribed"]]
      /\ status' = [status EXCEPT ![r] = "opted_out"]
      /\ UNCHANGED <<contact, mergedInto, issued, held, stopMark>>
  BY DEF UnsubscribeAll, clock
<1>2. \A d \in S \cap ConfIds : Live(d)
  BY DEF LiveOf
<1> HIDE DEF r, S
<1>3. \A o \in Subs : \A h \in Channels :
         chan'[o][h] = "confirmed" => chan[o][h] = "confirmed" /\ status'[o] # "opted_out"
  BY <1>1, NoneAssumption DEF TypeOK, RowsOK
<1>4. \A o \in Subs : status'[o] \in {status[o], "opted_out"}
  BY <1>1 DEF TypeOK
<1> QED  BY <1>1, <1>2, <1>3, <1>4, SupersedingRow, StopKeeps

\* The replacement token is the newest of all, and sent to the same contact.
LEMMA ResendKeeps ==
    ASSUME IInv, NEW ch \in Channels, NEW x \in Contacts(ch), NEW r \in Subs, NEW code,
           ResendConfirmation(ch, x, r, code)
    PROVE  Rest'
<1> TypeOK /\ RowsOK /\ TokensOK /\ LocksOK /\ LiveTokenIsAddressed /\ OneOwner /\ StopIsFinal
  BY DEF IInv
<1>1. UNCHANGED <<status, contact, chan, mergedInto, held, stopMark>> /\ issued' = issued + 1
  BY DEF ResendConfirmation, rows
<1>2. Unmerged(r) /\ contact[r][ch] = x
  BY DEF ResendConfirmation, Waiting
<1>3. issued \in Nat /\ \A d \in ConfIds : d \in Int
  BY BoundsAssumption DEF TypeOK, ConfIds
<1>4. \A d \in ConfIds : d # issued + 1 =>
         /\ Live(d)' <=> Live(d) /\ d \notin LiveOn(r, ch)
         /\ confs'[d].state = "confirmed" <=> confs[d].state = "confirmed"
         /\ confs'[d].state = "unissued" <=> confs[d].state = "unissued"
         /\ confs'[d].sub = confs[d].sub
         /\ confs'[d].channel = confs[d].channel
         /\ confs'[d].to = confs[d].to
  BY ResendRow DEF Live, LiveOn, LiveOf
<1>5. issued + 1 \in ConfIds =>
         /\ confs'[issued + 1].sub = r /\ confs'[issued + 1].channel = ch
         /\ confs'[issued + 1].to = x /\ confs'[issued + 1].state = "live"
         /\ confs[issued + 1].state = "unissued"
  BY <1>3, ResendRow DEF TokensOK
<1>6. RowsOK' /\ OneOwner'
  BY <1>1 DEF RowsOK, OneOwner, Unmerged
<1>7. TokensOK'
  <2>1. stopMark[ch][x] \in 0 .. issued
    BY DEF TypeOK, Contacts
  <2> QED  BY <1>1, <1>3, <1>4, <1>5, <2>1 DEF TokensOK, Live
<1>8. LocksOK'
  BY <1>1, <1>4, <1>5 DEF LocksOK, Live, TypeOK, ResendConfirmation, Unlocked
<1>9. LiveTokenIsAddressed'
  BY <1>1, <1>2, <1>4, <1>5 DEF LiveTokenIsAddressed, Unmerged
<1>10. StopIsFinal'
  <2> SUFFICES ASSUME NEW o \in Subs, NEW h \in Channels,
                      Unmerged(o)', chan'[o][h] = "confirmed"
               PROVE  \E c \in ConfIds : /\ confs'[c].state = "confirmed"
                                         /\ confs'[c].channel = h
                                         /\ confs'[c].to = contact'[o][h]
                                         /\ c > stopMark'[h][contact'[o][h]]
    BY DEF StopIsFinal
  <2>1. PICK c \in ConfIds : /\ confs[c].state = "confirmed"
                             /\ confs[c].channel = h
                             /\ confs[c].to = contact[o][h]
                             /\ c > stopMark[h][contact[o][h]]
    BY <1>1 DEF StopIsFinal, Unmerged
  <2>2. c # issued + 1
    BY <2>1, <1>5
  <2> QED  BY <2>1, <2>2, <1>1, <1>4
<1> QED  BY <1>6, <1>7, <1>8, <1>9, <1>10 DEF Rest

\* The record in hand becomes the one owner of its contact: no other live
\* record had it confirmed, for it would have been the survivor.
LEMMA ConfirmAndKeepKeeps ==
    ASSUME IInv, NEW c \in ConfIds, ConfirmAndKeep(c)
    PROVE  Rest'
<1> TypeOK /\ RowsOK /\ TokensOK /\ LocksOK /\ LiveTokenIsAddressed /\ OneOwner /\ StopIsFinal
  BY DEF IInv
<1> DEFINE r == confs[c].sub
           ch == confs[c].channel
           retired == NeverProven(r, ch)
           voided == Voided(c, Duplicates(r, ch) \ retired, retired)
<1>1. /\ Live(c) /\ c \in held[c] /\ r \in Subs /\ ch \in Channels /\ Unmerged(r)
      /\ contact[r][ch] = confs[c].to
      /\ confs[c].to \in Contacts(ch) /\ confs[c].to # None
      /\ c > stopMark[ch][confs[c].to]
  BY HeldToken DEF ConfirmAndKeep
<1>2. /\ chan' = [chan EXCEPT ![r][ch] = "confirmed"]
      /\ status' = [o \in Subs |-> IF o = r THEN "confirmed"
                                   ELSE IF o \in retired THEN "merged" ELSE status[o]]
      /\ mergedInto' = [o \in Subs |-> IF o \in retired THEN r ELSE mergedInto[o]]
      /\ confs' = Confirmed(c, {}, voided, r)
      /\ held' = [held EXCEPT ![c] = {}]
      /\ \A d \in ConfIds \ {c} : held[d] \cap voided = {}
      /\ Established(r, ch) = {}
      /\ UNCHANGED <<contact, issued, stopMark>>
  BY DEF ConfirmAndKeep, clock
<1>3. \A o \in retired : o \in Subs \ {r} /\ Unmerged(o)
  BY DEF NeverProven, Duplicates
<1>4. \A d \in ConfIds : Live(d) /\ confs[d].sub \in retired => d \in voided \cup {c}
  BY DEF Voided
<1>5. \A d \in ConfIds : /\ confs'[d].sub = confs[d].sub
                         /\ confs'[d].channel = confs[d].channel
                         /\ confs'[d].to = confs[d].to
                         /\ confs'[d].state = IF d = c THEN "confirmed"
                                              ELSE IF d \in voided THEN "superseded"
                                              ELSE confs[d].state
  BY <1>2, ConfirmedRow
<1>6. \A d \in voided : Live(d)
  BY DEF Voided
<1> HIDE DEF r, ch, retired, voided
<1>7. \A o \in Subs : Unmerged(o)' => Unmerged(o) /\ o \notin retired
  <2> SUFFICES ASSUME NEW o \in Subs, Unmerged(o)'
               PROVE  Unmerged(o) /\ o \notin retired
    OBVIOUS
  <2>1. o \notin retired
    BY <1>1, <1>2, NoneAssumption DEF Unmerged
  <2>2. mergedInto[o] = None
    BY <1>2, <2>1 DEF Unmerged
  <2>3. o # r => status[o] # "absent"
    BY <1>2, <2>1 DEF Unmerged
  <2> QED  BY <1>1, <2>1, <2>2, <2>3 DEF Unmerged
<1>8. \A o \in Subs : \A h \in Channels :
         chan'[o][h] = IF o = r /\ h = ch THEN "confirmed" ELSE chan[o][h]
  BY <1>1, <1>2 DEF TypeOK
<1>9. RowsOK'
  BY <1>1, <1>2, <1>3, <1>8, NoneAssumption DEF RowsOK, Unmerged
<1>10. OneOwner'
  <2> SUFFICES ASSUME NEW o \in Subs, Unmerged(o), o # r, chan[o][ch] = "confirmed",
                      contact[o][ch] = contact[r][ch]
               PROVE  FALSE
    BY <1>1, <1>2, <1>7, <1>8 DEF OneOwner
  <2>1. o \in Established(r, ch)
    BY <1>1 DEF Established, Duplicates, RowsOK
  <2> QED  BY <2>1, <1>2
<1>11. TokensOK'
  BY <1>1, <1>2, <1>5, <1>6 DEF TokensOK, Live
<1>12. LocksOK'
  <2>1. \A d \in ConfIds : held'[d] = IF d = c THEN {} ELSE held[d]
    BY <1>2 DEF TypeOK
  <2>2. \A d \in ConfIds \ {c} : \A e \in held[d] : e # c /\ e \notin voided /\ e \in ConfIds
    BY <1>1, <1>2 DEF LocksOK, TypeOK
  <2> QED  BY <2>1, <2>2, <1>5 DEF LocksOK, Live
<1>13. LiveTokenIsAddressed'
  <2> SUFFICES ASSUME NEW d \in ConfIds, Live(d)'
               PROVE  /\ Unmerged(confs[d].sub)'
                      /\ contact'[confs'[d].sub][confs'[d].channel] = confs'[d].to
    BY DEF LiveTokenIsAddressed
  <2>1. Live(d) /\ d # c /\ d \notin voided
    BY <1>5 DEF Live
  <2>2. confs[d].sub \in Subs /\ Unmerged(confs[d].sub) /\ confs[d].sub \notin retired
    BY <2>1, <1>4 DEF TokensOK, LiveTokenIsAddressed
  <2> QED  BY <2>1, <2>2, <1>2, <1>5 DEF LiveTokenIsAddressed, Unmerged
<1>14. StopIsFinal'
  <2> SUFFICES ASSUME NEW o \in Subs, NEW h \in Channels,
                      Unmerged(o)', chan'[o][h] = "confirmed"
               PROVE  \E d \in ConfIds : /\ confs'[d].state = "confirmed"
                                         /\ confs'[d].channel = h
                                         /\ confs'[d].to = contact'[o][h]
                                         /\ d > stopMark'[h][contact'[o][h]]
    BY DEF StopIsFinal
  <2>1. CASE o = r /\ h = ch
    <3>1. confs'[c].state = "confirmed" /\ confs'[c].channel = ch
          /\ confs'[c].to = contact'[r][ch] /\ c > stopMark'[ch][contact'[r][ch]]
      BY <1>1, <1>2, <1>5 DEF ch
    <3> QED  BY <2>1, <3>1
  <2>2. CASE ~(o = r /\ h = ch)
    <3>1. PICK d \in ConfIds : /\ confs[d].state = "confirmed"
                               /\ confs[d].channel = h
                               /\ confs[d].to = contact[o][h]
                               /\ d > stopMark[h][contact[o][h]]
      BY <2>2, <1>7, <1>8 DEF StopIsFinal
    <3> QED  BY <3>1, <1>1, <1>2, <1>5, <1>6 DEF Live
  <2> QED  BY <2>1, <2>2
<1> QED  BY <1>9, <1>10, <1>11, <1>12, <1>13, <1>14 DEF Rest

\* Folding the record in hand into survivor v: what v takes over was owned by
\* that record alone, and a token that moves with it stays addressed.
LEMMA ConfirmAndFoldKeeps ==
    ASSUME IInv, NEW c \in ConfIds, NEW v \in Subs, ConfirmAndFold(c, v)
    PROVE  Rest'
<1> TypeOK /\ RowsOK /\ TokensOK /\ LocksOK /\ LiveTokenIsAddressed /\ OneOwner /\ StopIsFinal
  BY DEF IInv
<1> DEFINE r == confs[c].sub
           ch == confs[c].channel
           takes == Takes(v, r)
           retired == NeverProven(r, ch) \ {v}
           gone == retired \cup {r}
           moved == {d \in LiveOf(r) \ {c} : confs[d].channel \in takes}
           voided == Voided(c, Duplicates(r, ch) \ (retired \cup {v}), gone) \ moved
<1>1. /\ Live(c) /\ c \in held[c] /\ r \in Subs /\ ch \in Channels /\ Unmerged(r)
      /\ contact[r][ch] = confs[c].to
      /\ confs[c].to \in Contacts(ch) /\ confs[c].to # None
  BY HeldToken DEF ConfirmAndFold
<1>2. /\ v # r /\ Unmerged(v) /\ contact[v][ch] = contact[r][ch]
      /\ status[v] # "opted_out"
  BY DEF ConfirmAndFold, Established, Duplicates
<1>3. /\ contact' = [contact EXCEPT ![v] =
            [h \in Channels |-> IF h \in takes THEN contact[r][h] ELSE @[h]]]
      /\ chan' = [chan EXCEPT ![v] =
            [h \in Channels |-> IF h \in takes THEN chan[r][h] ELSE @[h]],
                              ![r][ch] = "confirmed"]
      /\ status' = [o \in Subs |-> IF o \in gone THEN "merged" ELSE status[o]]
      /\ mergedInto' = [o \in Subs |-> IF o \in gone THEN v ELSE mergedInto[o]]
      /\ confs' = Confirmed(c, moved, voided, v)
      /\ held' = [held EXCEPT ![c] = {}]
      /\ \A d \in ConfIds \ {c} : held[d] \cap (moved \cup voided) = {}
      /\ UNCHANGED <<issued, stopMark>>
  BY DEF ConfirmAndFold, clock
<1>4. v \notin gone /\ r \in gone /\ ch \notin takes
  BY <1>1, <1>2 DEF Takes
<1>5. \A h \in takes : h \in Channels /\ contact[v][h] = None /\ contact[r][h] # None
  BY DEF Takes
<1>6. \A d \in ConfIds : Live(d) /\ confs[d].sub \in gone => d \in moved \cup voided \cup {c}
  BY DEF Voided
<1>7. \A d \in moved : Live(d) /\ d # c /\ confs[d].sub = r /\ confs[d].channel \in takes
  BY DEF LiveOf
<1>8. \A d \in voided : Live(d) /\ d # c /\ d \notin moved
  BY DEF Voided
<1> HIDE DEF r, ch, takes, retired, gone, moved, voided
<1>9. \A d \in ConfIds :
         /\ confs'[d].sub = IF d \in moved THEN v ELSE confs[d].sub
         /\ confs'[d].channel = confs[d].channel
         /\ confs'[d].to = confs[d].to
         /\ confs'[d].state = IF d = c THEN "confirmed"
                              ELSE IF d \in voided THEN "superseded"
                              ELSE confs[d].state
  BY <1>3, <1>7, <1>8, ConfirmedRow
<1>10. \A o \in Subs : \A h \in Channels :
          contact'[o][h] = IF o = v /\ h \in takes THEN contact[r][h] ELSE contact[o][h]
  BY <1>3 DEF TypeOK
<1>11. \A o \in Subs : \A h \in Channels :
          chan'[o][h] = IF o = v /\ h \in takes THEN chan[r][h]
                        ELSE IF o = r /\ h = ch THEN "confirmed" ELSE chan[o][h]
  <2> DEFINE slots == [h \in Channels |-> IF h \in takes THEN chan[r][h] ELSE chan[v][h]]
             first == [chan EXCEPT ![v] = slots]
  <2>1. chan' = [first EXCEPT ![r][ch] = "confirmed"]
    BY <1>3
  <2>2. first \in [Subs -> [Channels -> ChannelStatuses]]
    BY <1>1 DEF TypeOK
  <2>3. \A o \in Subs : \A h \in Channels :
           first[o][h] = IF o = v /\ h \in takes THEN chan[r][h] ELSE chan[o][h]
    BY DEF TypeOK
  <2> HIDE DEF first
  <2>4. \A o \in Subs : \A h \in Channels :
           chan'[o][h] = IF o = r /\ h = ch THEN "confirmed" ELSE first[o][h]
    BY <1>1, <2>1, <2>2
  <2> QED  BY <1>2, <2>3, <2>4
<1>12. \A o \in Subs : Unmerged(o)' => Unmerged(o) /\ o \notin gone
  BY <1>3, NoneAssumption DEF Unmerged
<1>13. Unmerged(v)'
  BY <1>2, <1>3, <1>4 DEF Unmerged
<1>14. RowsOK'
  <2> SUFFICES ASSUME NEW o \in Subs
               PROVE  /\ status'[o] = "absent" => mergedInto'[o] = None
                      /\ \A h \in Channels : chan'[o][h] = "confirmed" =>
                            contact'[o][h] # None /\ status'[o] # "opted_out"
    BY DEF RowsOK
  <2>1. status'[o] = "absent" => mergedInto'[o] = None
    BY <1>3 DEF RowsOK
  <2>2. status'[o] \in {status[o], "merged"} /\ status'[r] = "merged" /\ status'[v] = status[v]
    BY <1>1, <1>3, <1>4
  <2>3. ASSUME NEW h \in Channels, chan'[o][h] = "confirmed"
        PROVE  contact'[o][h] # None /\ status'[o] # "opted_out"
    <3>1. CASE o = v /\ h \in takes
      BY <3>1, <2>2, <1>2, <1>5, <1>10
    <3>2. CASE o = r /\ h = ch
      BY <3>2, <2>2, <1>1, <1>2, <1>10
    <3>3. CASE ~(o = v /\ h \in takes) /\ ~(o = r /\ h = ch)
      BY <3>3, <2>2, <2>3, <1>10, <1>11 DEF RowsOK
    <3> QED  BY <3>1, <3>2, <3>3
  <2> QED  BY <2>1, <2>3
<1>15. OneOwner'
  <2>1. ASSUME NEW o \in Subs, NEW h \in takes, Unmerged(o), o \notin gone,
               chan[r][h] = "confirmed", chan[o][h] = "confirmed",
               contact[o][h] = contact[r][h]
        PROVE  FALSE
    BY <2>1, <1>1, <1>4, <1>5 DEF OneOwner
  <2> SUFFICES ASSUME NEW o \in Subs, NEW p \in Subs, NEW h \in Channels,
                      Unmerged(o)', Unmerged(p)',
                      chan'[o][h] = "confirmed", chan'[p][h] = "confirmed",
                      contact'[o][h] = contact'[p][h]
               PROVE  o = p
    BY DEF OneOwner
  <2>2. /\ Unmerged(o) /\ o \notin gone /\ o # r
        /\ Unmerged(p) /\ p \notin gone /\ p # r
    BY <1>4, <1>12
  <2>3. CASE h \notin takes
    BY <2>2, <2>3, <1>10, <1>11 DEF OneOwner
  <2>4. CASE h \in takes /\ o # v /\ p # v
    BY <2>2, <2>4, <1>10, <1>11 DEF OneOwner
  <2>5. CASE h \in takes /\ o = v /\ p # v
    BY <2>1, <2>2, <2>5, <1>10, <1>11
  <2>6. CASE h \in takes /\ o # v /\ p = v
    BY <2>1, <2>2, <2>6, <1>10, <1>11
  <2> QED  BY <2>3, <2>4, <2>5, <2>6
<1>16. TokensOK'
  BY <1>1, <1>3, <1>8, <1>9 DEF TokensOK, Live
<1>17. LocksOK'
  <2>1. \A d \in ConfIds : held'[d] = IF d = c THEN {} ELSE held[d]
    BY <1>3 DEF TypeOK
  <2>2. \A d \in ConfIds \ {c} : \A e \in held[d] : e # c /\ e \notin voided /\ e \in ConfIds
    BY <1>1, <1>3 DEF LocksOK, TypeOK
  <2> QED  BY <2>1, <2>2, <1>9 DEF LocksOK, Live
<1>18. LiveTokenIsAddressed'
  <2> SUFFICES ASSUME NEW d \in ConfIds, Live(d)'
               PROVE  /\ Unmerged(confs[d].sub)'
                      /\ contact'[confs'[d].sub][confs'[d].channel] = confs'[d].to
    BY DEF LiveTokenIsAddressed
  <2>1. Live(d) /\ d # c /\ d \notin voided
    BY <1>9 DEF Live
  <2>2. /\ confs[d].sub \in Subs /\ Unmerged(confs[d].sub)
        /\ confs[d].channel \in Channels
        /\ contact[confs[d].sub][confs[d].channel] = confs[d].to
        /\ confs[d].to # None
    <3>1. confs[d].channel \in Channels
      BY DEF TypeOK, Confirmations
    <3>2. confs[d].sub \in Subs /\ confs[d].to \in Contacts(confs[d].channel)
      BY <2>1 DEF TokensOK
    <3>3. confs[d].to # None
      BY <3>2, NoneAssumption DEF Contacts
    <3> QED  BY <2>1, <3>1, <3>2, <3>3 DEF LiveTokenIsAddressed
  <2>3. CASE d \in moved
    <3>1. confs'[d].sub = v /\ confs[d].sub = r /\ confs[d].channel \in takes
      BY <2>3, <1>7, <1>9
    <3>2. contact'[v][confs[d].channel] = confs[d].to
      BY <3>1, <2>2, <1>10
    <3>3. Unmerged(confs[d].sub)'
      BY <3>1, <1>13 DEF Unmerged
    <3> QED  BY <3>1, <3>2, <3>3, <1>9
  <2>4. CASE d \notin moved
    <3>1. confs'[d].sub = confs[d].sub /\ confs[d].sub \notin gone
      BY <2>1, <2>4, <1>6, <1>9
    <3>2. ~(confs[d].sub = v /\ confs[d].channel \in takes)
      BY <2>2, <1>5
    <3>3. Unmerged(confs[d].sub)'
      BY <3>1, <2>2, <1>3 DEF Unmerged
    <3> QED  BY <3>1, <3>2, <3>3, <2>2, <1>9, <1>10
  <2> QED  BY <2>3, <2>4
<1>19. StopIsFinal'
  <2> SUFFICES ASSUME NEW o \in Subs, NEW h \in Channels,
                      Unmerged(o)', chan'[o][h] = "confirmed"
               PROVE  \E d \in ConfIds : /\ confs'[d].state = "confirmed"
                                         /\ confs'[d].channel = h
                                         /\ confs'[d].to = contact'[o][h]
                                         /\ d > stopMark'[h][contact'[o][h]]
    BY DEF StopIsFinal
  <2> DEFINE owner == IF o = v /\ h \in takes THEN r ELSE o
  <2>1. owner \in Subs /\ Unmerged(owner) /\ chan[owner][h] = "confirmed"
    BY <1>1, <1>4, <1>11, <1>12
  <2>2. contact'[o][h] = contact[owner][h]
    BY <1>10
  <2> HIDE DEF owner
  <2>3. PICK d \in ConfIds : /\ confs[d].state = "confirmed"
                             /\ confs[d].channel = h
                             /\ confs[d].to = contact[owner][h]
                             /\ d > stopMark[h][contact[owner][h]]
    BY <2>1 DEF StopIsFinal
  <2> QED  BY <2>2, <2>3, <1>3, <1>8, <1>9 DEF Live
<1> QED  BY <1>14, <1>15, <1>16, <1>17, <1>18, <1>19 DEF Rest

-----------------------------------------------------------------------------
(* The tokens: TokenInv beside IInv.                                        *)

\* A token becomes a token of another record only as part of a merge, and
\* neither a try nor a confirmation is undone.
SameToken(d) ==
    /\ confs'[d].sub = confs[d].sub /\ confs'[d].channel = confs[d].channel
    /\ confs'[d].to = confs[d].to
    /\ Live(d)' => Live(d)
    /\ confs[d].state = "confirmed" => confs'[d].state = "confirmed"

\* A channel stays as it is or stops, and a record opts out once all have.
OnlyStops(o) ==
    /\ \A h \in Channels :
          /\ contact'[o][h] = contact[o][h]
          /\ \/ chan'[o][h] = chan[o][h]
             \/ chan[o][h] # None /\ chan'[o][h] = "unsubscribed"
    /\ \/ status'[o] = status[o]
       \/ status'[o] = "opted_out" /\ \A h \in Channels : chan'[o][h] \in {None, "unsubscribed"}
    /\ prefs'[o] = prefs[o] \/ prefs'[o] = {o}
    /\ mergedInto'[o] = mergedInto[o]

\* A merge leaves the tries of every token as they are.
LEMMA ConfirmedTries ==
    ASSUME TypeOK, NEW c \in ConfIds, NEW moved, NEW voided, NEW v, NEW d \in ConfIds
    PROVE  Confirmed(c, moved, voided, v)[d].attempts = confs[d].attempts
BY DEF TypeOK, Confirmed, Confirmations

\* Whatever only stops channels keeps TokenInv.
LEMMA StopsKeep ==
    ASSUME IInv, TokenInv, expired' \in Nat, expired' >= expired,
           \A o \in Subs : OnlyStops(o),
           \A d \in ConfIds : SameToken(d) /\ confs'[d].attempts = confs[d].attempts
    PROVE  TokenInv'
<1> TypeOK /\ TokensOK /\ ChannelsOK /\ OneLiveToken /\ EveryGuessCounts /\ FoldedPreferencesWereProven
  BY DEF IInv, TokenInv
<1>1. \A d \in ConfIds : Live(d)' =>
         /\ Live(d) /\ confs'[d].sub = confs[d].sub /\ confs[d].sub \in Subs
         /\ confs[d].channel \in Channels /\ confs'[d].channel = confs[d].channel
         /\ confs'[d].to = confs[d].to /\ confs'[d].attempts = confs[d].attempts
  BY DEF SameToken, TokensOK, TypeOK, Confirmations
<1>2. \A o \in Subs : \A h \in Channels :
         chan'[o][h] \in {chan[o][h], "unsubscribed"}
  BY DEF OnlyStops
<1>3. ChannelsOK'
  BY NoneAssumption DEF ChannelsOK, OnlyStops
<1>4. OneLiveToken'
  BY <1>1, <1>2 DEF OneLiveToken
<1>5. EveryGuessCounts'
  <2> SUFFICES ASSUME NEW c \in ConfIds, NEW d \in ConfIds,
                      Live(c)', Live(d)', expired' < c, c < d,
                      confs'[c].channel = "sms", confs'[d].channel = "sms",
                      confs'[c].to = confs'[d].to,
                      chan'[confs'[c].sub]["sms"] = "pending_confirmation"
               PROVE  confs'[c].attempts >= confs'[d].attempts
    BY DEF EveryGuessCounts
  <2>1. expired < c
    BY BoundsAssumption DEF ConfIds, TypeOK
  <2>2. chan[confs[c].sub]["sms"] = "pending_confirmation"
    BY <1>1, <1>2 DEF Channels
  <2> QED  BY <1>1, <2>1, <2>2 DEF EveryGuessCounts
<1>6. FoldedPreferencesWereProven'
  BY DEF FoldedPreferencesWereProven, OnlyStops, SameToken
<1> QED  BY <1>3, <1>4, <1>5, <1>6 DEF TokenInv

\* Signing up: the record is new, so is every token of it, and nobody has
\* guessed at them yet.
LEMMA SubscribeKeepsTokens ==
    ASSUME IInv, TokenInv, NEW r \in Subs, NEW given \in GivenContacts, NEW code,
           Subscribe(r, given, code)
    PROVE  TokenInv'
<1> TypeOK /\ TokensOK /\ LiveTokenIsAddressed /\ ChannelsOK /\ OneLiveToken
    /\ EveryGuessCounts /\ FoldedPreferencesWereProven
  BY DEF IInv, TokenInv
<1>1. \A o \in Subs \ {r} : /\ status'[o] = status[o] /\ chan'[o] = chan[o]
                            /\ contact'[o] = contact[o] /\ prefs'[o] = prefs[o]
  BY DEF Subscribe, TypeOK
<1>2. /\ status[r] = "absent" /\ status'[r] = "pending_confirmation" /\ prefs'[r] = {r}
      /\ contact'[r] = given /\ expired' = expired
      /\ \A h \in Channels : chan'[r][h] = IF given[h] = None THEN None ELSE "pending_confirmation"
  BY DEF Subscribe, TypeOK
<1>3. \A d \in ConfIds : confs[d].state # "unissued" => confs'[d] = confs[d]
  BY SubscribeRow DEF TokensOK, TypeOK, ConfIds
<1>4. \A d \in ConfIds : Live(d) => confs[d].sub \in Subs \ {r}
  BY <1>2 DEF TokensOK, LiveTokenIsAddressed, Unmerged
<1>5. \A d \in ConfIds : \/ confs'[d] = confs[d] /\ (Live(d)' => Live(d) /\ d \leq issued)
                         \/ /\ d > issued /\ confs'[d].sub = r /\ confs'[d].attempts = 0
                            /\ confs'[d].channel \in Channels
                            /\ d = IF given["sms"] # None /\ confs'[d].channel = "email"
                                   THEN issued + 2 ELSE issued + 1
  <2> SUFFICES ASSUME NEW d \in ConfIds
               PROVE  \/ confs'[d] = confs[d] /\ (Live(d)' => Live(d) /\ d \leq issued)
                      \/ /\ d > issued /\ confs'[d].sub = r /\ confs'[d].attempts = 0
                         /\ confs'[d].channel \in Channels
                         /\ d = IF given["sms"] # None /\ confs'[d].channel = "email"
                                THEN issued + 2 ELSE issued + 1
    OBVIOUS
  <2>1. d \in Int /\ issued \in Int
    BY BoundsAssumption DEF ConfIds, TypeOK
  <2>2. Live(d) => d \leq issued
    BY <2>1 DEF TokensOK, Live
  <2> QED  BY <2>1, <2>2 DEF Subscribe, NewConfirmation, Channels, Live
<1>6. ChannelsOK'
  BY <1>1, <1>2, NoneAssumption DEF ChannelsOK
<1>7. OneLiveToken'
  <2> SUFFICES ASSUME NEW c \in ConfIds, NEW d \in ConfIds, Live(c)'
               PROVE  /\ chan'[confs'[c].sub][confs'[c].channel] # "confirmed"
                      /\ Live(d)' /\ confs'[d].sub = confs'[c].sub
                            /\ confs'[d].channel = confs'[c].channel => d = c
    BY DEF OneLiveToken
  <2>1. CASE confs'[c] = confs[c] /\ Live(c)
    <3>1. confs[c].sub \in Subs \ {r} /\ chan'[confs[c].sub] = chan[confs[c].sub]
      BY <2>1, <1>1, <1>4
    <3>2. Live(d)' /\ confs'[d].sub # r => confs'[d] = confs[d] /\ Live(d)
      BY <1>5
    <3>3. chan[confs[c].sub][confs[c].channel] # "confirmed"
      BY <2>1 DEF OneLiveToken
    <3>4. ASSUME Live(d)', confs'[d].sub = confs[c].sub, confs'[d].channel = confs[c].channel
          PROVE  d = c
      <4>1. confs'[d] = confs[d] /\ Live(d)
        BY <3>1, <3>2, <3>4
      <4> QED  BY <2>1, <3>4, <4>1 DEF OneLiveToken
    <3> QED  BY <2>1, <3>1, <3>3, <3>4
  <2>2. CASE confs'[c].sub = r /\ c > issued /\ confs'[c].channel \in Channels
             /\ c = IF given["sms"] # None /\ confs'[c].channel = "email"
                    THEN issued + 2 ELSE issued + 1
    <3>1. Live(d)' /\ confs'[d].sub = r => d = IF given["sms"] # None /\ confs'[d].channel = "email"
                                              THEN issued + 2 ELSE issued + 1
      BY <1>4, <1>5
    <3> QED  BY <2>2, <3>1, <1>2, NoneAssumption
  <2> QED  BY <2>1, <2>2, <1>5
<1>8. EveryGuessCounts'
  <2> SUFFICES ASSUME NEW c \in ConfIds, NEW d \in ConfIds,
                      Live(c)', Live(d)', expired' < c, c < d,
                      confs'[c].channel = "sms", confs'[d].channel = "sms",
                      confs'[c].to = confs'[d].to,
                      chan'[confs'[c].sub]["sms"] = "pending_confirmation"
               PROVE  confs'[c].attempts >= confs'[d].attempts
    BY DEF EveryGuessCounts
  <2>1. issued \in Int /\ c \in Int /\ d \in Int
    BY BoundsAssumption DEF ConfIds, TypeOK
  <2>2. confs'[c].attempts \in Nat
    <3>1. confs[c].attempts \in Nat
      BY BoundsAssumption DEF TypeOK, Confirmations
    <3> QED  BY <3>1, <1>5
  <2>3. CASE confs'[d] = confs[d] /\ Live(d) /\ d \leq issued
    <3>1. confs'[c] = confs[c] /\ Live(c)
      BY <2>1, <2>3, <1>5
    <3>2. chan'[confs[c].sub] = chan[confs[c].sub]
      BY <3>1, <1>1, <1>4
    <3> QED  BY <2>3, <3>1, <3>2, <1>2 DEF EveryGuessCounts
  <2>4. CASE confs'[d].attempts = 0
    BY <2>2, <2>4
  <2> QED  BY <2>3, <2>4, <1>5
<1>9. FoldedPreferencesWereProven'
  BY <1>1, <1>2, <1>3 DEF FoldedPreferencesWereProven
<1> QED  BY <1>6, <1>7, <1>8, <1>9 DEF TokenInv

\* A resend: the new token takes the place of the record's live ones.
LEMMA ResendKeepsTokens ==
    ASSUME IInv, TokenInv, NEW ch \in Channels, NEW x, NEW r \in Subs, NEW code,
           ResendConfirmation(ch, x, r, code)
    PROVE  TokenInv'
<1> TypeOK /\ TokensOK /\ ChannelsOK /\ OneLiveToken /\ EveryGuessCounts /\ FoldedPreferencesWereProven
  BY DEF IInv, TokenInv
<1>1. UNCHANGED <<status, contact, chan, prefs, expired>> /\ issued + 1 \in ConfIds
      /\ chan[r][ch] = "pending_confirmation"
  BY BoundsAssumption DEF ResendConfirmation, rows, Waiting, ConfIds, TypeOK
<1>2. confs'[issued + 1] = NewConfirmation(r, ch, x, code)
  BY <1>1, SupersedingType DEF ResendConfirmation, TypeOK
<1>3. \A d \in ConfIds \ {issued + 1} :
         /\ confs'[d].sub = confs[d].sub /\ confs'[d].channel = confs[d].channel
         /\ confs'[d].to = confs[d].to /\ confs'[d].attempts = confs[d].attempts
         /\ confs'[d].state = IF d \in LiveOn(r, ch) THEN "superseded" ELSE confs[d].state
  <2> DEFINE spent == Superseding(LiveOn(r, ch))
  <2>1. spent \in [ConfIds -> Confirmations]
    BY SupersedingType DEF TypeOK
  <2>2. confs' = [spent EXCEPT ![issued + 1] = NewConfirmation(r, ch, x, code)]
    BY DEF ResendConfirmation
  <2>3. \A d \in ConfIds :
           /\ spent[d].sub = confs[d].sub /\ spent[d].channel = confs[d].channel
           /\ spent[d].to = confs[d].to /\ spent[d].attempts = confs[d].attempts
           /\ spent[d].state = IF d \in LiveOn(r, ch) THEN "superseded" ELSE confs[d].state
    BY SupersedingRow
  <2> HIDE DEF spent
  <2>4. \A d \in ConfIds \ {issued + 1} : confs'[d] = spent[d]
    BY <2>1, <2>2
  <2> QED  BY <2>3, <2>4
<1>4. \A d \in ConfIds : Live(d)' =>
         \/ d = issued + 1
         \/ Live(d) /\ d \leq issued /\ ~(confs[d].sub = r /\ confs[d].channel = ch)
  BY <1>3, BoundsAssumption DEF Live, LiveOn, LiveOf, TokensOK, ConfIds, TypeOK
<1>5. ChannelsOK'
  BY <1>1 DEF ChannelsOK
<1>6. OneLiveToken'
  BY <1>1, <1>2, <1>3, <1>4 DEF OneLiveToken, NewConfirmation
<1>7. EveryGuessCounts'
  <2> SUFFICES ASSUME NEW c \in ConfIds, NEW d \in ConfIds,
                      Live(c)', Live(d)', expired' < c, c < d,
                      confs'[c].channel = "sms", confs'[d].channel = "sms",
                      confs'[c].to = confs'[d].to,
                      chan'[confs'[c].sub]["sms"] = "pending_confirmation"
               PROVE  confs'[c].attempts >= confs'[d].attempts
    BY DEF EveryGuessCounts
  <2>1. issued \in Int /\ c \in Int /\ d \in Int
    BY BoundsAssumption DEF ConfIds, TypeOK
  <2>2. Live(c) /\ c # issued + 1
    BY <2>1, <1>4
  <2>3. confs'[c].attempts \in Nat
    BY <2>2, <1>3, BoundsAssumption DEF TypeOK, Confirmations
  <2>4. CASE d = issued + 1
    BY <2>3, <2>4, <1>2 DEF NewConfirmation
  <2>5. CASE d # issued + 1
    BY <2>2, <2>5, <1>1, <1>3, <1>4 DEF EveryGuessCounts
  <2> QED  BY <2>4, <2>5
<1>8. FoldedPreferencesWereProven'
  <2>1. \A d \in ConfIds : confs[d].state = "confirmed" =>
           confs'[d].state = "confirmed" /\ confs'[d].sub = confs[d].sub
    <3> SUFFICES ASSUME NEW d \in ConfIds, confs[d].state = "confirmed"
                 PROVE  confs'[d].state = "confirmed" /\ confs'[d].sub = confs[d].sub
      OBVIOUS
    <3>1. d # issued + 1
      <4>1. issued \in Int /\ issued + 1 > issued
        BY BoundsAssumption DEF TypeOK
      <4>2. ~(d > issued)
        BY DEF TokensOK
      <4> QED  BY <4>1, <4>2
    <3>2. d \notin LiveOn(r, ch)
      BY DEF LiveOn, LiveOf, Live
    <3> QED  BY <3>1, <3>2, <1>3
  <2> QED  BY <2>1, <1>1 DEF FoldedPreferencesWereProven
<1> QED  BY <1>5, <1>6, <1>7, <1>8 DEF TokenInv

\* A wrong code counts against whatever could still accept one: a token left
\* out has reached the cap, or is of a channel that nothing is confirmed on.
LEMMA GuessKeepsTokens ==
    ASSUME IInv, TokenInv, NEW x \in Phones, NEW code, WrongSmsCode(x, code)
    PROVE  TokenInv'
<1> TypeOK /\ TokensOK /\ LiveTokenIsAddressed /\ ChannelsOK /\ OneLiveToken
    /\ EveryGuessCounts /\ FoldedPreferencesWereProven
  BY DEF IInv, TokenInv
<1>1. UNCHANGED <<status, contact, chan, prefs, expired>>
  BY DEF WrongSmsCode, rows, clock
<1>2. \A d \in ConfIds :
         /\ confs'[d].sub = confs[d].sub /\ confs'[d].channel = confs[d].channel
         /\ confs'[d].to = confs[d].to /\ confs'[d].state = confs[d].state
  BY GuessRow
<1>3. \A d \in ConfIds : confs'[d].attempts = IF d \in Guessed(x) THEN confs[d].attempts + 1
                                              ELSE confs[d].attempts
  BY DEF WrongSmsCode, TypeOK, Confirmations
<1>4. \A d \in ConfIds : confs[d].attempts \in 0 .. MaxAttempts
  BY DEF TypeOK, Confirmations
<1>5. ChannelsOK' /\ OneLiveToken' /\ FoldedPreferencesWereProven'
  BY <1>1, <1>2 DEF ChannelsOK, OneLiveToken, FoldedPreferencesWereProven, Live
<1>6. EveryGuessCounts'
  <2> SUFFICES ASSUME NEW c \in ConfIds, NEW d \in ConfIds,
                      Live(c), Live(d), expired < c, c < d,
                      confs[c].channel = "sms", confs[d].channel = "sms",
                      confs[c].to = confs[d].to,
                      chan[confs[c].sub]["sms"] = "pending_confirmation"
               PROVE  confs'[c].attempts >= confs'[d].attempts
    BY <1>1, <1>2 DEF EveryGuessCounts, Live
  <2>1. confs[c].attempts >= confs[d].attempts
    BY DEF EveryGuessCounts
  <2>2. CASE d \notin Guessed(x)
    BY <2>1, <2>2, <1>3, <1>4, BoundsAssumption
  <2>3. CASE d \in Guessed(x)
    <3>1. confs[d].attempts < MaxAttempts /\ contact[confs[d].sub]["sms"] = x
      BY <2>3 DEF Guessed, LiveFor, Eligible
    <3>2. confs[c].sub \in Subs /\ contact[confs[c].sub]["sms"] = x
      BY <3>1 DEF LiveTokenIsAddressed, TokensOK
    <3>3. status[confs[c].sub] # "opted_out"
      BY <3>2, NoneAssumption DEF ChannelsOK, Channels
    <3>4. c \in Guessed(x) \/ confs[c].attempts >= MaxAttempts
      BY <3>2, <3>3, <1>4, BoundsAssumption DEF Guessed, LiveFor, Eligible, ConfIds, TypeOK
    <3> QED  BY <3>1, <3>4, <2>1, <1>3, <1>4, BoundsAssumption
  <2> QED  BY <2>2, <2>3
<1> QED  BY <1>5, <1>6 DEF TokenInv

\* What confirming token c on its own record r does to records and tokens: only
\* the channel that the token is of becomes confirmed, and who is retired had
\* proven nothing.
KeepOf(r, ch) ==
    /\ r \in Subs /\ ch \in Channels /\ Unmerged(r) /\ contact[r][ch] # None
    /\ UNCHANGED <<contact, prefs, expired>>
    /\ \A o \in Subs :
          /\ status'[o] \in IF o = r THEN {"confirmed"} ELSE {status[o], "merged"}
          /\ mergedInto[o] = None /\ mergedInto'[o] # None => status[o] = "pending_confirmation"
          /\ \A h \in Channels :
                chan'[o][h] = IF o = r /\ h = ch THEN "confirmed" ELSE chan[o][h]

\* That is what ConfirmAndKeep does.
LEMMA KeepEffect ==
    ASSUME IInv, NEW c \in ConfIds, ConfirmAndKeep(c)
    PROVE  /\ KeepOf(confs[c].sub, confs[c].channel)
           /\ Live(c)
           /\ \A d \in ConfIds : /\ SameToken(d) /\ confs'[d].attempts = confs[d].attempts
                                 /\ Live(d)' => d # c
<1> TypeOK
  BY DEF IInv
<1> DEFINE r == confs[c].sub
           ch == confs[c].channel
           retired == NeverProven(r, ch)
           voided == Voided(c, Duplicates(r, ch) \ retired, retired)
<1>1. /\ Live(c) /\ r \in Subs /\ ch \in Channels /\ Unmerged(r)
      /\ contact[r][ch] = confs[c].to /\ confs[c].to # None
  BY HeldToken DEF ConfirmAndKeep
<1>2. /\ chan' = [chan EXCEPT ![r][ch] = "confirmed"]
      /\ status' = [o \in Subs |-> IF o = r THEN "confirmed"
                                   ELSE IF o \in retired THEN "merged" ELSE status[o]]
      /\ mergedInto' = [o \in Subs |-> IF o \in retired THEN r ELSE mergedInto[o]]
      /\ confs' = Confirmed(c, {}, voided, r)
      /\ UNCHANGED <<contact, prefs, expired>>
  BY DEF ConfirmAndKeep, clock
<1>3. /\ \A o \in retired : status[o] = "pending_confirmation"
      /\ \A d \in voided : Live(d)
  BY DEF NeverProven, Voided
<1> HIDE DEF r, ch, retired, voided
<1>4. \A o \in Subs : \A h \in Channels :
         chan'[o][h] = IF o = r /\ h = ch THEN "confirmed" ELSE chan[o][h]
  BY <1>1, <1>2 DEF TypeOK
<1>5. KeepOf(r, ch)
  BY <1>1, <1>2, <1>3, <1>4 DEF KeepOf
<1>6. \A d \in ConfIds :
         /\ confs'[d].sub = confs[d].sub /\ confs'[d].channel = confs[d].channel
         /\ confs'[d].to = confs[d].to /\ confs'[d].attempts = confs[d].attempts
         /\ confs'[d].state = IF d = c THEN "confirmed"
                              ELSE IF d \in voided THEN "superseded" ELSE confs[d].state
  BY <1>2, ConfirmedRow, ConfirmedTries
<1> QED  BY <1>1, <1>3, <1>5, <1>6 DEF SameToken, Live, r, ch

\* The record that keeps its confirmed token has no other for the channel.
LEMMA KeepConfirmsTokens ==
    ASSUME IInv, TokenInv, NEW c \in ConfIds, ConfirmAndKeep(c)
    PROVE  TokenInv'
<1> TypeOK /\ TokensOK /\ ChannelsOK /\ OneLiveToken /\ EveryGuessCounts /\ FoldedPreferencesWereProven
  BY DEF IInv, TokenInv
<1> DEFINE r == confs[c].sub
           ch == confs[c].channel
<1>1. /\ KeepOf(r, ch) /\ Live(c)
      /\ \A d \in ConfIds : /\ SameToken(d) /\ confs'[d].attempts = confs[d].attempts
                            /\ Live(d)' => d # c
  BY KeepEffect
<1> HIDE DEF r, ch
<1>2. \A d \in ConfIds : Live(d)' =>
         /\ Live(d) /\ confs[d].sub \in Subs /\ confs[d].channel \in Channels
         /\ ~(confs[d].sub = r /\ confs[d].channel = ch)
  BY <1>1 DEF SameToken, TokensOK, TypeOK, Confirmations, OneLiveToken, r, ch
<1>3. \A o \in Subs : \A h \in Channels :
         chan'[o][h] = IF o = r /\ h = ch THEN "confirmed" ELSE chan[o][h]
  BY <1>1 DEF KeepOf
<1>4. /\ UNCHANGED <<contact, expired>> /\ contact[r][ch] # None /\ status'[r] = "confirmed"
      /\ \A o \in Subs \ {r} : status'[o] \in {status[o], "merged"}
  BY <1>1 DEF KeepOf
<1>5. \A d \in ConfIds :
         /\ confs'[d].sub = confs[d].sub /\ confs'[d].channel = confs[d].channel
         /\ confs'[d].to = confs[d].to /\ confs'[d].attempts = confs[d].attempts
  BY <1>1 DEF SameToken
<1>6. ChannelsOK'
  BY <1>3, <1>4, NoneAssumption DEF ChannelsOK
<1>7. OneLiveToken'
  BY <1>3, <1>5, <1>2 DEF OneLiveToken
<1>8. EveryGuessCounts'
  BY <1>3, <1>4, <1>5, <1>2 DEF EveryGuessCounts, Channels
<1>9. FoldedPreferencesWereProven'
  BY <1>1 DEF FoldedPreferencesWereProven, KeepOf, SameToken
<1> QED  BY <1>6, <1>7, <1>8, <1>9 DEF TokenInv

\* What a fold does to records and tokens: v takes what it lacks, r is retired
\* with its token confirmed, and a token that moves comes to a slot that had none.
FoldOf(v, r, ch) ==
    /\ r \in Subs /\ ch \in Channels /\ v # r /\ Unmerged(r) /\ Unmerged(v)
    /\ contact[r][ch] # None
    /\ chan[v][ch] = "confirmed" /\ contact[v][ch] # None
    /\ status'[v] = status[v] /\ status'[r] = "merged"
    /\ expired' = expired
    /\ \A o \in Subs :
          /\ status'[o] \in {status[o], "merged"}
          /\ prefs'[o] = IF o = v THEN prefs[v] \cup prefs[r] ELSE prefs[o]
          /\ mergedInto[o] = None /\ mergedInto'[o] # None =>
                mergedInto'[o] = v /\ (o = r \/ status[o] = "pending_confirmation")
    /\ \A o \in Subs : \A h \in Channels :
          /\ contact'[o][h] = IF o = v /\ h \in Takes(v, r) THEN contact[r][h] ELSE contact[o][h]
          /\ chan'[o][h] = IF o = v /\ h \in Takes(v, r) THEN chan[r][h]
                           ELSE IF o = r /\ h = ch THEN "confirmed" ELSE chan[o][h]

\* A token after the fold of r into v.
FoldedToken(v, r, d) ==
    /\ confs'[d].channel = confs[d].channel
    /\ confs'[d].to = confs[d].to /\ confs'[d].attempts = confs[d].attempts
    /\ Live(d)' =>
          /\ Live(d) /\ confs[d].channel \in Channels /\ confs[d].sub \in Subs
          /\ \/ confs[d].sub # r /\ confs'[d].sub = confs[d].sub
                /\ ~(confs[d].sub = v /\ confs[d].channel \in Takes(v, r))
             \/ confs[d].sub = r /\ confs'[d].sub = v /\ confs[d].channel \in Takes(v, r)
    /\ confs[d].state = "confirmed" => confs'[d].state = "confirmed" /\ confs'[d].sub = confs[d].sub

\* Both hold of every fold.
LEMMA FoldEffect ==
    ASSUME IInv, NEW c \in ConfIds, NEW v \in Subs, ConfirmAndFold(c, v)
    PROVE  /\ FoldOf(v, confs[c].sub, confs[c].channel)
           /\ confs'[c].state = "confirmed" /\ confs'[c].sub = confs[c].sub
           /\ \A d \in ConfIds : FoldedToken(v, confs[c].sub, d)
<1> TypeOK /\ TokensOK /\ LocksOK /\ LiveTokenIsAddressed
  BY DEF IInv
<1> DEFINE r == confs[c].sub
           ch == confs[c].channel
           takes == Takes(v, r)
           retired == NeverProven(r, ch) \ {v}
           gone == retired \cup {r}
           moved == {d \in LiveOf(r) \ {c} : confs[d].channel \in takes}
           voided == Voided(c, Duplicates(r, ch) \ (retired \cup {v}), gone) \ moved
<1>1. /\ Live(c) /\ r \in Subs /\ ch \in Channels /\ Unmerged(r)
      /\ contact[r][ch] = confs[c].to /\ confs[c].to # None
  BY HeldToken DEF ConfirmAndFold
<1>2. /\ v # r /\ Unmerged(v) /\ contact[v][ch] = contact[r][ch] /\ chan[v][ch] = "confirmed"
  BY DEF ConfirmAndFold, Established, Duplicates
<1>3. /\ contact' = [contact EXCEPT ![v] =
            [h \in Channels |-> IF h \in takes THEN contact[r][h] ELSE @[h]]]
      /\ chan' = [chan EXCEPT ![v] =
            [h \in Channels |-> IF h \in takes THEN chan[r][h] ELSE @[h]],
                              ![r][ch] = "confirmed"]
      /\ status' = [o \in Subs |-> IF o \in gone THEN "merged" ELSE status[o]]
      /\ mergedInto' = [o \in Subs |-> IF o \in gone THEN v ELSE mergedInto[o]]
      /\ prefs' = [prefs EXCEPT ![v] = prefs[v] \cup prefs[r]]
      /\ confs' = Confirmed(c, moved, voided, v)
      /\ UNCHANGED expired
  BY DEF ConfirmAndFold, clock, MergedPrefs
<1>4. v \notin gone /\ r \in gone /\ c \notin moved
  BY <1>2
<1>5. \A d \in ConfIds : Live(d) /\ confs[d].sub = r => d \in moved \cup voided \cup {c}
  BY DEF Voided
<1>6. \A d \in moved : Live(d) /\ d # c /\ confs[d].sub = r /\ confs[d].channel \in takes
  BY DEF LiveOf
<1>7. \A d \in voided : Live(d) /\ d # c /\ d \notin moved
  BY DEF Voided
<1>8. \A h \in takes : contact[v][h] = None
  BY DEF Takes
<1>9. \A o \in gone : o = r \/ status[o] = "pending_confirmation"
  BY DEF NeverProven
<1> HIDE DEF r, ch, takes, retired, gone, moved, voided
<1>10. \A d \in ConfIds :
          /\ confs'[d].sub = IF d \in moved THEN v ELSE confs[d].sub
          /\ confs'[d].channel = confs[d].channel
          /\ confs'[d].to = confs[d].to /\ confs'[d].attempts = confs[d].attempts
          /\ confs'[d].state = IF d = c THEN "confirmed"
                               ELSE IF d \in voided THEN "superseded" ELSE confs[d].state
  BY <1>3, <1>6, <1>7, ConfirmedRow, ConfirmedTries
<1>11. \A o \in Subs : \A h \in Channels :
          /\ contact'[o][h] = IF o = v /\ h \in takes THEN contact[r][h] ELSE contact[o][h]
          /\ chan'[o][h] = IF o = v /\ h \in takes THEN chan[r][h]
                           ELSE IF o = r /\ h = ch THEN "confirmed" ELSE chan[o][h]
  <2> DEFINE slots == [h \in Channels |-> IF h \in takes THEN chan[r][h] ELSE chan[v][h]]
             first == [chan EXCEPT ![v] = slots]
  <2>1. chan' = [first EXCEPT ![r][ch] = "confirmed"]
    BY <1>3
  <2>2. first \in [Subs -> [Channels -> ChannelStatuses]]
    BY <1>1 DEF TypeOK
  <2>3. \A o \in Subs : \A h \in Channels :
           first[o][h] = IF o = v /\ h \in takes THEN chan[r][h] ELSE chan[o][h]
    BY DEF TypeOK
  <2> HIDE DEF first
  <2>4. \A o \in Subs : \A h \in Channels :
           chan'[o][h] = IF o = r /\ h = ch THEN "confirmed" ELSE first[o][h]
    BY <1>1, <2>1, <2>2
  <2>5. \A o \in Subs : \A h \in Channels :
           contact'[o][h] = IF o = v /\ h \in takes THEN contact[r][h] ELSE contact[o][h]
    BY <1>3 DEF TypeOK
  <2> QED  BY <1>2, <2>3, <2>4, <2>5
<1>12. \A o \in Subs :
          /\ status'[o] \in {status[o], "merged"}
          /\ prefs'[o] = IF o = v THEN prefs[v] \cup prefs[r] ELSE prefs[o]
          /\ mergedInto[o] = None /\ mergedInto'[o] # None =>
                mergedInto'[o] = v /\ (o = r \/ status[o] = "pending_confirmation")
  BY <1>3, <1>9 DEF TypeOK
<1>13. status'[v] = status[v] /\ status'[r] = "merged"
  BY <1>1, <1>3, <1>4
<1>14. FoldOf(v, r, ch)
  BY <1>1, <1>2, <1>3, <1>11, <1>12, <1>13 DEF FoldOf, takes
<1>15. ASSUME NEW d \in ConfIds PROVE FoldedToken(v, r, d)
  <2>1. ASSUME Live(d)'
        PROVE  /\ Live(d) /\ confs[d].channel \in Channels /\ confs[d].sub \in Subs
               /\ \/ confs[d].sub # r /\ confs'[d].sub = confs[d].sub
                     /\ ~(confs[d].sub = v /\ confs[d].channel \in takes)
                  \/ confs[d].sub = r /\ confs'[d].sub = v /\ confs[d].channel \in takes
    <3>1. Live(d) /\ d # c /\ d \notin voided
      BY <2>1, <1>10 DEF Live
    <3>2. confs[d].channel \in Channels
      BY DEF TypeOK, Confirmations
    <3>3. /\ confs[d].sub \in Subs
          /\ contact[confs[d].sub][confs[d].channel] = confs[d].to
          /\ confs[d].to # None
      BY <3>1, <3>2, NoneAssumption DEF TokensOK, LiveTokenIsAddressed, Contacts
    <3>4. CASE d \in moved
      BY <3>1, <3>2, <3>3, <3>4, <1>6, <1>10
    <3>5. CASE d \notin moved
      BY <3>1, <3>2, <3>3, <3>5, <1>5, <1>8, <1>10
    <3> QED  BY <3>4, <3>5
  <2>2. confs[d].state = "confirmed" => confs'[d].state = "confirmed" /\ confs'[d].sub = confs[d].sub
    BY <1>6, <1>7, <1>10 DEF Live
  <2> QED  BY <2>1, <2>2, <1>10 DEF FoldedToken, takes
<1> QED  BY <1>4, <1>10, <1>14, <1>15 DEF r, ch

\* A fold keeps the tokens apart: v gets those of slots it had nothing in, with
\* the tries they had, and the preferences of a record that has just confirmed.
LEMMA FoldKeepsTokens ==
    ASSUME IInv, TokenInv, NEW c \in ConfIds, NEW v \in Subs, ConfirmAndFold(c, v)
    PROVE  TokenInv'
<1> TypeOK /\ ChannelsOK /\ OneLiveToken /\ EveryGuessCounts /\ FoldedPreferencesWereProven
  BY DEF IInv, TokenInv
<1> DEFINE r == confs[c].sub
           ch == confs[c].channel
<1>1. /\ FoldOf(v, r, ch) /\ confs'[c].state = "confirmed" /\ confs'[c].sub = r
      /\ \A d \in ConfIds : FoldedToken(v, r, d)
  BY FoldEffect
<1> HIDE DEF r, ch
<1>2. \A d \in ConfIds : Live(d)' =>
         /\ Live(d) /\ confs[d].channel \in Channels /\ confs'[d].channel = confs[d].channel
         /\ confs[d].sub \in Subs /\ confs'[d].sub \in Subs
         /\ chan'[confs'[d].sub][confs'[d].channel] = chan[confs[d].sub][confs[d].channel]
  BY <1>1 DEF FoldOf, FoldedToken
<1>3. \A d, e \in ConfIds :
         /\ Live(d)' /\ Live(e)' /\ confs'[d].channel = confs'[e].channel
         /\ confs'[d].sub = confs'[e].sub
         => confs[d].channel = confs[e].channel /\ confs[d].sub = confs[e].sub
  BY <1>1 DEF FoldedToken
<1>4. ChannelsOK'
  BY <1>1, NoneAssumption DEF ChannelsOK, FoldOf, Takes
<1>5. OneLiveToken'
  BY <1>2, <1>3 DEF OneLiveToken
<1>6. EveryGuessCounts'
  BY <1>1, <1>2 DEF EveryGuessCounts, FoldOf, FoldedToken
<1>7. FoldedPreferencesWereProven'
  <2> SUFFICES ASSUME NEW o \in Subs, NEW p \in prefs'[o] \ {o}
               PROVE  \E d \in ConfIds : confs'[d].state = "confirmed" /\ confs'[d].sub = p
    BY DEF FoldedPreferencesWereProven
  <2>1. CASE p = r
    BY <2>1, <1>1
  <2>2. CASE p # r
    <3>1. (p \in prefs[o] \ {o}) \/ (p \in prefs[r] \ {r} /\ r \in Subs)
      BY <2>2, <1>1 DEF FoldOf
    <3>2. PICK d \in ConfIds : confs[d].state = "confirmed" /\ confs[d].sub = p
      BY <3>1 DEF FoldedPreferencesWereProven
    <3> QED  BY <3>2, <1>1 DEF FoldedToken
  <2> QED  BY <2>1, <2>2
<1> QED  BY <1>4, <1>5, <1>6, <1>7 DEF TokenInv

-----------------------------------------------------------------------------
\* The operations that issue, count and confirm nothing.
OtherStep(k, keep, ch, x, c, r) ==
    \/ PresentEmailLink(c) \/ PresentSmsCode(x, c) \/ AbandonConfirm(c)
    \/ (OptOut(ch, x) /\ x # None) \/ RequestManageLink(ch, x, r)
    \/ WritePreferences(k, keep) \/ UnsubscribeAll(k)
    \/ CooldownPasses \/ TokenExpires \/ UNCHANGED vars

\* They only stop channels, or nothing.
LEMMA OthersOnlyStop ==
    ASSUME IInv, TokenInv, NEW k, NEW keep, NEW ch \in Channels, NEW x, NEW c, NEW r,
           OtherStep(k, keep, ch, x, c, r)
    PROVE  /\ expired' \in Nat /\ expired' >= expired
           /\ \A o \in Subs : OnlyStops(o)
           /\ \A d \in ConfIds : SameToken(d) /\ confs'[d].attempts = confs[d].attempts
<1> TypeOK /\ ChannelsOK
  BY DEF IInv, TokenInv
<1>1. expired \in Nat
  BY BoundsAssumption DEF TypeOK
<1>2. CASE UNCHANGED <<rows, confs>>
  <2>1. expired' = expired \/ expired' = expired + 1
    BY DEF OtherStep, PresentEmailLink, PresentSmsCode, AbandonConfirm, OptOut, RequestManageLink,
           WritePreferences, UnsubscribeAll, CooldownPasses, TokenExpires, clock, vars
  <2>2. \A o \in Subs : OnlyStops(o)
    BY <1>2 DEF OnlyStops, rows
  <2>3. \A d \in ConfIds : SameToken(d) /\ confs'[d].attempts = confs[d].attempts
    BY <1>2 DEF SameToken, Live
  <2> QED  BY <1>1, <2>1, <2>2, <2>3
<1>3. CASE OptOut(ch, x) /\ x # None
  <2>1. \A d \in ConfIds : SameToken(d) /\ confs'[d].attempts = confs[d].attempts
    <3> DEFINE S == LiveFor(ch, x)
    <3>1. confs' = Superseding(S)
      BY <1>3 DEF OptOut
    <3> HIDE DEF S
    <3>2. \A d \in ConfIds :
             /\ confs'[d].sub = confs[d].sub /\ confs'[d].channel = confs[d].channel
             /\ confs'[d].to = confs[d].to /\ confs'[d].attempts = confs[d].attempts
             /\ confs'[d].state = IF d \in S THEN "superseded" ELSE confs[d].state
      BY <3>1, SupersedingRow
    <3>3. \A d \in S : Live(d)
      BY DEF S, LiveFor
    <3> QED  BY <3>2, <3>3 DEF SameToken, Live
  <2>2. ASSUME NEW o \in Subs PROVE OnlyStops(o)
    <3> DEFINE hit == {p \in Subs : /\ Unmerged(p) /\ contact[p][ch] = x
                                    /\ chan[p][ch] # "unsubscribed"}
    <3>1. /\ chan'[o] = IF o \in hit THEN [chan[o] EXCEPT ![ch] = "unsubscribed"] ELSE chan[o]
          /\ status'[o] = IF o \in hit /\ chan[o][Other(ch)] \in {None, "unsubscribed"}
                          THEN "opted_out" ELSE status[o]
          /\ contact' = contact /\ prefs' = prefs /\ mergedInto' = mergedInto
      BY <1>3 DEF OptOut
    <3> HIDE DEF hit
    <3>2. \A h \in Channels : chan'[o][h] = IF o \in hit /\ h = ch THEN "unsubscribed" ELSE chan[o][h]
      BY <3>1 DEF TypeOK
    <3>3. o \in hit => chan[o][ch] # None
      BY <1>3 DEF hit, ChannelsOK
    <3>4. \A h \in Channels : h = ch \/ h = Other(ch)
      BY DEF Channels, Other
    <3> QED  BY <3>1, <3>2, <3>3, <3>4 DEF OnlyStops
  <2> QED  BY <1>1, <1>3, <2>1, <2>2 DEF OptOut, clock
<1>4. CASE RequestManageLink(ch, x, r)
  <2>1. UNCHANGED <<status, contact, chan, mergedInto, prefs, expired, confs>>
    BY <1>4 DEF RequestManageLink, clock
  <2>2. \A o \in Subs : OnlyStops(o)
    BY <2>1 DEF OnlyStops
  <2>3. \A d \in ConfIds : SameToken(d) /\ confs'[d].attempts = confs[d].attempts
    BY <2>1 DEF SameToken, Live
  <2> QED  BY <1>1, <2>1, <2>2, <2>3
<1>5. CASE WritePreferences(k, keep)
  <2> DEFINE s == Resolved(k)
             kept == [h \in Channels |-> IF chan[s][h] = None \/ h \in keep THEN chan[s][h]
                                         ELSE "unsubscribed"]
  <2>1. /\ chan' = [chan EXCEPT ![s] = kept]
        /\ prefs' = [prefs EXCEPT ![s] = {s}]
        /\ status' = [status EXCEPT ![s] = IF \A h \in Channels : kept[h] \in {None, "unsubscribed"}
                                           THEN "opted_out" ELSE status[s]]
        /\ UNCHANGED <<contact, mergedInto, confs, expired>>
    BY <1>5 DEF WritePreferences, clock
  <2> HIDE DEF s
  <2>2. ASSUME NEW o \in Subs PROVE OnlyStops(o)
    <3>1. CASE o = s
      <4>1. \A h \in Channels : chan'[o][h] = kept[h]
        BY <2>1, <3>1 DEF TypeOK
      <4>2. \/ status'[o] = status[o]
            \/ status'[o] = "opted_out" /\ \A h \in Channels : kept[h] \in {None, "unsubscribed"}
        BY <2>1, <3>1 DEF TypeOK
      <4>3. prefs'[o] = {o} /\ contact' = contact /\ mergedInto' = mergedInto
        BY <2>1, <3>1 DEF TypeOK
      <4> QED  BY <3>1, <4>1, <4>2, <4>3 DEF OnlyStops
    <3>2. CASE o # s
      BY <2>1, <3>2 DEF OnlyStops, TypeOK
    <3> QED  BY <3>1, <3>2
  <2> QED  BY <1>1, <2>1, <2>2 DEF SameToken, Live
<1>6. CASE UnsubscribeAll(k)
  <2> DEFINE s == Resolved(k)
  <2>1. /\ chan' = [chan EXCEPT ![s] = [h \in Channels |-> IF @[h] = None THEN None ELSE "unsubscribed"]]
        /\ status' = [status EXCEPT ![s] = "opted_out"]
        /\ confs' = Superseding(LiveOf(s))
        /\ UNCHANGED <<contact, mergedInto, prefs, expired>>
    BY <1>6 DEF UnsubscribeAll, clock
  <2> HIDE DEF s
  <2>2. ASSUME NEW o \in Subs PROVE OnlyStops(o)
    <3>1. CASE o = s
      <4>1. \A h \in Channels : chan'[o][h] = IF chan[o][h] = None THEN None ELSE "unsubscribed"
        BY <2>1, <3>1 DEF TypeOK
      <4>2. status'[o] = "opted_out" /\ UNCHANGED <<contact, mergedInto, prefs>>
        BY <2>1, <3>1 DEF TypeOK
      <4> QED  BY <4>1, <4>2 DEF OnlyStops
    <3>2. CASE o # s
      BY <2>1, <3>2 DEF OnlyStops, TypeOK
    <3> QED  BY <3>1, <3>2
  <2>3. \A d \in ConfIds : SameToken(d) /\ confs'[d].attempts = confs[d].attempts
    BY <2>1, SupersedingRow DEF SameToken, Live, LiveOf
  <2> QED  BY <1>1, <2>1, <2>2, <2>3
<1> QED
  BY <1>2, <1>3, <1>4, <1>5, <1>6
     DEF OtherStep, PresentEmailLink, PresentSmsCode, AbandonConfirm, CooldownPasses, TokenExpires,
         vars, rows

\* The empty tables satisfy it.
LEMMA InitTokenInv == Init => TokenInv
BY NoneAssumption
   DEF Init, TokenInv, ChannelsOK, OneLiveToken, EveryGuessCounts, FoldedPreferencesWereProven,
       NoConfirmation, Live, ConfIds

\* Every step of every operation preserves it.
LEMMA NextTokenInv == IInv /\ TokenInv /\ [Next]_vars => TokenInv'
<1> SUFFICES ASSUME IInv, TokenInv, [Next]_vars PROVE TokenInv'
  OBVIOUS
<1>1. ASSUME NEW r \in Subs, NEW given \in GivenContacts, NEW code \in Codes \cup {None},
             Subscribe(r, given, code)
      PROVE  TokenInv'
  BY <1>1, SubscribeKeepsTokens
<1>2. ASSUME NEW ch \in Channels, NEW x \in Contacts(ch), NEW r \in Subs,
             NEW code \in Codes \cup {None}, ResendConfirmation(ch, x, r, code)
      PROVE  TokenInv'
  BY <1>2, ResendKeepsTokens
<1>3. ASSUME NEW x \in Phones, NEW code \in Codes, WrongSmsCode(x, code) PROVE TokenInv'
  BY <1>3, GuessKeepsTokens
<1>4. ASSUME NEW c \in ConfIds, ConfirmAndKeep(c) PROVE TokenInv'
  BY <1>4, KeepConfirmsTokens
<1>5. ASSUME NEW c \in ConfIds, NEW v \in Subs, ConfirmAndFold(c, v) PROVE TokenInv'
  BY <1>5, FoldKeepsTokens
<1>6. ASSUME NEW k, NEW keep, NEW ch \in Channels, NEW x, NEW c, NEW r,
             OtherStep(k, keep, ch, x, c, r)
      PROVE  TokenInv'
  <2>1. /\ expired' \in Nat /\ expired' >= expired
        /\ \A o \in Subs : OnlyStops(o)
        /\ \A d \in ConfIds : SameToken(d) /\ confs'[d].attempts = confs[d].attempts
    BY <1>6, OthersOnlyStop
  <2> QED  BY <2>1, StopsKeep
<1>7. "sms" \in Channels
  BY DEF Channels
<1>8. \A ch \in Channels : \A x \in Contacts(ch) : x # None
  BY NoneAssumption DEF Channels, Contacts
<1> QED
  BY <1>1, <1>2, <1>3, <1>4, <1>5, <1>6, <1>7, <1>8 DEF Next, OtherStep

-----------------------------------------------------------------------------
(* What a step may never do.                                                *)

\* A channel that was stopped, and has no token outstanding.
Over(r, ch) == chan[r][ch] = "unsubscribed" /\ LiveOn(r, ch) = {}

\* It stays so.
LEMMA OverStays ==
    ASSUME IInv, TokenInv, [Next]_vars, NEW o \in Subs, NEW h \in Channels, Over(o, h)
    PROVE  Over(o, h)'
<1> TypeOK /\ TokensOK /\ ChannelsOK
  BY DEF IInv, TokenInv
<1>1. \A d \in ConfIds : Live(d) => ~(confs[d].sub = o /\ confs[d].channel = h)
  BY DEF Over, LiveOn, LiveOf
<1>2. SUFFICES /\ chan'[o][h] = "unsubscribed"
               /\ \A d \in ConfIds : Live(d)' => ~(confs'[d].sub = o /\ confs'[d].channel = h)
  BY DEF Over, LiveOn, LiveOf
<1> chan[o][h] = "unsubscribed"
  BY DEF Over
<1> DEFINE Stays == /\ chan'[o][h] = "unsubscribed"
                    /\ \A d \in ConfIds : Live(d)' => ~(confs'[d].sub = o /\ confs'[d].channel = h)
<1>3. ASSUME NEW r \in Subs, NEW given \in GivenContacts, NEW code \in Codes \cup {None},
             Subscribe(r, given, code)
      PROVE  Stays
  <2>1. o # r /\ chan'[o] = chan[o]
    BY <1>3, NoneAssumption DEF Subscribe, ChannelsOK, TypeOK
  <2>2. \A d \in ConfIds : confs'[d] = confs[d] \/ confs'[d].sub = r
    BY <1>3, SubscribeRow
  <2> QED  BY <2>1, <2>2, <1>1 DEF Live
<1>4. ASSUME NEW ch \in Channels, NEW x \in Contacts(ch), NEW r \in Subs,
             NEW code \in Codes \cup {None}, ResendConfirmation(ch, x, r, code)
      PROVE  Stays
  <2>1. ~(o = r /\ h = ch) /\ chan' = chan
    BY <1>4 DEF ResendConfirmation, Waiting, rows
  <2>2. \A d \in ConfIds : IF d = issued + 1 THEN confs'[d].sub = r /\ confs'[d].channel = ch
                           ELSE confs'[d].sub = confs[d].sub /\ confs'[d].channel = confs[d].channel
                                /\ (Live(d)' => Live(d))
    BY <1>4, ResendRow DEF Live
  <2> QED  BY <2>1, <2>2, <1>1
<1>5. ASSUME NEW x \in Phones, NEW code \in Codes, WrongSmsCode(x, code) PROVE Stays
  <2>1. chan' = chan
    BY <1>5 DEF WrongSmsCode, rows
  <2>2. \A d \in ConfIds : confs'[d].sub = confs[d].sub /\ confs'[d].channel = confs[d].channel
                           /\ (Live(d)' => Live(d))
    BY <1>5, GuessRow DEF Live
  <2> QED  BY <2>1, <2>2, <1>1
<1>6. ASSUME NEW c \in ConfIds, ConfirmAndKeep(c) PROVE Stays
  <2>1. /\ KeepOf(confs[c].sub, confs[c].channel) /\ Live(c)
        /\ \A d \in ConfIds : SameToken(d)
    BY <1>6, KeepEffect
  <2>2. ~(o = confs[c].sub /\ h = confs[c].channel)
    BY <2>1, <1>1
  <2>3. chan'[o][h] = "unsubscribed"
    BY <2>1, <2>2 DEF KeepOf
  <2>4. \A d \in ConfIds : Live(d)' => ~(confs'[d].sub = o /\ confs'[d].channel = h)
    BY <2>1, <1>1 DEF SameToken
  <2> QED  BY <2>3, <2>4
<1>7. ASSUME NEW c \in ConfIds, NEW v \in Subs, ConfirmAndFold(c, v) PROVE Stays
  <2> DEFINE r == confs[c].sub
             ch == confs[c].channel
  <2>1. FoldOf(v, r, ch) /\ \A d \in ConfIds : FoldedToken(v, r, d)
    BY <1>7, FoldEffect
  <2>2. ~(o = r /\ h = ch)
    BY <1>1, <1>7, HeldToken DEF ConfirmAndFold
  <2> HIDE DEF r, ch
  <2>3. ~(o = v /\ h \in Takes(v, r))
    BY NoneAssumption DEF ChannelsOK, Takes
  <2> QED  BY <2>1, <2>2, <2>3, <1>1 DEF FoldOf, FoldedToken
<1>8. ASSUME NEW k, NEW keep, NEW ch \in Channels, NEW x, NEW c, NEW r,
             OtherStep(k, keep, ch, x, c, r)
      PROVE  Stays
  <2>1. (\A p \in Subs : OnlyStops(p)) /\ \A d \in ConfIds : SameToken(d)
    BY <1>8, OthersOnlyStop
  <2> QED  BY <2>1, <1>1 DEF OnlyStops, SameToken
<1>9. "sms" \in Channels /\ \A ch \in Channels : \A x \in Contacts(ch) : x # None
  BY NoneAssumption DEF Channels, Contacts
<1> HIDE DEF Stays
<1>10. Stays
  BY <1>3, <1>4, <1>5, <1>6, <1>7, <1>8, <1>9 DEF Next, OtherStep
<1> QED  BY <1>10 DEF Stays

\* The contact r proved is found again where r was merged, unless the slot there
\* was taken.
Survives(r, ch) ==
    LET v == mergedInto'[r]
    IN  \/ contact'[v][ch] = contact[r][ch] /\ chan'[v][ch] = "confirmed"
        \/ contact[v][ch] # None

\* It does.
LEMMA ProvenSurvives ==
    ASSUME IInv, TokenInv, [Next]_vars, NEW o \in Subs, NEW h \in Channels,
           Unmerged(o), chan[o][h] = "confirmed", mergedInto'[o] # None
    PROVE  Survives(o, h)
<1> TypeOK /\ RowsOK /\ ChannelsOK
  BY DEF IInv, TokenInv
<1>1. mergedInto[o] = None /\ status[o] # "pending_confirmation" /\ contact[o][h] # None
  BY DEF Unmerged, ChannelsOK, RowsOK
<1>2. ASSUME NEW c \in ConfIds, ConfirmAndKeep(c) PROVE FALSE
  BY <1>1, <1>2, KeepEffect DEF KeepOf
<1>3. ASSUME NEW c \in ConfIds, NEW v \in Subs, ConfirmAndFold(c, v) PROVE Survives(o, h)
  <2> DEFINE r == confs[c].sub
             ch == confs[c].channel
  <2>1. FoldOf(v, r, ch)
    BY <1>3, FoldEffect
  <2> HIDE DEF r, ch
  <2>2. o = r /\ mergedInto'[o] = v
    BY <2>1, <1>1 DEF FoldOf
  <2>3. CASE contact[v][h] = None
    <3>1. h \in Takes(v, r)
      BY <2>2, <2>3, <1>1 DEF Takes
    <3> QED  BY <3>1, <2>1, <2>2 DEF FoldOf, Survives
  <2> QED  BY <2>2, <2>3 DEF Survives
<1>4. ASSUME NEW r \in Subs, NEW given \in GivenContacts, NEW code \in Codes \cup {None},
             Subscribe(r, given, code)
      PROVE  FALSE
  BY <1>1, <1>4 DEF Subscribe
<1>5. ASSUME NEW ch \in Channels, NEW x \in Contacts(ch), NEW r \in Subs,
             NEW code \in Codes \cup {None}, ResendConfirmation(ch, x, r, code)
      PROVE  FALSE
  BY <1>1, <1>5 DEF ResendConfirmation, rows
<1>6. ASSUME NEW x \in Phones, NEW code \in Codes, WrongSmsCode(x, code) PROVE FALSE
  BY <1>1, <1>6 DEF WrongSmsCode, rows
<1>7. ASSUME NEW k, NEW keep, NEW ch \in Channels, NEW x, NEW c, NEW r,
             OtherStep(k, keep, ch, x, c, r)
      PROVE  FALSE
  BY <1>1, <1>7, OthersOnlyStop DEF OnlyStops
<1>8. "sms" \in Channels /\ \A ch \in Channels : \A x \in Contacts(ch) : x # None
  BY NoneAssumption DEF Channels, Contacts
<1> QED
  BY <1>2, <1>3, <1>4, <1>5, <1>6, <1>7, <1>8 DEF Next, OtherStep

-----------------------------------------------------------------------------
(* The theorems.                                                            *)

\* The empty tables satisfy the inductive invariant.
LEMMA InitIInv == Init => IInv
<1> SUFFICES ASSUME Init PROVE IInv
  OBVIOUS
<1>1. TypeOK
  BY InitTypeOK
<1>2. RowsOK /\ TokensOK /\ LocksOK
  BY NoneAssumption
     DEF Init, RowsOK, TokensOK, LocksOK, NoConfirmation, Live, Channels, ConfIds
<1>3. LiveTokenIsAddressed /\ OneOwner /\ StopIsFinal
  BY DEF Init, LiveTokenIsAddressed, OneOwner, StopIsFinal, NoConfirmation, Live, Unmerged
<1> QED  BY <1>1, <1>2, <1>3 DEF IInv

\* Every step of every operation preserves it.
LEMMA NextIInv == IInv /\ [Next]_vars => IInv'
<1> SUFFICES ASSUME IInv, [Next]_vars PROVE Rest'
  BY NextTypeOK DEF IInv, Rest
<1>1. ASSUME NEW r \in Subs, NEW given \in GivenContacts, NEW code \in Codes \cup {None},
             Subscribe(r, given, code)
      PROVE  Rest'
  BY <1>1, SubscribeKeeps
<1>2. ASSUME NEW ch \in Channels, NEW x \in Contacts(ch), NEW r \in Subs,
             NEW code \in Codes \cup {None}, ResendConfirmation(ch, x, r, code)
      PROVE  Rest'
  BY <1>2, ResendKeeps
<1>3. ASSUME NEW c \in ConfIds, PresentEmailLink(c) PROVE Rest'
  BY <1>3, LockKeeps DEF PresentEmailLink, Eligible, rows, clock
<1>4. ASSUME NEW x \in Phones, NEW c \in ConfIds, PresentSmsCode(x, c) PROVE Rest'
  <2> DEFINE S == LiveFor("sms", x)
  <2>1. S \in SUBSET ConfIds /\ \A d \in S : Live(d)
    BY DEF LiveFor
  <2>2. /\ UNCHANGED <<status, contact, chan, mergedInto, issued, stopMark, confs>>
        /\ held' = [held EXCEPT ![c] = S] /\ c \in S /\ Unlocked(S)
    BY <1>4 DEF PresentSmsCode, rows, clock
  <2> HIDE DEF S
  <2> QED  BY <2>1, <2>2, LockKeeps
<1>5. ASSUME NEW x \in Phones, NEW code \in Codes, WrongSmsCode(x, code) PROVE Rest'
  <2>1. UNCHANGED <<status, contact, chan, mergedInto, issued, stopMark, held>>
    BY <1>5 DEF WrongSmsCode, rows, clock
  <2>2. TypeOK
    BY DEF IInv
  <2> QED  BY <1>5, <2>1, <2>2, GuessRow, FrameKeeps
<1>6. ASSUME NEW c \in ConfIds, ConfirmAndKeep(c) PROVE Rest'
  BY <1>6, ConfirmAndKeepKeeps
<1>7. ASSUME NEW c \in ConfIds, NEW v \in Subs, ConfirmAndFold(c, v) PROVE Rest'
  BY <1>7, ConfirmAndFoldKeeps
<1>8. ASSUME NEW c \in ConfIds, AbandonConfirm(c) PROVE Rest'
  <2>1. Unlocked({})
    BY DEF Unlocked
  <2> QED  BY <1>8, <2>1, LockKeeps DEF AbandonConfirm, rows, clock
<1>9. ASSUME NEW ch \in Channels, NEW x \in Contacts(ch), OptOut(ch, x) PROVE Rest'
  BY <1>9, OptOutKeeps
<1>10. ASSUME NEW ch \in Channels, NEW x \in Contacts(ch), NEW r \in Subs,
              RequestManageLink(ch, x, r)
       PROVE  Rest'
  BY <1>10, FrameKeeps DEF RequestManageLink, clock
<1>11. ASSUME NEW k \in Subs, NEW keep \in SUBSET Channels, WritePreferences(k, keep)
       PROVE  Rest'
  BY <1>11, WritePreferencesKeeps
<1>12. ASSUME NEW k \in Subs, UnsubscribeAll(k) PROVE Rest'
  BY <1>12, UnsubscribeAllKeeps
<1>13. CASE CooldownPasses
  BY <1>13, FrameKeeps DEF CooldownPasses, rows
<1>14. CASE TokenExpires
  BY <1>14, FrameKeeps DEF TokenExpires, rows
<1>15. CASE UNCHANGED vars
  BY <1>15, FrameKeeps DEF vars
<1> QED
  BY <1>1, <1>2, <1>3, <1>4, <1>5, <1>6, <1>7, <1>8, <1>9, <1>10, <1>11, <1>12,
     <1>13, <1>14, <1>15 DEF Next

\* The inductive invariant holds in every reachable state.
THEOREM Inductive == Spec => []IInv
BY InitIInv, NextIInv, PTL DEF Spec

\* Every column keeps to its domain: in particular attempts never pass the cap
\* and an expired token is one that was issued.
THEOREM TypeCorrect == Spec => []TypeOK
<1>1. IInv => TypeOK
  BY DEF IInv
<1> QED  BY <1>1, Inductive, PTL

\* mergeOnConfirm: a contact is confirmed on one live record at most.
THEOREM AtMostOneOwner == Spec => []OneOwner
<1>1. IInv => OneOwner
  BY DEF IInv
<1> QED  BY <1>1, Inductive, PTL

\* foldInto: a token that can still be presented confirms the contact it was
\* sent to, on a record that no merge has retired.
THEOREM TokensStayAddressed == Spec => []LiveTokenIsAddressed
<1>1. IInv => LiveTokenIsAddressed
  BY DEF IInv
<1> QED  BY <1>1, Inductive, PTL

\* optOut against everything that confirms or merges: alerts resume only after
\* a token issued later than the stop.
THEOREM StoppedNeedsNewToken == Spec => []StopIsFinal
<1>1. IInv => StopIsFinal
  BY DEF IInv
<1> QED  BY <1>1, Inductive, PTL

\* The tokens beside the records: the second inductive invariant.
THEOREM TokensInductive == Spec => [](IInv /\ TokenInv)
<1>1. Spec => []IInv
  BY Inductive
<1> QED  BY <1>1, InitTokenInv, NextTokenInv, PTL DEF Spec

\* issueConfirmation and foldInto: a record never has two live tokens for a channel,
\* nor one for a channel that is confirmed.
THEOREM TokensAreSingle == Spec => []OneLiveToken
<1>1. TokenInv => OneLiveToken
  BY DEF TokenInv
<1> QED  BY <1>1, TokensInductive, PTL

\* confirmSms: no signup and no merge gives a guesser more tries at a code.
THEOREM GuessesAreCounted == Spec => []EveryGuessCounts
<1>1. TokenInv => EveryGuessCounts
  BY DEF TokenInv
<1> QED  BY <1>1, TokensInductive, PTL

\* mergeOnConfirm: what widens a rider's alerts was chosen by somebody who
\* confirmed a contact.
THEOREM FoldedWereProven == Spec => []FoldedPreferencesWereProven
<1>1. TokenInv => FoldedPreferencesWereProven
  BY DEF TokenInv
<1> QED  BY <1>1, TokensInductive, PTL

\* A channel that was stopped and has no token outstanding is stopped for good.
THEOREM StoppedIsForGood == Spec => StoppedWithoutTokenIsFinal
<1>1. IInv /\ TokenInv /\ [Next]_vars =>
        [\A r \in Subs : \A ch \in Channels :
           chan[r][ch] = "unsubscribed" /\ LiveOn(r, ch) = {} =>
              chan'[r][ch] = "unsubscribed" /\ LiveOn(r, ch)' = {}]_vars
  BY OverStays DEF Over
<1> QED  BY <1>1, TokensInductive, PTL DEF Spec, StoppedWithoutTokenIsFinal

\* foldInto: a proven contact is never lost with the record that held it.
THEOREM ProvenContactsSurvive == Spec => ProvenContactSurvivesMerge
<1>1. IInv /\ TokenInv /\ [Next]_vars =>
        [\A r \in Subs : \A ch \in Channels :
           Unmerged(r) /\ chan[r][ch] = "confirmed" /\ mergedInto'[r] # None =>
              LET v == mergedInto'[r]
              IN  \/ contact'[v][ch] = contact[r][ch] /\ chan'[v][ch] = "confirmed"
                  \/ contact[v][ch] # None]_vars
  BY ProvenSurvives DEF Survives
<1> QED  BY <1>1, TokensInductive, PTL DEF Spec, ProvenContactSurvivesMerge

-----------------------------------------------------------------------------
(* Where a manage key leads.                                                *)

\* A step that merges, merges every record it retires into the same record,
\* which stays unmerged.
MergesInto(v) ==
    /\ v \in Subs /\ mergedInto[v] = None /\ mergedInto'[v] = None
    /\ \A o \in Subs : mergedInto'[o] \in {mergedInto[o], v}

\* Every step leaves the merges as they are, or makes one: confirming merges
\* into the record confirmed or into the one it is folded into, nothing else
\* touches merged_into.
LEMMA MergesIntoOne ==
    ASSUME IInv, TokenInv, [Next]_vars
    PROVE  (\A o \in Subs : mergedInto'[o] = mergedInto[o]) \/ \E v \in Subs : MergesInto(v)
<1> TypeOK /\ ChannelsOK
  BY DEF IInv, TokenInv
<1>1. ASSUME NEW c \in ConfIds, ConfirmAndKeep(c) PROVE \E v \in Subs : MergesInto(v)
  <2> DEFINE r == confs[c].sub
             retired == NeverProven(r, confs[c].channel)
  <2>1. r \in Subs /\ mergedInto[r] = None
    BY <1>1, HeldToken DEF ConfirmAndKeep, Unmerged
  <2>2. mergedInto' = [o \in Subs |-> IF o \in retired THEN r ELSE mergedInto[o]]
    BY <1>1 DEF ConfirmAndKeep
  <2>3. r \notin retired
    BY DEF NeverProven, Duplicates
  <2> HIDE DEF r, retired
  <2>4. MergesInto(r)
    BY <2>1, <2>2, <2>3 DEF MergesInto
  <2> QED  BY <2>1, <2>4
<1>2. ASSUME NEW c \in ConfIds, NEW v \in Subs, ConfirmAndFold(c, v) PROVE MergesInto(v)
  <2> DEFINE r == confs[c].sub
             gone == (NeverProven(r, confs[c].channel) \ {v}) \cup {r}
  <2>1. v \in Established(r, confs[c].channel)
    BY <1>2 DEF ConfirmAndFold
  <2>2. v # r /\ mergedInto[v] = None
    BY <2>1 DEF Established, Duplicates, Unmerged
  <2>3. mergedInto' = [o \in Subs |-> IF o \in gone THEN v ELSE mergedInto[o]]
    BY <1>2 DEF ConfirmAndFold
  <2>4. v \notin gone
    BY <2>2
  <2> HIDE DEF r, gone
  <2> QED  BY <2>2, <2>3, <2>4 DEF MergesInto
<1> DEFINE Same == \A o \in Subs : mergedInto'[o] = mergedInto[o]
<1>3. ASSUME NEW r \in Subs, NEW given \in GivenContacts, NEW code \in Codes \cup {None},
             Subscribe(r, given, code)
      PROVE  Same
  BY <1>3 DEF Subscribe
<1>4. ASSUME NEW ch \in Channels, NEW x \in Contacts(ch), NEW r \in Subs,
             NEW code \in Codes \cup {None}, ResendConfirmation(ch, x, r, code)
      PROVE  Same
  BY <1>4 DEF ResendConfirmation, rows
<1>5. ASSUME NEW x \in Phones, NEW code \in Codes, WrongSmsCode(x, code) PROVE Same
  BY <1>5 DEF WrongSmsCode, rows
<1>6. ASSUME NEW k, NEW keep, NEW ch \in Channels, NEW x, NEW c, NEW r,
             OtherStep(k, keep, ch, x, c, r)
      PROVE  Same
  BY <1>6, OthersOnlyStop DEF OnlyStops
<1>7. "sms" \in Channels /\ \A ch \in Channels : \A x \in Contacts(ch) : x # None
  BY NoneAssumption DEF Channels, Contacts
<1> QED
  BY <1>1, <1>2, <1>3, <1>4, <1>5, <1>6, <1>7 DEF Next, OtherStep

\* There is no merge to begin with.
LEMMA InitMergesEnd == Init => MergesEnd
BY NoneAssumption DEF Init, MergesEnd

\* A merge into one record that stays unmerged closes no circle: if that record
\* is in S, it leads out of S itself; if not, whoever led out of S still does.
LEMMA NextMergesEnd == IInv /\ TokenInv /\ MergesEnd /\ [Next]_vars => MergesEnd'
<1> SUFFICES ASSUME IInv, TokenInv, MergesEnd, [Next]_vars,
                    NEW S \in SUBSET Subs, S # {}
             PROVE  \E r \in S : mergedInto'[r] \notin S
  BY DEF MergesEnd
<1>1. PICK r \in S : mergedInto[r] \notin S
  BY DEF MergesEnd
<1>2. CASE \A o \in Subs : mergedInto'[o] = mergedInto[o]
  BY <1>1, <1>2
<1>3. ASSUME NEW v \in Subs, MergesInto(v) PROVE \E o \in S : mergedInto'[o] \notin S
  <2>1. CASE v \in S
    BY <1>3, <2>1, NoneAssumption DEF MergesInto
  <2>2. CASE v \notin S
    BY <1>1, <1>3, <2>2 DEF MergesInto
  <2> QED  BY <2>1, <2>2
<1> QED  BY <1>2, <1>3, MergesIntoOne

\* However sign-ups, confirmations and merges are interleaved, no record is
\* merged into itself, directly or through others: every chain of merged_into
\* ends (what resolveManageKey's loop and the foreign key take for granted).
THEOREM MergesNeverCycle == Spec => []MergesEnd
BY TokensInductive, InitMergesEnd, NextMergesEnd, PTL DEF Spec

-----------------------------------------------------------------------------

\* A set of naturals that is not empty has a least member.
LEMMA LeastNatural ==
    ASSUME NEW T \in SUBSET Nat, T # {}
    PROVE  \E n \in T : \A m \in Nat : m < n => m \notin T
<1>1. \A T1 \in SUBSET Nat : T1 # {} => \E x \in T1 : \A y \in T1 : ~(<<y, x>> \in OpToRel(<, Nat))
  BY NatLessThanWellFounded, WFMin
<1>2. PICK x \in T : \A y \in T : ~(<<y, x>> \in OpToRel(<, Nat))
  BY <1>1
<1>3. \A y \in T : ~(y < x)
  BY <1>2 DEF OpToRel
<1> QED  BY <1>3

\* The record after k on the way of a manage key.
Hop(k) == IF mergedInto[k] = None THEN k ELSE mergedInto[k]

\* f follows merged_into from k, n times.
Walk(k, n, f) == f = [i \in 0 .. n |-> IF i = 0 THEN k ELSE Hop(f[i - 1])]

\* There is such a walk.
LEMMA WalkExists ==
    ASSUME NEW k, NEW n \in Nat
    PROVE  \E f : Walk(k, n, f)
<1> DEFINE T == {m \in Nat : ~ \E f : Walk(k, m, f)}
<1>1. SUFFICES ASSUME T # {} PROVE FALSE
  OBVIOUS
<1>2. PICK m \in T : \A j \in Nat : j < m => j \notin T
  BY <1>1, LeastNatural
<1>3. CASE m = 0
  <2>1. Walk(k, 0, [i \in 0 .. 0 |-> k])
    BY DEF Walk
  <2> QED  BY <1>3, <2>1
<1>4. CASE m > 0
  <2>1. m - 1 \in Nat /\ m - 1 < m
    BY <1>4
  <2>2. PICK g : Walk(k, m - 1, g)
    BY <1>2, <2>1
  <2>3. g = [i \in 0 .. m - 1 |-> IF i = 0 THEN k ELSE Hop(g[i - 1])]
    BY <2>2 DEF Walk
  <2> DEFINE f == [i \in 0 .. m |-> IF i = m THEN Hop(g[m - 1]) ELSE g[i]]
  <2>4. ASSUME NEW i \in 0 .. m
        PROVE  f[i] = IF i = 0 THEN k ELSE Hop(f[i - 1])
    <3>1. CASE i = 0
      BY <1>4, <2>3, <3>1
    <3>2. CASE i = m
      <4>1. f[m] = Hop(g[m - 1]) /\ f[m - 1] = g[m - 1]
        BY <1>4
      <4> QED  BY <1>4, <3>2, <4>1
    <3>3. CASE i # 0 /\ i # m
      <4>1. i \in 0 .. m - 1 /\ i - 1 \in 0 .. m /\ i - 1 # m
        BY <3>3
      <4>2. f[i] = g[i] /\ f[i - 1] = g[i - 1]
        BY <3>3, <4>1
      <4>3. g[i] = Hop(g[i - 1])
        BY <2>3, <3>3, <4>1
      <4> QED  BY <3>3, <4>2, <4>3
    <3> QED  BY <3>1, <3>2, <3>3
  <2>5. f = [i \in 0 .. m |-> f[i]]
    OBVIOUS
  <2> HIDE DEF f
  <2>6. Walk(k, m, f)
    BY <2>4, <2>5 DEF Walk
  <2> QED  BY <2>6
<1> QED  BY <1>3, <1>4

\* What each step of a walk does, in one formula.
LEMMA WalkStep ==
    ASSUME NEW k, NEW n \in Nat, NEW f, Walk(k, n, f)
    PROVE  /\ f[0] = k
           /\ \A i \in 0 .. n - 1 : f[i + 1] = Hop(f[i])
<1>1. \A i \in 0 .. n : f[i] = IF i = 0 THEN k ELSE Hop(f[i - 1])
  BY DEF Walk
<1>2. ASSUME NEW i \in 0 .. n - 1 PROVE f[i + 1] = Hop(f[i])
  <2>1. i + 1 \in 0 .. n /\ i + 1 # 0 /\ (i + 1) - 1 = i
    OBVIOUS
  <2> QED  BY <1>1, <2>1
<1> QED  BY <1>1, <1>2

\* A walk stays among the records.
LEMMA WalkType ==
    ASSUME TypeOK, NEW k \in Subs, NEW n \in Nat, NEW f, Walk(k, n, f)
    PROVE  \A i \in 0 .. n : f[i] \in Subs
<1> DEFINE T == {m \in 0 .. n : f[m] \notin Subs}
<1>1. SUFFICES ASSUME T # {} PROVE FALSE
  OBVIOUS
<1>11. T \in SUBSET Nat
  OBVIOUS
<1>2. PICK m \in T : \A j \in Nat : j < m => j \notin T
  <2> HIDE DEF T
  <2> QED  BY <1>1, <1>11, LeastNatural
<1>3. m # 0
  BY WalkStep
<1>4. m - 1 \in 0 .. n - 1 /\ m - 1 < m /\ (m - 1) + 1 = m
  BY <1>3
<1>5. f[m - 1] \in Subs /\ f[m] = Hop(f[m - 1])
  BY <1>2, <1>4, WalkStep
<1> QED  BY <1>5 DEF Hop, TypeOK

\* Where a walk meets a record that is not merged, it stays.
LEMMA WalkStops ==
    ASSUME NEW k, NEW n \in Nat, NEW f, Walk(k, n, f),
           NEW i \in 0 .. n, mergedInto[f[i]] = None
    PROVE  f[n] = f[i]
<1> DEFINE T == {m \in i .. n : f[m] # f[i]}
<1>1. SUFFICES ASSUME T # {} PROVE FALSE
  BY DEF T
<1>11. T \in SUBSET Nat
  OBVIOUS
<1>2. PICK m \in T : \A j \in Nat : j < m => j \notin T
  <2> HIDE DEF T
  <2> QED  BY <1>1, <1>11, LeastNatural
<1>3. m - 1 \in i .. n - 1 /\ m - 1 \in Nat /\ m - 1 < m /\ (m - 1) + 1 = m
  BY <1>2
<1>4. f[m - 1] = f[i]
  BY <1>2, <1>3
<1>5. f[m] = Hop(f[m - 1])
  <2>1. \A j \in 0 .. n - 1 : f[j + 1] = Hop(f[j])
    BY WalkStep
  <2>2. m - 1 \in 0 .. n - 1
    BY <1>3
  <2>3. f[(m - 1) + 1] = Hop(f[m - 1])
    BY <2>1, <2>2
  <2> QED  BY <2>3, <1>3
<1> QED  BY <1>4, <1>5 DEF Hop

\* resolveManageKey gives up only where more than MaxMergeHops merges, into
\* as many different records, follow one another.
TooFar(k) ==
    \E g \in Injection(0 .. MaxMergeHops + 1, Subs) :
        /\ g[0] = k
        /\ \A i \in 0 .. MaxMergeHops : mergedInto[g[i]] = g[i + 1]

\* The walk resolveManageKey takes in MaxMergeHops hops found no unmerged
\* record: then the records it went through and the one after them are all
\* different, as merges end.
LEMMA UnresolvedIsTooFar ==
    ASSUME TypeOK, MergesEnd, NEW k \in Subs, Resolved(k) = None
    PROVE  TooFar(k)
<1> DEFINE M == MaxMergeHops
<1>0. M \in Nat
  BY BoundsAssumption
<1> DEFINE at == CHOOSE f : Walk(k, M, f)
<1>1. Walk(k, M, at)
  BY <1>0, WalkExists
<1>2. Resolved(k) = IF mergedInto[at[M]] = None THEN at[M] ELSE None
  BY DEF Resolved, Walk, Hop
<1> HIDE DEF at
<1>3. \A i \in 0 .. M : at[i] \in Subs
  BY <1>0, <1>1, WalkType
<1>4. mergedInto[at[M]] # None /\ mergedInto[at[M]] \in Subs
  <2>1. at[M] \in Subs
    BY <1>0, <1>3
  <2> QED  BY <1>2, <2>1, NoneAssumption DEF TypeOK
<1>5. \A i \in 0 .. M : mergedInto[at[i]] # None
  BY <1>0, <1>1, <1>4, WalkStops
<1> DEFINE g == [i \in 0 .. M + 1 |-> IF i = M + 1 THEN mergedInto[at[M]] ELSE at[i]]
<1>6. g \in [0 .. M + 1 -> Subs]
  BY <1>0, <1>3, <1>4
<1>7. g[0] = k
  <2>1. at[0] = k
    BY <1>0, <1>1, WalkStep
  <2>2. 0 \in 0 .. M + 1 /\ 0 # M + 1
    BY <1>0
  <2> QED  BY <2>1, <2>2
<1>8. ASSUME NEW i \in 0 .. M PROVE mergedInto[g[i]] = g[i + 1]
  <2>1. CASE i = M
    BY <1>0, <2>1
  <2>2. CASE i # M
    <3>1. i \in 0 .. M - 1 /\ i + 1 # M + 1 /\ i + 1 \in 0 .. M + 1 /\ i \in 0 .. M + 1 /\ i # M + 1
      BY <1>0, <2>2
    <3>2. at[i + 1] = Hop(at[i])
      BY <1>0, <1>1, <3>1, WalkStep
    <3> QED  BY <3>1, <3>2, <1>5 DEF Hop
  <2> QED  BY <2>1, <2>2
<1> HIDE DEF g
<1>9. ASSUME NEW x \in 0 .. M + 1, NEW y \in 0 .. M + 1, x < y, g[x] = g[y] PROVE FALSE
  <2> DEFINE S == {g[i] : i \in x .. y - 1}
  <2>1. S \in SUBSET Subs /\ S # {}
    BY <1>0, <1>6, <1>9
  <2>2. ASSUME NEW i \in x .. y - 1 PROVE mergedInto[g[i]] \in S
    <3>1. i \in 0 .. M /\ i + 1 \in x .. y
      BY <1>0
    <3>2. mergedInto[g[i]] = g[i + 1]
      BY <1>8, <3>1
    <3>3. CASE i + 1 = y
      BY <3>2, <3>3, <1>9, <1>0
    <3>4. CASE i + 1 # y
      BY <3>1, <3>2, <3>4, <1>0
    <3> QED  BY <3>3, <3>4
  <2>3. PICK r \in S : mergedInto[r] \notin S
    BY <2>1 DEF MergesEnd
  <2>4. PICK i \in x .. y - 1 : r = g[i]
    OBVIOUS
  <2> HIDE DEF S
  <2> QED  BY <2>2, <2>3, <2>4
<1>10. g \in Injection(0 .. M + 1, Subs)
  <2>1. \A x, y \in 0 .. M + 1 : g[x] = g[y] => x = y
    <3>1. \A x, y \in 0 .. M + 1 : x < y \/ y < x \/ x = y
      BY <1>0
    <3> QED  BY <1>9, <3>1
  <2> QED  BY <1>6, <2>1 DEF Injection, IsInjective
<1> QED  BY <1>7, <1>8, <1>10 DEF TooFar

\* resolveManageKey returns null for a record only if MaxMergeHops + 1 merges
\* lie between it and its survivor, for any number of records: never because
\* merges run in a circle or lead to a record that is gone.
THEOREM KeysFailOnlyPastTheBound ==
    Spec => [](\A k \in Subs : Resolved(k) = None => TooFar(k))
<1>1. IInv /\ MergesEnd => \A k \in Subs : Resolved(k) = None => TooFar(k)
  BY UnresolvedIsTooFar DEF IInv
<1> QED  BY <1>1, Inductive, MergesNeverCycle, PTL

-----------------------------------------------------------------------------
(* What the owner of a contact may rely on: every step of the subscriptions *)
(* is a step of Consent, or one that Consent does not see.                  *)

\* The variables of Consent, address by address.
AskedMap == [a \in Addresses |-> SentTo(a, "live")]
AnsweredMap == [a \in Addresses |-> SentTo(a, "confirmed")]
OnSet == {a \in Addresses : IsOn(a)}
StoppedMap == [a \in Addresses |-> stopMark[a[1]][a[2]]]

\* With no rows, nobody was asked, nothing was answered and nothing is on.
LEMMA InitConsent == Init => DoubleOptIn!ConsentInit
<1> SUFFICES ASSUME Init PROVE DoubleOptIn!ConsentInit
  OBVIOUS
<1>1. \A a : SentTo(a, "live") = {} /\ SentTo(a, "confirmed") = {} /\ ~IsOn(a)
  BY DEF Init, SentTo, NoConfirmation, IsOn, Unmerged
<1>2. \A a \in Addresses : a[1] \in Channels /\ a[2] \in Phones \cup Emails
  BY DEF Addresses
<1> QED  BY <1>1, <1>2 DEF Init, DoubleOptIn!ConsentInit

\* A token row as Consent sees it.
LEMMA SentToRow ==
    ASSUME NEW a, NEW s
    PROVE  /\ SentTo(a, s) = {d \in ConfIds : confs[d].state = s /\ confs[d].channel = a[1] /\ confs[d].to = a[2]}
           /\ SentTo(a, s)' = {d \in ConfIds : confs'[d].state = s /\ confs'[d].channel = a[1] /\ confs'[d].to = a[2]}
           /\ SentTo(a, s) \in SUBSET Nat /\ SentTo(a, s)' \in SUBSET Nat
BY DEF SentTo, ConfIds

\* Where a token was sent to does not change.
SameAddress(d) == confs'[d].channel = confs[d].channel /\ confs'[d].to = confs[d].to

\* Spending no token and asking for none.
LEMMA NoneAnswered ==
    ASSUME \A d \in ConfIds : \/ /\ SameAddress(d)
                                 /\ confs'[d].state = "confirmed" <=> confs[d].state = "confirmed"
                              \/ confs'[d].state # "confirmed" /\ confs[d].state # "confirmed"
    PROVE  AnsweredMap' = AnsweredMap
<1>1. ASSUME NEW a \in Addresses PROVE SentTo(a, "confirmed")' = SentTo(a, "confirmed")
  <2>1. \A d \in ConfIds :
           (confs'[d].state = "confirmed" /\ confs'[d].channel = a[1] /\ confs'[d].to = a[2])
           <=> (confs[d].state = "confirmed" /\ confs[d].channel = a[1] /\ confs[d].to = a[2])
    BY DEF SameAddress
  <2>2. \A d : d \in SentTo(a, "confirmed")' <=> d \in SentTo(a, "confirmed")
    BY <2>1, SentToRow
  <2> QED  BY <2>2
<1> QED  BY <1>1 DEF AnsweredMap

\* Issuing no token, and sending none elsewhere, asks nobody.
LEMMA NoneAsked ==
    ASSUME \A d \in ConfIds : Live(d)' => Live(d) /\ SameAddress(d)
    PROVE  /\ AskedMap' \in [Addresses -> SUBSET Nat]
           /\ \A a \in Addresses : AskedMap'[a] \subseteq AskedMap[a]
<1>1. \A a \in Addresses : SentTo(a, "live")' \subseteq SentTo(a, "live") /\ SentTo(a, "live")' \in SUBSET Nat
  BY SentToRow DEF SameAddress, Live
<1> QED  BY <1>1 DEF AskedMap

\* Marking no stop stops nobody.
LEMMA SameStops ==
    stopMark' = stopMark => StoppedMap' = StoppedMap
BY DEF StoppedMap

\* A step that issues tokens is Ask.
LEMMA AskStep ==
    ASSUME TypeOK, issued' \in Nat, issued' > issued, stopMark' = stopMark, OnSet' = OnSet,
           \A d \in ConfIds :
              /\ Live(d)' => \/ Live(d) /\ SameAddress(d)
                             \/ d > issued /\ d <= issued'
              /\ \/ /\ SameAddress(d)
                    /\ confs'[d].state = "confirmed" <=> confs[d].state = "confirmed"
                 \/ confs'[d].state # "confirmed" /\ confs[d].state # "confirmed"
    PROVE  DoubleOptIn!Ask
<1>1. AnsweredMap' = AnsweredMap /\ StoppedMap' = StoppedMap
  BY NoneAnswered, SameStops
<1>2. \A a \in Addresses : /\ SentTo(a, "live")' \in SUBSET Nat
                           /\ SentTo(a, "live")' \subseteq SentTo(a, "live") \cup (issued + 1 .. issued')
  <2> SUFFICES ASSUME NEW a \in Addresses, NEW d \in SentTo(a, "live")'
               PROVE  d \in SentTo(a, "live") \/ d \in issued + 1 .. issued'
    BY SentToRow
  <2>1. d \in ConfIds /\ d \in Nat /\ Live(d)'
    BY SentToRow DEF Live
  <2>2. CASE Live(d) /\ SameAddress(d)
    BY <2>1, <2>2, SentToRow DEF SameAddress, Live
  <2>3. CASE d > issued /\ d <= issued'
    <3>1. issued \in Nat
      BY BoundsAssumption DEF TypeOK
    <3> QED  BY <2>1, <2>3, <3>1
  <2> QED  BY <2>1, <2>2, <2>3
<1>3. \A a, b \in Addresses : a # b => SentTo(a, "live")' \cap SentTo(b, "live")' = {}
  BY SentToRow DEF Addresses
<1> QED
  BY <1>1, <1>2, <1>3 DEF DoubleOptIn!Ask, AnsweredMap, StoppedMap, OnSet

\* A step that confirms token c, and turns on nothing but what it was sent to,
\* is Answer.
LEMMA AnswerStep ==
    ASSUME TypeOK, NEW c \in ConfIds, NEW a \in Addresses, NEW b \in Addresses,
           Live(c), confs[c].channel = a[1], confs[c].to = a[2],
           confs'[c].state = "confirmed", SameAddress(c),
           \A d \in ConfIds \ {c} :
              /\ Live(d)' => Live(d)
              /\ SameAddress(d)
              /\ confs'[d].state = "confirmed" <=> confs[d].state = "confirmed",
           UNCHANGED <<issued, stopMark>>,
           IsOn(a)', \A x \in Addresses : IsOn(x)' => IsOn(x) \/ x = a,
           \A x \in Addresses : IsOn(x) => IsOn(x)' \/ x = b
    PROVE  DoubleOptIn!Answer(a, c) /\ c \in AskedMap[a]
<1>1. c \in SentTo(a, "live") /\ c \notin SentTo(a, "live")'
  BY SentToRow DEF Live
<1>2. \A d \in ConfIds : Live(d)' => Live(d) /\ SameAddress(d)
  BY DEF Live
<1>3. /\ AskedMap' \in [Addresses -> SUBSET Nat]
      /\ \A x \in Addresses : AskedMap'[x] \subseteq AskedMap[x]
  BY <1>2, NoneAsked
<1>4. StoppedMap' = StoppedMap
  BY SameStops
<1>5. ASSUME NEW x \in Addresses
      PROVE  SentTo(x, "confirmed")' = IF x = a THEN SentTo(a, "confirmed") \cup {c}
                                       ELSE SentTo(x, "confirmed")
  <2>1. x = a <=> x[1] = a[1] /\ x[2] = a[2]
    BY DEF Addresses
  <2>2. ASSUME NEW d \in ConfIds
        PROVE  (confs'[d].state = "confirmed" /\ confs'[d].channel = x[1] /\ confs'[d].to = x[2])
               <=> \/ (confs[d].state = "confirmed" /\ confs[d].channel = x[1] /\ confs[d].to = x[2])
                   \/ (x = a /\ d = c)
    <3>1. CASE d # c
      BY <3>1 DEF SameAddress
    <3>2. CASE d = c
      BY <3>2, <2>1 DEF SameAddress, Live
    <3> QED  BY <3>1, <3>2
  <2>3. \A d : d \in SentTo(x, "confirmed")' <=> d \in SentTo(x, "confirmed") \/ (x = a /\ d = c)
    BY <2>2, SentToRow
  <2> QED  BY <2>3
<1>6. AnsweredMap' = [AnsweredMap EXCEPT ![a] = AnsweredMap[a] \cup {c}]
  BY <1>5 DEF AnsweredMap
<1>7. a \in OnSet' /\ OnSet' \subseteq OnSet \cup {a} /\ OnSet \ OnSet' \subseteq {b}
  BY DEF OnSet
<1>8. c \in AskedMap[a] /\ c \notin AskedMap'[a]
  BY <1>1 DEF AskedMap
<1> QED
  BY <1>3, <1>4, <1>6, <1>7, <1>8
     DEF DoubleOptIn!Answer, DoubleOptIn!NoNewToken, AskedMap, AnsweredMap, OnSet, StoppedMap

\* A step that stops an address is Stop.
LEMMA StopStep ==
    ASSUME TypeOK, NEW a \in Addresses,
           \A d \in ConfIds :
              /\ SameAddress(d)
              /\ confs'[d].state = IF Live(d) /\ confs[d].channel = a[1] /\ confs[d].to = a[2]
                                   THEN "superseded" ELSE confs[d].state,
           issued' = issued, stopMark' = [stopMark EXCEPT ![a[1]][a[2]] = issued],
           \A x \in Addresses : IsOn(x)' <=> IsOn(x) /\ x # a
    PROVE  DoubleOptIn!Stop(a)
<1>1. AnsweredMap' = AnsweredMap
  BY NoneAnswered DEF Live
<1>2. ASSUME NEW x \in Addresses
      PROVE  SentTo(x, "live")' = IF x = a THEN {} ELSE SentTo(x, "live")
  <2>1. x = a <=> x[1] = a[1] /\ x[2] = a[2]
    BY DEF Addresses
  <2>2. ASSUME NEW d \in ConfIds
        PROVE  (confs'[d].state = "live" /\ confs'[d].channel = x[1] /\ confs'[d].to = x[2])
               <=> (/\ confs[d].state = "live" /\ confs[d].channel = x[1] /\ confs[d].to = x[2]
                    /\ x # a)
    BY <2>1 DEF SameAddress, Live
  <2>3. \A d : d \in SentTo(x, "live")' <=> d \in SentTo(x, "live") /\ x # a
    BY <2>2, SentToRow
  <2> QED  BY <2>3
<1>3. AskedMap' = [AskedMap EXCEPT ![a] = {}]
  BY <1>2 DEF AskedMap
<1>4. StoppedMap' = [StoppedMap EXCEPT ![a] = issued]
  <2>1. \A x \in Addresses : stopMark'[x[1]][x[2]] = IF x = a THEN issued ELSE stopMark[x[1]][x[2]]
    <3>1. a[1] \in Channels /\ a[2] \in Phones \cup Emails
      BY DEF Addresses
    <3>2. ASSUME NEW x \in Addresses
          PROVE  stopMark'[x[1]][x[2]] = IF x = a THEN issued ELSE stopMark[x[1]][x[2]]
      <4>1. x[1] \in Channels /\ x[2] \in Phones \cup Emails
        BY DEF Addresses
      <4>2. x = a <=> x[1] = a[1] /\ x[2] = a[2]
        BY DEF Addresses
      <4> QED  BY <3>1, <4>1, <4>2 DEF TypeOK
    <3> QED  BY <3>2
  <2> QED  BY <2>1 DEF StoppedMap
<1>5. OnSet' = OnSet \ {a}
  BY DEF OnSet
<1> QED
  BY <1>1, <1>3, <1>4, <1>5 DEF DoubleOptIn!Stop, AskedMap, AnsweredMap, OnSet, StoppedMap

\* A step that only takes tokens and alerts away from two addresses is Leave.
LEMMA LeaveStep ==
    ASSUME TypeOK, NEW a \in Addresses, NEW b \in Addresses,
           \A d \in ConfIds :
              /\ SameAddress(d)
              /\ Live(d)' => Live(d)
              /\ Live(d) => \/ Live(d)'
                            \/ \E x \in {a, b} : confs[d].channel = x[1] /\ confs[d].to = x[2]
              /\ confs'[d].state = "confirmed" <=> confs[d].state = "confirmed",
           UNCHANGED <<issued, stopMark>>,
           \A x \in Addresses : IsOn(x)' => IsOn(x),
           \A x \in Addresses : IsOn(x) => IsOn(x)' \/ x \in {a, b}
    PROVE  DoubleOptIn!Leave(a, b)
<1>1. AnsweredMap' = AnsweredMap /\ StoppedMap' = StoppedMap
  BY NoneAnswered, SameStops
<1>2. /\ AskedMap' \in [Addresses -> SUBSET Nat]
      /\ \A x \in Addresses : AskedMap'[x] \subseteq AskedMap[x]
  BY NoneAsked
<1>3. ASSUME NEW x \in Addresses \ {a, b} PROVE SentTo(x, "live")' = SentTo(x, "live")
  <2>1. \A y \in {a, b} : ~(x[1] = y[1] /\ x[2] = y[2])
    BY DEF Addresses
  <2>2. \A d \in ConfIds :
           (confs'[d].state = "live" /\ confs'[d].channel = x[1] /\ confs'[d].to = x[2])
           <=> (confs[d].state = "live" /\ confs[d].channel = x[1] /\ confs[d].to = x[2])
    BY <2>1 DEF SameAddress, Live
  <2>3. \A d : d \in SentTo(x, "live")' <=> d \in SentTo(x, "live")
    BY <2>2, SentToRow
  <2> QED  BY <2>3
<1>4. \A x \in Addresses \ {a, b} : AskedMap'[x] = AskedMap[x]
  BY <1>3 DEF AskedMap
<1>5. OnSet' \subseteq OnSet /\ OnSet \ OnSet' \subseteq {a, b}
  BY DEF OnSet
<1> QED
  BY <1>1, <1>2, <1>4, <1>5
     DEF DoubleOptIn!Leave, DoubleOptIn!NoNewToken, AskedMap, AnsweredMap, OnSet, StoppedMap

\* A step that neither issues, spends nor voids a token, and turns nothing on
\* or off, stutters.
LEMMA IdleStep ==
    ASSUME \A d \in ConfIds : SameAddress(d) /\ confs'[d].state = confs[d].state,
           UNCHANGED <<issued, stopMark>>,
           \A x \in Addresses : IsOn(x)' <=> IsOn(x)
    PROVE  UNCHANGED DoubleOptIn!consentVars
<1>1. AnsweredMap' = AnsweredMap /\ StoppedMap' = StoppedMap
  BY NoneAnswered, SameStops
<1>2. ASSUME NEW x \in Addresses PROVE SentTo(x, "live")' = SentTo(x, "live")
  <2>1. \A d : d \in SentTo(x, "live")' <=> d \in SentTo(x, "live")
    BY SentToRow DEF SameAddress
  <2> QED  BY <2>1
<1>3. AskedMap' = AskedMap
  BY <1>2 DEF AskedMap
<1>4. OnSet' = OnSet
  BY DEF OnSet
<1> QED
  BY <1>1, <1>3, <1>4 DEF DoubleOptIn!consentVars, AskedMap, AnsweredMap, OnSet, StoppedMap

-----------------------------------------------------------------------------
\* Signing up asks the contacts given.
LEMMA SubscribeAsks ==
    ASSUME IInv, TokenInv, NEW r \in Subs, NEW given \in GivenContacts,
           NEW code \in Codes \cup {None}, Subscribe(r, given, code)
    PROVE  DoubleOptIn!Ask
<1> TypeOK /\ TokensOK
  BY DEF IInv
<1>1. issued \in Nat /\ issued' \in Nat /\ issued' > issued /\ stopMark' = stopMark
  BY BoundsAssumption DEF TypeOK, Subscribe
<1>2. ASSUME NEW d \in ConfIds
      PROVE  /\ Live(d)' => \/ Live(d) /\ SameAddress(d)
                            \/ d > issued /\ d <= issued'
             /\ \/ /\ SameAddress(d)
                   /\ confs'[d].state = "confirmed" <=> confs[d].state = "confirmed"
                \/ confs'[d].state # "confirmed" /\ confs[d].state # "confirmed"
  <2>1. CASE confs'[d] = confs[d]
    BY <2>1 DEF SameAddress, Live
  <2>2. CASE d > issued /\ d <= issued' /\ confs'[d].state = "live"
    BY <2>2 DEF TokensOK
  <2> QED  BY <2>1, <2>2, SubscribeRow
<1>3. ASSUME NEW x \in Addresses PROVE IsOn(x)' <=> IsOn(x)
  <2>1. status[r] = "absent" /\ x[1] \in Channels
    BY DEF Subscribe, Addresses
  <2>2. chan'[r][x[1]] # "confirmed"
    BY <2>1, NoneAssumption DEF Subscribe, TypeOK
  <2>3. \A o \in Subs \ {r} : /\ status'[o] = status[o] /\ contact'[o] = contact[o]
                              /\ chan'[o] = chan[o] /\ mergedInto'[o] = mergedInto[o]
    BY DEF Subscribe, TypeOK
  <2> QED  BY <2>1, <2>2, <2>3 DEF IsOn, Unmerged
<1>4. OnSet' = OnSet
  BY <1>3 DEF OnSet
<1> QED  BY <1>1, <1>2, <1>4, AskStep

\* So does resending.
LEMMA ResendAsks ==
    ASSUME IInv, TokenInv, NEW ch \in Channels, NEW x \in Contacts(ch), NEW r \in Subs,
           NEW code \in Codes \cup {None}, ResendConfirmation(ch, x, r, code)
    PROVE  DoubleOptIn!Ask
<1> TypeOK /\ TokensOK
  BY DEF IInv
<1>1. /\ issued \in Nat /\ issued' \in Nat /\ issued' = issued + 1 /\ issued' > issued
      /\ stopMark' = stopMark
  BY BoundsAssumption DEF TypeOK, ResendConfirmation
<1>2. ASSUME NEW d \in ConfIds
      PROVE  /\ Live(d)' => \/ Live(d) /\ SameAddress(d)
                            \/ d > issued /\ d <= issued'
             /\ \/ /\ SameAddress(d)
                   /\ confs'[d].state = "confirmed" <=> confs[d].state = "confirmed"
                \/ confs'[d].state # "confirmed" /\ confs[d].state # "confirmed"
  <2>1. CASE d = issued + 1
    <3>1. confs'[d].state = "live"
      BY <2>1, ResendRow
    <3>2. d > issued /\ d <= issued' /\ confs[d].state = "unissued"
      BY <1>1, <2>1 DEF TokensOK
    <3> QED  BY <3>1, <3>2
  <2>2. CASE d # issued + 1
    <3>1. /\ confs'[d].channel = confs[d].channel /\ confs'[d].to = confs[d].to
          /\ confs'[d].state = IF d \in LiveOn(r, ch) THEN "superseded" ELSE confs[d].state
      BY <2>2, ResendRow
    <3>2. d \in LiveOn(r, ch) => confs[d].state = "live"
      BY DEF LiveOn, LiveOf, Live
    <3> QED  BY <3>1, <3>2 DEF SameAddress, Live
  <2> QED  BY <2>1, <2>2
<1>3. OnSet' = OnSet
  BY DEF ResendConfirmation, rows, OnSet, IsOn, Unmerged
<1> QED  BY <1>1, <1>2, <1>3, AskStep

\* A token that can be presented was sent to an address.
LEMMA TokenAddress ==
    ASSUME TypeOK, TokensOK, NEW c \in ConfIds, Live(c)
    PROVE  <<confs[c].channel, confs[c].to>> \in Addresses
BY DEF TypeOK, TokensOK, Addresses, Confirmations, Contacts, Channels

\* Confirming where nobody holds the contact proven answers for it alone.
LEMMA KeepAnswers ==
    ASSUME IInv, TokenInv, NEW c \in ConfIds, ConfirmAndKeep(c)
    PROVE  \E a \in Addresses : c \in AskedMap[a] /\ DoubleOptIn!Answer(a, c)
<1> TypeOK /\ TokensOK /\ ChannelsOK
  BY DEF IInv, TokenInv
<1> DEFINE r == confs[c].sub
           ch == confs[c].channel
           retired == NeverProven(r, ch)
           voided == Voided(c, Duplicates(r, ch) \ retired, retired)
<1>1. /\ Live(c) /\ r \in Subs /\ ch \in Channels /\ Unmerged(r)
      /\ contact[r][ch] = confs[c].to
  BY HeldToken DEF ConfirmAndKeep
<1>2. PICK a \in Addresses : a[1] = ch /\ a[2] = confs[c].to
  BY <1>1, TokenAddress
<1>3. /\ confs' = Confirmed(c, {}, voided, r)
      /\ UNCHANGED <<issued, stopMark>>
      /\ mergedInto' = [o \in Subs |-> IF o \in retired THEN r ELSE mergedInto[o]]
      /\ status' = [o \in Subs |-> IF o = r THEN "confirmed"
                                   ELSE IF o \in retired THEN "merged" ELSE status[o]]
  BY DEF ConfirmAndKeep, clock
<1>4. /\ \A d \in voided : Live(d) /\ d # c
      /\ \A o \in retired : status[o] = "pending_confirmation" /\ o # r
  BY DEF Voided, NeverProven, Duplicates
<1>5. KeepOf(r, ch)
  BY KeepEffect
<1> HIDE DEF r, ch, retired, voided
<1>6. \A d \in ConfIds :
         /\ SameAddress(d)
         /\ confs'[d].state = IF d = c THEN "confirmed"
                              ELSE IF d \in voided THEN "superseded" ELSE confs[d].state
  BY <1>3, ConfirmedRow DEF SameAddress
<1>7. \A o \in Subs : chan[o][ch] = "confirmed" => status[o] # "pending_confirmation"
  BY <1>1 DEF ChannelsOK
<1>8. IsOn(a)'
  <2>1. status'[r] = "confirmed" /\ mergedInto'[r] = None
    BY <1>1, <1>3, <1>4 DEF Unmerged
  <2>2. contact'[r][ch] = confs[c].to /\ chan'[r][ch] = "confirmed"
    BY <1>1, <1>5 DEF KeepOf
  <2> QED  BY <1>1, <1>2, <2>1, <2>2 DEF IsOn, Unmerged
<1>9. ASSUME NEW x \in Addresses, IsOn(x)' PROVE IsOn(x) \/ x = a
  <2>1. PICK o \in Subs : Unmerged(o)' /\ contact'[o][x[1]] = x[2] /\ chan'[o][x[1]] = "confirmed"
    BY <1>9 DEF IsOn
  <2>2. x[1] \in Channels /\ contact[o][x[1]] = x[2]
    BY <2>1, <1>5 DEF Addresses, KeepOf
  <2>3. CASE o = r /\ x[1] = ch
    BY <2>2, <2>3, <1>1, <1>2 DEF Addresses
  <2>4. CASE ~(o = r /\ x[1] = ch)
    <3>1. chan[o][x[1]] = "confirmed"
      BY <2>1, <2>2, <2>4, <1>5 DEF KeepOf
    <3>2. Unmerged(o)
      <4>1. status'[o] # "absent" /\ mergedInto'[o] = None
        BY <2>1 DEF Unmerged
      <4>2. r # None
        BY <1>1, NoneAssumption
      <4>3. mergedInto[o] = None /\ o \notin retired
        BY <4>1, <4>2, <1>3
      <4> QED  BY <4>1, <4>3, <1>1, <1>3 DEF Unmerged
    <3> QED  BY <2>2, <3>1, <3>2 DEF IsOn
  <2> QED  BY <2>3, <2>4
<1>10. ASSUME NEW x \in Addresses, IsOn(x) PROVE IsOn(x)' \/ x = a
  <2>1. PICK o \in Subs : Unmerged(o) /\ contact[o][x[1]] = x[2] /\ chan[o][x[1]] = "confirmed"
    BY <1>10 DEF IsOn
  <2>2. x[1] \in Channels /\ contact'[o][x[1]] = x[2]
    BY <2>1, <1>5 DEF Addresses, KeepOf
  <2>3. chan'[o][x[1]] = "confirmed"
    BY <2>1, <2>2, <1>5 DEF KeepOf
  <2>4. o \notin retired
    BY <2>1, <2>2, <1>4 DEF ChannelsOK
  <2>5. Unmerged(o)'
    BY <2>1, <2>4, <1>3 DEF Unmerged
  <2> QED  BY <2>2, <2>3, <2>5 DEF IsOn
<1>11. \A d \in ConfIds \ {c} :
          /\ Live(d)' => Live(d)
          /\ SameAddress(d)
          /\ confs'[d].state = "confirmed" <=> confs[d].state = "confirmed"
  BY <1>6, <1>4 DEF Live
<1>12. confs'[c].state = "confirmed" /\ SameAddress(c)
  BY <1>6
<1>13. DoubleOptIn!Answer(a, c) /\ c \in AskedMap[a]
  <2>1. Live(c) /\ confs[c].channel = a[1] /\ confs[c].to = a[2]
    BY <1>1, <1>2 DEF ch
  <2> QED  BY <2>1, <1>2, <1>3, <1>8, <1>9, <1>10, <1>11, <1>12, AnswerStep
<1> QED  BY <1>2, <1>13

\* The record that a manage key leads to is one.
LEMMA ResolvedType ==
    ASSUME TypeOK, NEW k \in Subs, Resolved(k) # None
    PROVE  Resolved(k) \in Subs
<1> DEFINE M == MaxMergeHops
           at == CHOOSE f : Walk(k, M, f)
<1>1. M \in Nat
  BY BoundsAssumption
<1>2. Walk(k, M, at)
  BY <1>1, WalkExists
<1>3. Resolved(k) = IF mergedInto[at[M]] = None THEN at[M] ELSE None
  BY DEF Resolved, Walk, Hop
<1> HIDE DEF at
<1>4. at[M] \in Subs
  BY <1>1, <1>2, WalkType
<1> QED  BY <1>3, <1>4

\* Confirming a contact that another record holds proven answers for it, and may
\* turn off the other contact of the record that is folded away.
LEMMA FoldAnswers ==
    ASSUME IInv, TokenInv, NEW c \in ConfIds, NEW v \in Subs, ConfirmAndFold(c, v)
    PROVE  \E a \in Addresses : c \in AskedMap[a] /\ DoubleOptIn!Answer(a, c)
<1> TypeOK /\ TokensOK /\ ChannelsOK
  BY DEF IInv, TokenInv
<1> DEFINE r == confs[c].sub
           ch == confs[c].channel
           gone == (NeverProven(r, ch) \ {v}) \cup {r}
           moved == {d \in LiveOf(r) \ {c} : confs[d].channel \in Takes(v, r)}
           voided == Voided(c, Duplicates(r, ch) \ ((NeverProven(r, ch) \ {v}) \cup {v}), gone) \ moved
<1>1. /\ Live(c) /\ r \in Subs /\ ch \in Channels /\ Unmerged(r)
      /\ contact[r][ch] = confs[c].to
  BY HeldToken DEF ConfirmAndFold
<1>2. PICK a \in Addresses : a[1] = ch /\ a[2] = confs[c].to
  BY <1>1, TokenAddress
<1>3. /\ confs' = Confirmed(c, moved, voided, v)
      /\ UNCHANGED <<issued, stopMark>>
      /\ mergedInto' = [o \in Subs |-> IF o \in gone THEN v ELSE mergedInto[o]]
      /\ status' = [o \in Subs |-> IF o \in gone THEN "merged" ELSE status[o]]
  BY DEF ConfirmAndFold, clock
<1>4. /\ \A d \in voided : Live(d) /\ d # c
      /\ \A o \in gone : o = r \/ status[o] = "pending_confirmation"
      /\ v \notin gone /\ r \in gone
      /\ contact[v][ch] = contact[r][ch]
  <2>1. v \in Established(r, ch)
    BY DEF ConfirmAndFold
  <2> QED  BY <2>1 DEF Voided, NeverProven, Established, Duplicates
<1>5. FoldOf(v, r, ch)
  BY FoldEffect
<1> HIDE DEF r, ch, gone, moved, voided
<1>6. \A d \in ConfIds :
         /\ SameAddress(d)
         /\ confs'[d].state = IF d = c THEN "confirmed"
                              ELSE IF d \in voided /\ d \notin moved THEN "superseded"
                              ELSE confs[d].state
  BY <1>3, ConfirmedRow DEF SameAddress
<1>7. ASSUME NEW o \in Subs PROVE Unmerged(o)' <=> Unmerged(o) /\ o \notin gone
  <2>1. v # None
    BY NoneAssumption
  <2> QED  BY <1>3, <2>1 DEF Unmerged
<1>8. IsOn(a)'
  <2>1. Unmerged(v)'
    BY <1>4, <1>5, <1>7 DEF FoldOf
  <2>2. ch \notin Takes(v, r)
    BY <1>5 DEF FoldOf, Takes
  <2>3. contact'[v][ch] = confs[c].to /\ chan'[v][ch] = "confirmed"
    BY <1>1, <1>4, <1>5, <2>2 DEF FoldOf
  <2> QED  BY <1>2, <2>1, <2>3 DEF IsOn
<1>9. ASSUME NEW x \in Addresses, IsOn(x)' PROVE IsOn(x) \/ x = a
  <2>1. PICK o \in Subs : Unmerged(o)' /\ contact'[o][x[1]] = x[2] /\ chan'[o][x[1]] = "confirmed"
    BY <1>9 DEF IsOn
  <2>2. x[1] \in Channels /\ Unmerged(o) /\ o # r
    BY <2>1, <1>4, <1>7 DEF Addresses
  <2>3. CASE o = v /\ x[1] \in Takes(v, r)
    <3>1. contact[r][x[1]] = x[2] /\ chan[r][x[1]] = "confirmed"
      BY <2>1, <2>2, <2>3, <1>5 DEF FoldOf
    <3> QED  BY <3>1, <1>1 DEF IsOn
  <2>4. CASE ~(o = v /\ x[1] \in Takes(v, r))
    <3>1. contact[o][x[1]] = x[2] /\ chan[o][x[1]] = "confirmed"
      BY <2>1, <2>2, <2>4, <1>5 DEF FoldOf
    <3> QED  BY <3>1, <2>2 DEF IsOn
  <2> QED  BY <2>3, <2>4
<1>10. PICK b \in Addresses : \A x \in Addresses : x[1] = Other(ch) /\ x[2] = contact[r][Other(ch)] => x = b
  <2>1. \A x, y \in Addresses : x[1] = y[1] /\ x[2] = y[2] => x = y
    BY DEF Addresses
  <2> QED  BY <2>1
<1>11. ASSUME NEW x \in Addresses, IsOn(x) PROVE IsOn(x)' \/ x = b
  <2>1. PICK o \in Subs : Unmerged(o) /\ contact[o][x[1]] = x[2] /\ chan[o][x[1]] = "confirmed"
    BY <1>11 DEF IsOn
  <2>2. x[1] \in Channels
    BY DEF Addresses
  <2>3. CASE o = r /\ x[1] = ch
    <3>1. x = a
      BY <2>1, <2>3, <1>1, <1>2 DEF Addresses
    <3> QED  BY <3>1, <1>8
  <2>4. CASE o = r /\ x[1] # ch
    <3>1. x[1] = Other(ch)
      BY <2>2, <2>4, <1>1 DEF Channels, Other
    <3> QED  BY <2>1, <2>4, <3>1, <1>10
  <2>5. CASE o # r
    <3>1. o \notin gone
      BY <2>1, <2>2, <2>5, <1>4 DEF ChannelsOK
    <3>2. contact[o][x[1]] # None
      BY <2>1, NoneAssumption DEF Addresses
    <3>3. ~(o = v /\ x[1] \in Takes(v, r))
      BY <3>2 DEF Takes
    <3>4. contact'[o][x[1]] = x[2] /\ chan'[o][x[1]] = "confirmed"
      BY <2>1, <2>2, <2>5, <3>3, <1>5 DEF FoldOf
    <3>5. Unmerged(o)'
      BY <2>1, <3>1, <1>7
    <3> QED  BY <3>4, <3>5 DEF IsOn
  <2> QED  BY <2>3, <2>4, <2>5
<1>12. \A d \in ConfIds \ {c} :
          /\ Live(d)' => Live(d)
          /\ SameAddress(d)
          /\ confs'[d].state = "confirmed" <=> confs[d].state = "confirmed"
  BY <1>6, <1>4 DEF Live
<1>13. confs'[c].state = "confirmed" /\ SameAddress(c)
  BY <1>6
<1>14. DoubleOptIn!Answer(a, c) /\ c \in AskedMap[a]
  <2>1. Live(c) /\ confs[c].channel = a[1] /\ confs[c].to = a[2]
    BY <1>1, <1>2 DEF ch
  <2> QED  BY <2>1, <1>2, <1>3, <1>8, <1>9, <1>10, <1>11, <1>12, <1>13, AnswerStep
<1> QED  BY <1>2, <1>14

\* STOP, and the one-click header of an alert, stop the address.
LEMMA OptOutStops ==
    ASSUME IInv, TokenInv, NEW ch \in Channels, NEW x \in Contacts(ch), OptOut(ch, x)
    PROVE  \E a \in Addresses : DoubleOptIn!Stop(a)
<1> TypeOK /\ TokensOK /\ LiveTokenIsAddressed
  BY DEF IInv
<1>1. PICK a \in Addresses : a[1] = ch /\ a[2] = x
  <2>1. x \in Phones \cup Emails
    BY DEF Contacts
  <2>2. <<ch, x>> \in Addresses
    BY <2>1 DEF Addresses
  <2> QED  BY <2>2
<1> DEFINE hit == {r \in Subs : /\ Unmerged(r) /\ contact[r][ch] = x
                                /\ chan[r][ch] # "unsubscribed"}
           S == LiveFor(ch, x)
<1>2. /\ confs' = Superseding(S)
      /\ issued' = issued /\ stopMark' = [stopMark EXCEPT ![ch][x] = issued]
      /\ contact' = contact /\ mergedInto' = mergedInto
      /\ chan' = [r \in Subs |-> IF r \in hit THEN [chan[r] EXCEPT ![ch] = "unsubscribed"] ELSE chan[r]]
      /\ status' = [r \in Subs |-> IF r \in hit /\ chan[r][Other(ch)] \in {None, "unsubscribed"}
                                  THEN "opted_out" ELSE status[r]]
  BY DEF OptOut, clock
<1>3. ASSUME NEW d \in ConfIds PROVE d \in S <=> Live(d) /\ confs[d].channel = ch /\ confs[d].to = x
  BY DEF LiveFor, LiveTokenIsAddressed
<1>4. \A r \in Subs : Unmerged(r) /\ contact[r][ch] = x /\ chan[r][ch] = "confirmed" => r \in hit
  OBVIOUS
<1>5. \A r \in hit : Unmerged(r) /\ contact[r][ch] = x
  OBVIOUS
<1> HIDE DEF hit, S
<1>6. \A d \in ConfIds :
         /\ SameAddress(d)
         /\ confs'[d].state = IF d \in S THEN "superseded" ELSE confs[d].state
  BY <1>2, SupersedingRow DEF SameAddress
<1>7. ASSUME NEW r \in Subs
      PROVE  /\ Unmerged(r)' <=> Unmerged(r)
             /\ \A h \in Channels : chan'[r][h] = IF r \in hit /\ h = ch THEN "unsubscribed" ELSE chan[r][h]
  <2>1. chan'[r] = IF r \in hit THEN [chan[r] EXCEPT ![ch] = "unsubscribed"] ELSE chan[r]
    BY <1>2
  <2>2. \A h \in Channels : chan'[r][h] = IF r \in hit /\ h = ch THEN "unsubscribed" ELSE chan[r][h]
    BY <2>1 DEF TypeOK
  <2>3. status'[r] = status[r] \/ (status'[r] = "opted_out" /\ r \in hit)
    BY <1>2
  <2>4. Unmerged(r)' <=> Unmerged(r)
    BY <2>3, <1>2, <1>5 DEF Unmerged
  <2> QED  BY <2>2, <2>4
<1>8. ASSUME NEW y \in Addresses PROVE IsOn(y)' <=> IsOn(y) /\ y # a
  <2>1. y[1] \in Channels /\ (y = a <=> y[1] = ch /\ y[2] = x)
    BY <1>1 DEF Addresses
  <2>2. ASSUME NEW r \in Subs, Unmerged(r)', contact'[r][y[1]] = y[2], chan'[r][y[1]] = "confirmed"
        PROVE  IsOn(y) /\ y # a
    <3>1. Unmerged(r) /\ contact[r][y[1]] = y[2] /\ chan[r][y[1]] = "confirmed" /\ ~(r \in hit /\ y[1] = ch)
      BY <2>1, <2>2, <1>2, <1>7
    <3> QED  BY <3>1, <2>1, <1>4 DEF IsOn
  <2>3. ASSUME NEW r \in Subs, Unmerged(r), contact[r][y[1]] = y[2], chan[r][y[1]] = "confirmed", y # a
        PROVE  IsOn(y)'
    <3>1. ~(r \in hit /\ y[1] = ch)
      BY <2>1, <2>3, <1>5
    <3>2. Unmerged(r)' /\ contact'[r][y[1]] = y[2] /\ chan'[r][y[1]] = "confirmed"
      BY <2>1, <2>3, <3>1, <1>2, <1>7
    <3> QED  BY <3>2 DEF IsOn
  <2> QED  BY <2>2, <2>3 DEF IsOn
<1>9. DoubleOptIn!Stop(a)
  <2>1. \A d \in ConfIds :
           /\ SameAddress(d)
           /\ confs'[d].state = IF Live(d) /\ confs[d].channel = a[1] /\ confs[d].to = a[2]
                                THEN "superseded" ELSE confs[d].state
    BY <1>1, <1>3, <1>6
  <2>2. issued' = issued /\ stopMark' = [stopMark EXCEPT ![a[1]][a[2]] = issued]
    BY <1>1, <1>2
  <2> QED  BY <2>1, <2>2, <1>8, StopStep
<1> QED  BY <1>9

\* A step that only stops channels of one record, and voids only its tokens, is
\* Leave, or changes nothing that Consent sees.
LEMMA RecordLeaves ==
    ASSUME IInv, TokenInv, NEW r \in Subs,
           \A o \in Subs : /\ OnlyStops(o)
                           /\ o # r => \A h \in Channels : chan'[o][h] = chan[o][h],
           \A d \in ConfIds :
              /\ SameAddress(d)
              /\ \/ confs'[d].state = confs[d].state
                 \/ Live(d) /\ confs[d].sub = r /\ confs'[d].state = "superseded",
           UNCHANGED <<issued, stopMark>>
    PROVE  (\E a, b \in Addresses : DoubleOptIn!Leave(a, b)) \/ UNCHANGED DoubleOptIn!consentVars
<1> TypeOK /\ TokensOK /\ ChannelsOK /\ LiveTokenIsAddressed
  BY DEF IInv, TokenInv
<1>1. ASSUME NEW x \in Addresses, IsOn(x)' PROVE IsOn(x)
  <2>1. PICK o \in Subs : Unmerged(o)' /\ contact'[o][x[1]] = x[2] /\ chan'[o][x[1]] = "confirmed"
    BY <1>1 DEF IsOn
  <2>2. x[1] \in Channels
    BY DEF Addresses
  <2>3. contact[o][x[1]] = x[2] /\ chan[o][x[1]] = "confirmed" /\ mergedInto[o] = None
    BY <2>1, <2>2 DEF OnlyStops, Unmerged
  <2>4. status[o] # "absent"
    BY <2>2, <2>3, NoneAssumption DEF ChannelsOK
  <2> QED  BY <2>3, <2>4 DEF IsOn, Unmerged
<1>2. ASSUME NEW x \in Addresses, IsOn(x), contact[r][x[1]] # x[2] PROVE IsOn(x)'
  <2>1. PICK o \in Subs : Unmerged(o) /\ contact[o][x[1]] = x[2] /\ chan[o][x[1]] = "confirmed"
    BY <1>2 DEF IsOn
  <2>2. o # r
    BY <2>1, <1>2
  <2>3. x[1] \in Channels
    BY DEF Addresses
  <2>4. contact'[o][x[1]] = x[2] /\ chan'[o][x[1]] = "confirmed"
    BY <2>1, <2>2, <2>3 DEF OnlyStops
  <2>5. mergedInto'[o] = None /\ status'[o] # "absent"
    BY <2>1 DEF OnlyStops, Unmerged
  <2> QED  BY <2>4, <2>5 DEF IsOn, Unmerged
<1>3. CASE Addresses = {}
  <2>1. \A d \in ConfIds : ~Live(d)
    BY <1>3, TokenAddress
  <2>2. \A d \in ConfIds : SameAddress(d) /\ confs'[d].state = confs[d].state
    BY <2>1
  <2> QED  BY <1>3, <2>2, IdleStep
<1>4. CASE Addresses # {}
  <2>1. \A h \in Channels : \E a \in Addresses : \A x \in Addresses : x[1] = h /\ x[2] = contact[r][h] => x = a
    <3>1. \A x, y \in Addresses : x[1] = y[1] /\ x[2] = y[2] => x = y
      BY DEF Addresses
    <3> QED  BY <1>4, <3>1
  <2>2. "sms" \in Channels /\ "email" \in Channels /\ \A x \in Addresses : x[1] \in {"sms", "email"}
    BY DEF Channels, Addresses
  <2>3. PICK a \in Addresses : \A x \in Addresses : x[1] = "sms" /\ x[2] = contact[r]["sms"] => x = a
    BY <2>1, <2>2
  <2>4. PICK b \in Addresses : \A x \in Addresses : x[1] = "email" /\ x[2] = contact[r]["email"] => x = b
    BY <2>1, <2>2
  <2>5. \A x \in Addresses : x[2] = contact[r][x[1]] => x \in {a, b}
    BY <2>2, <2>3, <2>4
  <2>6. \A x \in Addresses : IsOn(x) => IsOn(x)' \/ x \in {a, b}
    BY <1>2, <2>5
  <2>7. ASSUME NEW d \in ConfIds
        PROVE  /\ SameAddress(d)
               /\ Live(d)' => Live(d)
               /\ Live(d) => \/ Live(d)'
                             \/ \E x \in {a, b} : confs[d].channel = x[1] /\ confs[d].to = x[2]
               /\ confs'[d].state = "confirmed" <=> confs[d].state = "confirmed"
    <3>1. CASE confs'[d].state = confs[d].state
      BY <3>1 DEF Live
    <3>2. CASE Live(d) /\ confs[d].sub = r /\ confs'[d].state = "superseded"
      <4>1. PICK x \in Addresses : x[1] = confs[d].channel /\ x[2] = confs[d].to
        BY <3>2, TokenAddress
      <4>2. contact[r][x[1]] = x[2]
        BY <3>2, <4>1 DEF LiveTokenIsAddressed
      <4> QED  BY <3>2, <4>1, <4>2, <2>5 DEF Live
    <3> QED  BY <3>1, <3>2
  <2>8. DoubleOptIn!Leave(a, b)
    BY <2>6, <2>7, <1>1, LeaveStep
  <2> QED  BY <2>8
<1> QED  BY <1>3, <1>4

\* The preference page leaves by one record.
LEMMA PreferencesLeave ==
    ASSUME IInv, TokenInv, NEW k \in Subs, NEW keep \in SUBSET Channels, WritePreferences(k, keep)
    PROVE  (\E a, b \in Addresses : DoubleOptIn!Leave(a, b)) \/ UNCHANGED DoubleOptIn!consentVars
<1> TypeOK
  BY DEF IInv
<1>1. PICK r \in Subs : r = Resolved(k)
  BY ResolvedType DEF WritePreferences
<1>2. \A o \in Subs : OnlyStops(o)
  <2>1. OtherStep(k, keep, "sms", None, None, None) /\ "sms" \in Channels
    BY DEF OtherStep, Channels
  <2> QED  BY <2>1, OthersOnlyStop
<1>3. /\ UNCHANGED <<issued, stopMark, confs>>
      /\ \A o \in Subs \ {r} : chan'[o] = chan[o]
  BY <1>1 DEF WritePreferences, clock, TypeOK
<1> QED  BY <1>2, <1>3, RecordLeaves DEF SameAddress

\* So does leaving altogether, which voids the record's tokens.
LEMMA UnsubscribeLeaves ==
    ASSUME IInv, TokenInv, NEW k \in Subs, UnsubscribeAll(k)
    PROVE  (\E a, b \in Addresses : DoubleOptIn!Leave(a, b)) \/ UNCHANGED DoubleOptIn!consentVars
<1> TypeOK
  BY DEF IInv
<1>1. PICK r \in Subs : r = Resolved(k)
  BY ResolvedType DEF UnsubscribeAll
<1>2. \A o \in Subs : OnlyStops(o)
  <2>1. OtherStep(k, {}, "sms", None, None, None) /\ "sms" \in Channels
    BY DEF OtherStep, Channels
  <2> QED  BY <2>1, OthersOnlyStop
<1>3. /\ UNCHANGED <<issued, stopMark>>
      /\ \A o \in Subs \ {r} : chan'[o] = chan[o]
      /\ confs' = Superseding(LiveOf(r))
  BY <1>1 DEF UnsubscribeAll, clock, TypeOK
<1>4. \A d \in ConfIds :
         /\ SameAddress(d)
         /\ confs'[d].state = IF d \in LiveOf(r) THEN "superseded" ELSE confs[d].state
  BY <1>3, SupersedingRow DEF SameAddress
<1>5. \A d \in LiveOf(r) : Live(d) /\ confs[d].sub = r
  BY DEF LiveOf
<1> QED  BY <1>2, <1>3, <1>4, <1>5, RecordLeaves

\* Every step of every operation is one of Consent, or changes nothing there.
LEMMA StepConsent ==
    IInv /\ TokenInv /\ [Next]_vars => [DoubleOptIn!ConsentNext]_(DoubleOptIn!consentVars)
<1> SUFFICES ASSUME IInv, TokenInv, [Next]_vars
             PROVE  DoubleOptIn!ConsentNext \/ UNCHANGED DoubleOptIn!consentVars
  BY DEF DoubleOptIn!consentVars
<1> DEFINE Goal == DoubleOptIn!ConsentNext \/ UNCHANGED DoubleOptIn!consentVars
<1>16. /\ DoubleOptIn!Ask => Goal
       /\ (\E a \in Addresses, c \in ConfIds : c \in AskedMap[a] /\ DoubleOptIn!Answer(a, c)) => Goal
       /\ (\E a \in Addresses : DoubleOptIn!Stop(a)) => Goal
       /\ ((\E a, b \in Addresses : DoubleOptIn!Leave(a, b)) \/ UNCHANGED DoubleOptIn!consentVars) => Goal
  BY DEF DoubleOptIn!ConsentNext, AskedMap
<1> HIDE DEF Goal
<1>1. ASSUME NEW r \in Subs, NEW given \in GivenContacts, NEW code \in Codes \cup {None},
             Subscribe(r, given, code)
      PROVE  Goal
  BY <1>1, <1>16, SubscribeAsks
<1>2. ASSUME NEW ch \in Channels, NEW x \in Contacts(ch), NEW r \in Subs,
             NEW code \in Codes \cup {None}, ResendConfirmation(ch, x, r, code)
      PROVE  Goal
  BY <1>2, <1>16, ResendAsks
<1>3. ASSUME NEW c \in ConfIds, ConfirmAndKeep(c) PROVE Goal
  BY <1>3, <1>16, KeepAnswers
<1>4. ASSUME NEW c \in ConfIds, NEW v \in Subs, ConfirmAndFold(c, v) PROVE Goal
  BY <1>4, <1>16, FoldAnswers
<1>5. ASSUME NEW ch \in Channels, NEW x \in Contacts(ch), OptOut(ch, x) PROVE Goal
  BY <1>5, <1>16, OptOutStops
<1>6. ASSUME NEW k \in Subs, NEW keep \in SUBSET Channels, WritePreferences(k, keep) PROVE Goal
  BY <1>6, <1>16, PreferencesLeave
<1>7. ASSUME NEW k \in Subs, UnsubscribeAll(k) PROVE Goal
  BY <1>7, <1>16, UnsubscribeLeaves
<1>8. ASSUME UNCHANGED <<status, contact, chan, mergedInto, issued, stopMark>>,
             \A d \in ConfIds : SameAddress(d) /\ confs'[d].state = confs[d].state
      PROVE  Goal
  <2>1. \A x \in Addresses : IsOn(x)' <=> IsOn(x)
    BY <1>8 DEF IsOn, Unmerged
  <2>2. UNCHANGED DoubleOptIn!consentVars
    BY <1>8, <2>1, IdleStep
  <2> QED  BY <2>2, <1>16
<1>9. ASSUME NEW x \in Phones, NEW code \in Codes, WrongSmsCode(x, code) PROVE Goal
  <2>1. UNCHANGED <<status, contact, chan, mergedInto, issued, stopMark>>
    BY <1>9 DEF WrongSmsCode, rows, clock
  <2>2. TypeOK
    BY DEF IInv
  <2> QED  BY <1>8, <1>9, <2>1, <2>2, GuessRow DEF SameAddress
<1>10. ASSUME UNCHANGED <<rows, confs, issued, stopMark>> PROVE Goal
  BY <1>8, <1>10 DEF rows, SameAddress
<1>11. ASSUME NEW c \in ConfIds, PresentEmailLink(c) \/ AbandonConfirm(c) PROVE Goal
  BY <1>10, <1>11 DEF PresentEmailLink, AbandonConfirm, clock
<1>12. ASSUME NEW x \in Phones, NEW c \in ConfIds, PresentSmsCode(x, c) PROVE Goal
  BY <1>10, <1>12 DEF PresentSmsCode, clock
<1>13. ASSUME NEW ch \in Channels, NEW x \in Contacts(ch), NEW r \in Subs, RequestManageLink(ch, x, r)
       PROVE  Goal
  BY <1>8, <1>13 DEF RequestManageLink, clock, SameAddress
<1>14. ASSUME CooldownPasses \/ TokenExpires \/ UNCHANGED vars PROVE Goal
  BY <1>10, <1>14 DEF CooldownPasses, TokenExpires, vars, rows
<1>15. Goal
  BY <1>1, <1>2, <1>3, <1>4, <1>5, <1>6, <1>7, <1>9, <1>11, <1>12, <1>13, <1>14 DEF Next
<1> QED  BY <1>15 DEF Goal

\* Signing up, resending, confirming, merging and stopping, in any interleaving
\* of the requests, implement Consent: only a contact that answers a token sent
\* to it is turned on, by that answer, and a stop voids what was sent before.
THEOREM SubscriptionsImplementConsent == Spec => ImplementsConsent
<1>1. Spec => [](IInv /\ TokenInv)
  BY TokensInductive
<1> QED
  BY <1>1, InitConsent, StepConsent, PTL DEF Spec, ImplementsConsent, DoubleOptIn!ConsentSpec

-----------------------------------------------------------------------------
(* And what Consent promises.                                               *)

\* The inductive invariant of Consent.
ConsentInv == ConsentTypeOK /\ AskedOnce /\ OnByConsent /\ \A a \in Inboxes : stopped[a] <= sent

\* Nothing was sent yet.
LEMMA ConsentInvInit == ConsentInit => ConsentInv
BY DEF ConsentInit, ConsentInv, ConsentTypeOK, AskedOnce, OnByConsent

\* Every step preserves it.
LEMMA ConsentInvStep == ConsentInv /\ [ConsentNext]_consentVars => ConsentInv'
<1> SUFFICES ASSUME ConsentInv, [ConsentNext]_consentVars PROVE ConsentInv'
  OBVIOUS
<1> USE DEF ConsentInv, ConsentTypeOK, AskedOnce, OnByConsent
<1>1. CASE UNCHANGED consentVars
  BY <1>1 DEF consentVars
<1>2. CASE Ask
  <2>1. ASSUME NEW a \in Inboxes, NEW c \in asked'[a] PROVE stopped'[a] < c /\ c <= sent'
    <3>1. c \in asked[a] \/ c \in sent + 1 .. sent'
      BY <1>2, <2>1 DEF Ask
    <3>2. stopped'[a] = stopped[a] /\ stopped[a] <= sent /\ sent < sent' /\ sent' \in Nat
          /\ sent \in Nat /\ stopped[a] \in Nat
      BY <1>2 DEF Ask
    <3>3. CASE c \in asked[a]
      <4>1. c \in Nat /\ stopped[a] < c /\ c <= sent
        BY <3>3
      <4> QED  BY <3>2, <4>1
    <3>4. CASE c \in sent + 1 .. sent'
      BY <3>2, <3>4
    <3> QED  BY <3>1, <3>3, <3>4
  <2>2. \A a \in Inboxes : stopped'[a] <= sent'
    BY <1>2 DEF Ask
  <2> QED  BY <1>2, <2>1, <2>2 DEF Ask
<1>3. ASSUME NEW a \in Inboxes, NEW c \in asked[a], Answer(a, c) PROVE ConsentInv'
  <2>1. /\ sent' = sent /\ stopped' = stopped /\ c > stopped[a] /\ c \in Nat
        /\ answered' = [answered EXCEPT ![a] = answered[a] \cup {c}]
        /\ \A x \in Inboxes : asked'[x] \subseteq asked[x]
        /\ on' \subseteq on \cup {a}
    BY <1>3 DEF Answer, NoNewToken
  <2>2. ConsentTypeOK'
    BY <1>3, <2>1 DEF Answer
  <2>3. AskedOnce'
    BY <2>1
  <2>4. ASSUME NEW x \in on' PROVE \E d \in answered'[x] : d > stopped'[x]
    <3>1. CASE x = a
      BY <2>1, <3>1
    <3>2. CASE x # a
      BY <2>1, <3>2
    <3> QED  BY <3>1, <3>2
  <2> QED  BY <2>1, <2>2, <2>3, <2>4
<1>4. ASSUME NEW a \in Inboxes, Stop(a) PROVE ConsentInv'
  BY <1>4 DEF Stop
<1>5. ASSUME NEW a \in Inboxes, NEW b \in Inboxes, Leave(a, b) PROVE ConsentInv'
  <2>1. /\ UNCHANGED <<sent, answered, stopped>> /\ on' \subseteq on
        /\ \A x \in Inboxes : asked'[x] \subseteq asked[x]
        /\ asked' \in [Inboxes -> SUBSET Nat]
    BY <1>5 DEF Leave, NoNewToken
  <2> QED  BY <2>1
<1> QED
  BY <1>1, <1>2, <1>3, <1>4, <1>5 DEF ConsentNext

\* Alerts go only to a contact that presented a token sent to it after it was
\* last stopped, and no token can be presented by two contacts or after a stop.
THEOREM ConsentIsGiven == ConsentSpec => [](ConsentTypeOK /\ AskedOnce /\ OnByConsent)
BY ConsentInvInit, ConsentInvStep, PTL DEF ConsentSpec, ConsentInv

-----------------------------------------------------------------------------
(* Opted out for good: what holds where OptedOutIsFinal does not.           *)

\* A token that is being confirmed was before, for the same record, or its
\* record was not opted out when it was presented.
HeldBefore(c) ==
    held'[c] # {} =>
        /\ confs'[c].sub = confs[c].sub
        /\ held[c] # {} \/ status[confs[c].sub] # "opted_out"

\* So it is where nothing is locked and the locked tokens keep their records.
LEMMA NoneTaken ==
    ASSUME held' = held, NEW c \in ConfIds, held[c] # {} => confs'[c].sub = confs[c].sub
    PROVE  HeldBefore(c)
BY DEF HeldBefore

\* A token that is presented is not of an opted-out record.
LEMMA PresentedEligible ==
    ASSUME IInv, NEW c, NEW x, PresentEmailLink(c) \/ PresentSmsCode(x, c), NEW d \in ConfIds
    PROVE  HeldBefore(d)
<1>1. confs' = confs /\ Eligible(c) /\ (d # c => held'[d] = held[d])
  BY DEF PresentEmailLink, PresentSmsCode, IInv, TypeOK
<1> QED  BY <1>1 DEF HeldBefore, Eligible

\* Committing locks nothing, and moves no token that another transaction holds.
LEMMA ConfirmingLetsGo ==
    ASSUME IInv, TokenInv, NEW c \in ConfIds, NEW d \in ConfIds,
           ConfirmAndKeep(c) \/ \E v \in Subs : ConfirmAndFold(c, v)
    PROVE  HeldBefore(d)
<1> TypeOK
  BY DEF IInv
<1>1. CASE ConfirmAndKeep(c)
  <2>1. held' = [held EXCEPT ![c] = {}]
    BY <1>1 DEF ConfirmAndKeep
  <2>2. held'[d] # {} => held[d] # {} /\ d # c
    BY <2>1 DEF TypeOK
  <2>3. confs'[d].sub = confs[d].sub
    BY <1>1, KeepEffect DEF SameToken
  <2> QED  BY <2>2, <2>3 DEF HeldBefore
<1>2. ASSUME NEW v \in Subs, ConfirmAndFold(c, v) PROVE HeldBefore(d)
  <2> DEFINE moved == {e \in LiveOf(confs[c].sub) \ {c} :
                          confs[e].channel \in Takes(v, confs[c].sub)}
  <2>1. /\ held' = [held EXCEPT ![c] = {}]
        /\ \A e \in ConfIds \ {c} : held[e] \cap moved = {}
        /\ \E voided : confs' = Confirmed(c, moved, voided, v)
    BY <1>2 DEF ConfirmAndFold
  <2> HIDE DEF moved
  <2>2. held'[d] # {} => held[d] # {} /\ d # c
    BY <2>1 DEF TypeOK
  <2>3. held[d] # {} => d \in held[d]
    BY HeldToken
  <2>4. held'[d] # {} => d \notin moved
    BY <2>1, <2>2, <2>3
  <2>5. d \notin moved => confs'[d].sub = confs[d].sub
    BY <2>1, ConfirmedRow
  <2> QED  BY <2>2, <2>4, <2>5 DEF HeldBefore
<1> QED  BY <1>1, <1>2

\* A settled opt-out is kept by every step: what is presented later is refused, and
\* what is in progress is of another record.
LEMMA StaysOptedOut ==
    ASSUME IInv, TokenInv, [Next]_vars, NEW r \in Subs, SettledOptOut(r)
    PROVE  SettledOptOut(r)'
<1> TypeOK /\ TokensOK
  BY DEF IInv, TokenInv
<1> DEFINE Goal == status'[r] = "opted_out" /\ \A d \in ConfIds : HeldBefore(d)
<1>0. Goal => SettledOptOut(r)'
  BY DEF SettledOptOut, HeldBefore
<1>1. ASSUME NEW s \in Subs, NEW given \in GivenContacts, NEW code \in Codes \cup {None},
             Subscribe(s, given, code)
      PROVE  Goal
  <2>1. s # r /\ status'[r] = status[r] /\ held' = held
    BY <1>1 DEF Subscribe, SettledOptOut, TypeOK
  <2>2. ASSUME NEW d \in ConfIds, held[d] # {} PROVE confs'[d].sub = confs[d].sub
    <3>1. Live(d)
      BY <2>2, HeldToken
    <3>2. ~(d > issued)
      BY <3>1 DEF TokensOK, Live
    <3> QED  BY <3>2, <1>1, SubscribeRow
  <2> QED  BY <2>1, <2>2, NoneTaken DEF SettledOptOut
<1>2. ASSUME NEW ch \in Channels, NEW x \in Contacts(ch), NEW s \in Subs,
             NEW code \in Codes \cup {None}, ResendConfirmation(ch, x, s, code)
      PROVE  Goal
  <2>1. status' = status /\ held' = held
    BY <1>2 DEF ResendConfirmation, rows
  <2>2. ASSUME NEW d \in ConfIds, held[d] # {} PROVE confs'[d].sub = confs[d].sub
    <3>1. Live(d) /\ issued \in Nat
      BY <2>2, HeldToken, BoundsAssumption DEF TypeOK
    <3>2. d # issued + 1
      BY <3>1 DEF TokensOK, Live
    <3> QED  BY <3>2, <1>2, ResendRow
  <2> QED  BY <2>1, <2>2, NoneTaken DEF SettledOptOut
<1>3. ASSUME NEW c \in ConfIds, ConfirmAndKeep(c) PROVE Goal
  <2>1. confs[c].sub # r
    BY <1>3 DEF ConfirmAndKeep, SettledOptOut
  <2>2. status'[r] = "opted_out"
    BY <1>3, <2>1 DEF ConfirmAndKeep, SettledOptOut, NeverProven
  <2> QED  BY <1>3, <2>2, ConfirmingLetsGo
<1>4. ASSUME NEW c \in ConfIds, NEW v \in Subs, ConfirmAndFold(c, v) PROVE Goal
  <2>1. confs[c].sub # r
    BY <1>4 DEF ConfirmAndFold, SettledOptOut
  <2>2. status'[r] = "opted_out"
    BY <1>4, <2>1 DEF ConfirmAndFold, SettledOptOut, NeverProven
  <2> QED  BY <1>4, <2>2, ConfirmingLetsGo
<1>5. ASSUME NEW x \in Phones, NEW code \in Codes, WrongSmsCode(x, code) PROVE Goal
  <2>1. status' = status /\ held' = held
    BY <1>5 DEF WrongSmsCode, rows
  <2> QED  BY <1>5, <2>1, GuessRow, NoneTaken DEF SettledOptOut
<1>6. ASSUME NEW k, NEW keep, NEW ch \in Channels, NEW x, NEW c, NEW s,
             OtherStep(k, keep, ch, x, c, s)
      PROVE  Goal
  <2>1. OnlyStops(r) /\ \A d \in ConfIds : SameToken(d)
    BY <1>6, OthersOnlyStop
  <2>2. status'[r] = "opted_out"
    BY <2>1 DEF OnlyStops, SettledOptOut
  <2>3. CASE PresentEmailLink(c) \/ PresentSmsCode(x, c)
    BY <2>2, <2>3, PresentedEligible
  <2>4. CASE ~(PresentEmailLink(c) \/ PresentSmsCode(x, c))
    <3>1. \A d \in ConfIds : held'[d] # {} => held[d] # {}
      BY <1>6, <2>4 DEF OtherStep, AbandonConfirm, OptOut, RequestManageLink, WritePreferences,
                        UnsubscribeAll, CooldownPasses, TokenExpires, vars, TypeOK
    <3>2. \A d \in ConfIds : HeldBefore(d)
      BY <2>1, <3>1 DEF HeldBefore, SameToken
    <3> QED  BY <2>2, <3>2
  <2> QED  BY <2>3, <2>4
<1> HIDE DEF Goal
<1>7. "sms" \in Channels /\ \A ch \in Channels : \A x \in Contacts(ch) : x # None
  BY NoneAssumption DEF Channels, Contacts
<1> QED  BY <1>0, <1>1, <1>2, <1>3, <1>4, <1>5, <1>6, <1>7 DEF Next, OtherStep

\* Leaving voids every live token of the record, and waits for the ones that are held.
LEMMA LeavingSettles ==
    ASSUME IInv, NEW k \in Subs, NEW r \in Subs, Resolved(k) = r, UnsubscribeAll(k)
    PROVE  SettledOptOut(r)'
<1> TypeOK
  BY DEF IInv
<1>1. /\ status'[r] = "opted_out" /\ held' = held
      /\ confs' = Superseding(LiveOf(r)) /\ Unlocked(LiveOf(r))
  BY DEF UnsubscribeAll, TypeOK
<1>2. ASSUME NEW d \in ConfIds, held[d] # {} PROVE confs'[d].sub # r
  <2>1. Live(d) /\ d \in held[d]
    BY <1>2, HeldToken
  <2>2. d \notin LiveOf(r)
    BY <1>1, <2>1 DEF Unlocked
  <2> QED  BY <1>1, <2>1, <2>2, SupersedingRow DEF LiveOf
<1> QED  BY <1>1, <1>2 DEF SettledOptOut

\* A rider who leaves altogether is opted out for good, and so is every record that
\* was opted out while none of its tokens was being confirmed: the one way back is
\* the transaction that OptedOutIsFinal is refuted by.
THEOREM LeaversStayOut == Spec => LeavingIsFinal
<1>1. IInv /\ TokenInv /\ [Next]_vars =>
         [\A r \in Subs :
            \/ SettledOptOut(r)
            \/ \E k \in Subs : Resolved(k) = r /\ UnsubscribeAll(k)
            => SettledOptOut(r)']_vars
  BY StaysOptedOut, LeavingSettles
<1> QED  BY <1>1, TokensInductive, PTL DEF Spec, LeavingIsFinal

=============================================================================
