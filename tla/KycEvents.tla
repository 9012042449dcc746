----------------------------- MODULE KycEvents -----------------------------
(***************************************************************************)
(* The KYC state of one applicant: Sumsub's webhooks                       *)
(* (proxy/handlers/sumsub.go processEvents, service/sumsubService.go       *)
(* ProcessKycEvent) and the requests of the user himself that rewrite the  *)
(* same row (initSession, SubscribeEmail, UnsubscribeEmail, and a          *)
(* confirmation of his e-mail when the row is there already).              *)
(*                                                                         *)
(* Every handler reads the row, works on its copy, and writes the copy     *)
(* back; nothing locks the row in between.  Sumsub delivers an event at    *)
(* least once, in any order, and again after an error.                     *)
(*                                                                         *)
(* The write is gorm's Updates with a struct: a field with a zero value is *)
(* not written.  A Boolean column can therefore be raised by it and never  *)
(* lowered, which is why the row keeps its Boolean columns, and the string *)
(* columns that only matter as empty or not, in one set of flags (without  *)
(* receive_updates, which nothing else depends on).                        *)
(*                                                                         *)
(* Sumsub knows the applicant by the row's uuid, which a confirmation      *)
(* makes anew; the uuids are counted, the first one being 0.               *)
(***************************************************************************)
EXTENDS Naturals

CONSTANTS
  Webhooks,    \* requests from Sumsub that may be in progress at once
  Sessions,    \* requests from the user that may be in progress at once
  Kinds,       \* what the events of Sumsub may say
  Known,       \* what the row's flags may be when the behaviour starts
  Vies,        \* what VIES may make of the flags of an applicant
  MaxTime,     \* bound: events created
  MaxConfirms  \* bound: confirmations that find the row there

\* applicantReviewed or applicantOnHold with an answer is green, red or
\* final; a type with nothing but a review status is progress.
AllKinds == {"created", "green", "red", "final", "activated", "deactivated",
             "deleted", "reset", "progress"}

ASSUME KindsAssumption == Kinds \subseteq AllKinds
ASSUME RequestsAssumption == Webhooks \cap Sessions = {}
ASSUME BoundsAssumption == MaxTime \in Nat /\ MaxConfirms \in Nat

VARIABLES
  now,         \* the time, counted in events created so far
  events,      \* events created by Sumsub
  uuids,       \* the newest uuid given to the row
  row,         \* the applicant's row of table kycs
  userInfo,    \* whether table user_infos has a row for the account
  hook,        \* the webhook requests, with the copy each has read
  session,     \* the user's requests, with the copy each has read
  told,        \* events whose e-mail has been sent
  applied,     \* events that have been written to the row
  outdated,    \* requests whose copy misses a write to the row
  lost         \* whether a request with such a copy has written the row

handlers == <<hook, session>>
writes == <<outdated, lost>>
vars == <<now, events, uuids, row, userInfo, hook, session, told, applied,
          outdated, lost>>

Event == [at : 0..MaxTime, kind : AllKinds, uuid : 0..MaxConfirms]

Statuses == {"accCreated", "init", "pending", "rejected", "finalRejected",
             "approved"}

\* applicant and typed: the applicant's id and type are not empty.
Flags == {"active", "deleted", "vies", "applicant", "typed"}

Row == [uuid : 0..MaxConfirms, status : Statuses, last : 0..MaxTime,
        flags : SUBSET Flags]

ASSUME ViesAssumption == Vies \subseteq {{}, {"vies"}}
ASSUME KnownAssumption == Known \subseteq SUBSET Flags

NoRow == [uuid |-> 0, status |-> "accCreated", last |-> 0,
          flags |-> {"active"}]

Steps == {"idle", "received", "mail", "client", "save", "confirm"}

Hook == [pc : Steps, event : Event, row : Row]

NoHook == [pc |-> "idle", row |-> NoRow,
           event |-> [at |-> 0, kind |-> "created", uuid |-> 0]]

Session == [open : BOOLEAN, row : Row]

NoSession == [open |-> FALSE, row |-> NoRow]

TypeOK ==
  /\ now \in 0..MaxTime
  /\ events \subseteq Event
  /\ uuids \in 0..MaxConfirms
  /\ row \in Row
  /\ userInfo \in BOOLEAN
  /\ hook \in [Webhooks -> Hook]
  /\ session \in [Sessions -> Session]
  /\ told \subseteq Event
  /\ applied \subseteq Event
  /\ outdated \subseteq Webhooks \cup Sessions
  /\ lost \in BOOLEAN

\* confirmPrimaryEmail has created the row, and the applicant may have had
\* his session and been created at Sumsub since.
Init ==
  /\ now = 0
  /\ events = {}
  /\ uuids = 0
  /\ \E known \in Known : row = [NoRow EXCEPT !.flags = known]
  /\ userInfo = FALSE
  /\ hook = [w \in Webhooks |-> NoHook]
  /\ session = [u \in Sessions |-> NoSession]
  /\ told = {}
  /\ applied = {}
  /\ outdated = {}
  /\ lost = FALSE

-----------------------------------------------------------------------------
(* What an event does to a copy of the row.                                *)

StatusAfter == [green |-> "approved", red |-> "rejected",
                final |-> "finalRejected", reset |-> "init",
                progress |-> "pending"]

Raises == [created |-> {"applicant"}, activated |-> {"active"},
           deleted |-> {"deleted"}]

Lowers == [deactivated |-> {"active"}, reset |-> {"deleted"}]

At(f, k, default) == IF k \in DOMAIN f THEN f[k] ELSE default

\* What ProcessKycEvent changes in its copy for event e, at time t.
Changed(r, e, t) ==
  [r EXCEPT !.last = t,
            !.status = At(StatusAfter, e.kind, @),
            !.flags = (@ \cup At(Raises, e.kind, {})) \ At(Lowers, e.kind, {})]

\* Faulty variant of StepAfter: an approval is stored before the data.
StepAfterStatusFirst(k) ==
  IF k \in {"red", "final", "reset"} THEN "mail" ELSE "save"

\* Rejections and resets are announced before they are stored; an approval
\* needs the applicant's data first.
StepAfter(k) ==
  IF k \in {"red", "final", "reset"} THEN "mail"
  ELSE IF k = "green" THEN "client" ELSE "save"

\* CreateOrUpdateKyc on a row that exists; the uuid is written with the rest.
Merge(r) ==
  [uuid |-> r.uuid,
   status |-> r.status,
   last |-> IF r.last = 0 THEN row.last ELSE r.last,
   flags |-> row.flags \cup r.flags]

-----------------------------------------------------------------------------
(* Sumsub.                                                                 *)

\* For whichever applicant Sumsub was ever told of.
CreateEvent(k, uuid) ==
  /\ now < MaxTime
  /\ now' = now + 1
  /\ events' = events \cup {[at |-> now + 1, kind |-> k, uuid |-> uuid]}
  /\ UNCHANGED <<uuids, row, userInfo, handlers, told, applied, writes>>

-----------------------------------------------------------------------------
(* Request x writes the row, or ends without: who else holds a copy then   *)
(* has an old one.                                                         *)

Busy ==
  {w \in Webhooks : hook[w].pc # "idle"}
    \cup {u \in Sessions : session[u].open}

Write(x) ==
  /\ outdated' = Busy \ {x}
  /\ lost' = (lost \/ x \in outdated)

Leave(x) ==
  /\ outdated' = outdated \ {x}
  /\ UNCHANGED lost

-----------------------------------------------------------------------------
(* processEvents and ProcessKycEvent.                                      *)

\* A request goes on, or is over.
Go(w, pc, r) ==
  hook' = [hook EXCEPT ![w].pc = pc, ![w].row = r]
Answer(w) == hook' = [hook EXCEPT ![w] = NoHook]

\* Faulty variant of Receive: the final rejection is not looked at.
ReceiveAny(w, e) ==
  /\ hook[w].pc = "idle"
  /\ e.uuid = row.uuid
  /\ hook' = [hook EXCEPT ![w] = [pc |-> "received", event |-> e, row |-> row]]
  /\ UNCHANGED <<now, events, uuids, row, userInfo, session, told, applied,
                 writes>>

\* The row is read, by the event's uuid; who is finally rejected can only be
\* reset, and any other event of his is refused.
Receive(w, e) ==
  /\ hook[w].pc = "idle"
  /\ e.uuid = row.uuid
  /\ \/ row.status = "finalRejected" /\ e.kind # "reset" /\ UNCHANGED hook
     \/ /\ row.status # "finalRejected" \/ e.kind = "reset"
        /\ hook' = [hook EXCEPT ![w] = [pc |-> "received", event |-> e,
                                        row |-> row]]
  /\ UNCHANGED <<now, events, uuids, row, userInfo, session, told, applied,
                 writes>>

\* The copy was processed after the event was created: nothing is done.  Time
\* is counted in events, so event n is created before any processing at n.
IgnoreStale(w) ==
  /\ hook[w].pc = "received"
  /\ hook[w].row.last >= hook[w].event.at
  /\ Answer(w)
  /\ Leave(w)
  /\ UNCHANGED <<now, events, uuids, row, userInfo, session, told, applied>>

\* Faulty variant of Process: the event's time is not compared.
ProcessAnyTime(w) ==
  /\ hook[w].pc = "received"
  /\ Go(w, StepAfter(hook[w].event.kind),
        Changed(hook[w].row, hook[w].event, now))
  /\ UNCHANGED <<now, events, uuids, row, userInfo, session, told, applied,
                 writes>>

Process(w) ==
  /\ hook[w].pc = "received"
  /\ hook[w].row.last < hook[w].event.at
  /\ Go(w, StepAfter(hook[w].event.kind),
        Changed(hook[w].row, hook[w].event, now))
  /\ UNCHANGED <<now, events, uuids, row, userInfo, session, told, applied,
                 writes>>

\* Faulty variant of SendMail: an error is logged only.
SendMailOrLog(w) ==
  /\ hook[w].pc = "mail"
  /\ told' \in {told, told \cup {hook[w].event}}
  /\ Go(w, "save", hook[w].row)
  /\ UNCHANGED <<now, events, uuids, row, userInfo, session, applied, writes>>

SendMail(w) ==
  /\ hook[w].pc = "mail"
  /\ told' = told \cup {hook[w].event}
  /\ Go(w, "save", hook[w].row)
  /\ UNCHANGED <<now, events, uuids, row, userInfo, session, applied, writes>>

\* Faulty variant of StoreUserInfo: the applicant's id is not needed.
StoreUserInfoOfAny(w) ==
  /\ hook[w].pc = "client"
  /\ userInfo' = TRUE
  /\ Go(w, "save", hook[w].row)
  /\ UNCHANGED <<now, events, uuids, row, session, told, applied, writes>>

\* createOrUpdateApprovedUserInfo: the applicant's data is fetched by the
\* applicant's id and stored; the company is looked up in VIES.
StoreUserInfo(w) ==
  /\ hook[w].pc = "client"
  /\ "applicant" \in hook[w].row.flags
  /\ userInfo' = TRUE
  /\ \E vies \in Vies :
       Go(w, "save", [hook[w].row EXCEPT !.flags = (@ \ {"vies"}) \cup vies])
  /\ UNCHANGED <<now, events, uuids, row, session, told, applied, writes>>

\* Who is approved is told so.
AfterSave(w) ==
  \/ hook[w].event.kind = "green" /\ Go(w, "confirm", hook[w].row)
  \/ hook[w].event.kind # "green" /\ Answer(w)

SaveEvent(w) ==
  /\ hook[w].pc = "save"
  /\ row' = Merge(hook[w].row)
  /\ Write(w)
  /\ applied' = applied \cup {hook[w].event}
  /\ AfterSave(w)
  /\ UNCHANGED <<now, events, uuids, userInfo, session, told>>

\* CreateOrUpdateKyc cannot look for the row, or a confirmation changes its
\* uuid between the look and the update: nothing is written, and there is no
\* error.
SkipEvent(w) ==
  /\ hook[w].pc = "save"
  /\ Leave(w)
  /\ AfterSave(w)
  /\ UNCHANGED <<now, events, uuids, row, userInfo, session, told, applied>>

\* SendKycConfirmedEmail; an error is logged only.
Confirm(w) ==
  /\ hook[w].pc = "confirm"
  /\ told' = told \cup {hook[w].event}
  /\ Answer(w)
  /\ Leave(w)
  /\ UNCHANGED <<now, events, uuids, row, userInfo, session, applied>>

\* A call fails, and the request is answered with an error, or the server
\* dies.
FailHook(w) ==
  /\ hook[w].pc # "idle"
  /\ Answer(w)
  /\ Leave(w)
  /\ UNCHANGED <<now, events, uuids, row, userInfo, session, told, applied>>

-----------------------------------------------------------------------------
(* The user's own requests: each reads the row, and later writes its copy. *)

Read(u, r) ==
  /\ ~session[u].open
  /\ session' = [session EXCEPT ![u] = [open |-> TRUE, row |-> r]]
  /\ UNCHANGED <<now, events, uuids, row, userInfo, hook, told, applied,
                 writes>>

\* initSession calls Sumsub between its read and its write.
InitSession(u) ==
  /\ row.status # "finalRejected"
  /\ Read(u, [row EXCEPT !.flags = @ \cup {"typed"}])

\* SubscribeEmail and UnsubscribeEmail; what they set is left out.
ChangeSubscription(u) == Read(u, row)

StoreSession(u) ==
  /\ session[u].open
  /\ row' = Merge(session[u].row)
  /\ Write(u)
  /\ session' = [session EXCEPT ![u] = NoSession]
  /\ UNCHANGED <<now, events, uuids, userInfo, hook, told, applied>>

\* A call fails, or CreateOrUpdateKyc writes nothing, or the server dies.
FailSession(u) ==
  /\ session[u].open
  /\ Leave(u)
  /\ session' = [session EXCEPT ![u] = NoSession]
  /\ UNCHANGED <<now, events, uuids, row, userInfo, hook, told, applied>>

\* confirmPrimaryEmail when the row is there: a link was opened twice at once,
\* or the account lost its confirmation and was registered anew.  What the
\* row had is kept where the new one has a zero value.
ConfirmEmail ==
  /\ uuids < MaxConfirms
  /\ uuids' = uuids + 1
  /\ row' = [row EXCEPT !.uuid = uuids + 1, !.status = "accCreated"]
  /\ outdated' = Busy
  /\ UNCHANGED <<now, events, userInfo, handlers, told, applied, lost>>

-----------------------------------------------------------------------------
HookStep(w) ==
  \/ \E e \in events : Receive(w, e)
  \/ IgnoreStale(w) \/ Process(w) \/ SendMail(w) \/ StoreUserInfo(w)
  \/ SaveEvent(w) \/ SkipEvent(w) \/ Confirm(w) \/ FailHook(w)

SessionStep(u) ==
  \/ InitSession(u) \/ ChangeSubscription(u)
  \/ StoreSession(u) \/ FailSession(u)

Next ==
  \/ \E k \in Kinds, uuid \in 0..uuids : CreateEvent(k, uuid)
  \/ \E w \in Webhooks : HookStep(w)
  \/ \E u \in Sessions : SessionStep(u)
  \/ ConfirmEmail

Spec == Init /\ [][Next]_vars

-----------------------------------------------------------------------------
(* Properties.                                                             *)

(***************************************************************************)
(* An approved applicant has a row in user_infos, from which invoices and  *)
(* drafts are made: the data is stored before the status, and no stale     *)
(* copy written back can bring an approval that had none                   *)
(* (sumsubService.go:72-76, 141-156).                                      *)
(***************************************************************************)
ApprovedHasUserInfo == row.status = "approved" => userInfo

(***************************************************************************)
(* An event that must be announced has been when it is in the row: a       *)
(* rejection or a reset is never stored silently, whatever fails or is     *)
(* delivered twice (sumsubService.go:58-71, 90-96).                        *)
(***************************************************************************)
AppliedEventsTold ==
  \A e \in applied : e.kind \in {"red", "final", "reset"} => e \in told

(***************************************************************************)
(* The status a user sees was given by an event that was applied, for the  *)
(* applicant the row is of now, also when a copy of the row read long      *)
(* before is written back, or the e-mail is confirmed again; and an        *)
(* approval is of an applicant whose id is known.                          *)
(***************************************************************************)
StatusHasCause ==
  /\ row.status # "accCreated" =>
       \E e \in applied : /\ At(StatusAfter, e.kind, "") = row.status
                          /\ e.uuid = row.uuid
  /\ row.status = "approved" => "applicant" \in row.flags

(***************************************************************************)
(* Events take effect in the order they were created and once each,        *)
(* however Sumsub repeats and reorders them, until a request writes a copy *)
(* that misses another's write: an event is compared with the time the row *)
(* was last processed, not with the event applied last (sumsubService.go:  *)
(* 46-50).                                                                 *)
(***************************************************************************)
AppliedInOrder ==
  [][\A w \in Webhooks : SaveEvent(w) /\ ~lost' =>
       \A e \in applied : e.at < hook[w].event.at]_vars

(***************************************************************************)
(* "user is final rejected, cannot retry" (sumsub.go:220-224): a final     *)
(* rejection is only ever left by a reset, by a request that read the row  *)
(* before somebody else wrote it, or by a confirmation of the e-mail that  *)
(* finds the row there, which starts over with a new applicant             *)
(* (accountService.go:127-150, kycStorer.go:77-81).                        *)
(***************************************************************************)
FinalRejectionStays ==
  [][row.status = "finalRejected" =>
       \/ row'.status = "finalRejected"
       \/ \E w \in Webhooks : SaveEvent(w) /\ \/ hook[w].event.kind = "reset"
                                              \/ w \in outdated
       \/ \E u \in Sessions : StoreSession(u) /\ u \in outdated
       \/ ConfirmEmail]_vars

(***************************************************************************)
(* An applicant whom Sumsub deactivated is not active (sumsubService.go:   *)
(* 84-85), and linkNode refuses him (license.go:122).                      *)
(***************************************************************************)
DeactivationStored ==
  \A e \in applied :
    (/\ e.kind = "deactivated"
     /\ \A d \in applied : d.kind = "activated" => d.at < e.at)
      => "active" \notin row.flags
=============================================================================
