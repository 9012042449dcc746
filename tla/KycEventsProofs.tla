--------------------------- MODULE KycEventsProofs ---------------------------
(***************************************************************************)
(* Proofs about KycEvents: type correctness, and that neither a stale copy *)
(* of the row nor a repeated, reordered or failed webhook brings about an  *)
(* approval without the applicant's data, a rejection nobody was told of,  *)
(* or a status no event gave; for any number of concurrent requests.  The  *)
(* last part is about LinkPermits: signatures to link nodes beside them.   *)
(***************************************************************************)
EXTENDS LinkPermits, TLAPS

-----------------------------------------------------------------------------
(* The inductive invariant: what holds of the row holds of every copy of   *)
(* it, as far as the request that holds the copy has got.                  *)

\* A row an approval of which has its data behind it.
Backed(r) == r.status = "approved" => userInfo /\ "applicant" \in r.flags

\* A status that an applied event gave, for the same applicant.
Caused(r) ==
  r.status # "accCreated" =>
    \E e \in applied : /\ At(StatusAfter, e.kind, "") = r.status
                       /\ e.uuid = r.uuid

\* The copy a webhook works on.
HookInv(h) ==
  h.pc # "idle" =>
    /\ h.event \in events /\ h.row.uuid = h.event.uuid
    /\ h.pc # "client" => Backed(h.row)
    /\ \/ Caused(h.row)
       \/ h.pc # "received" /\ At(StatusAfter, h.event.kind, "") = h.row.status
    /\ h.pc = "client" => h.event.kind = "green"
    /\ h.pc = "mail" => h.row.status # "approved"
    /\ h.pc = "save" /\ h.event.kind \in {"red", "final", "reset"}
         => h.event \in told

IInv ==
  /\ TypeOK
  /\ AppliedEventsTold
  /\ Backed(row)
  /\ Caused(row)
  /\ \A w \in Webhooks : HookInv(hook[w])
  /\ \A u \in Sessions :
       session[u].open => Backed(session[u].row) /\ Caused(session[u].row)

-----------------------------------------------------------------------------
(* What an event does to a copy.                                           *)

\* The status an event gives; the others leave the status alone.
LEMMA StatusGiven ==
  ASSUME NEW k \in AllKinds, NEW d
  PROVE  At(StatusAfter, k, d) =
           IF k = "green" THEN "approved"
           ELSE IF k = "red" THEN "rejected"
           ELSE IF k = "final" THEN "finalRejected"
           ELSE IF k = "reset" THEN "init"
           ELSE IF k = "progress" THEN "pending" ELSE d
BY DEF At, StatusAfter, AllKinds

\* No event raises a flag that is not one, or lowers the applicant's id.
LEMMA FlagsGiven ==
  ASSUME NEW k \in AllKinds
  PROVE  /\ At(Raises, k, {}) \subseteq Flags
         /\ "applicant" \notin At(Lowers, k, {})
BY DEF At, Raises, Lowers, Flags, AllKinds

LEMMA ChangedRow ==
  ASSUME NEW r \in Row, NEW e \in Event, NEW t \in 0..MaxTime
  PROVE  /\ Changed(r, e, t) \in Row
         /\ Changed(r, e, t).status = At(StatusAfter, e.kind, r.status)
         /\ Changed(r, e, t).uuid = r.uuid
         /\ "applicant" \in r.flags => "applicant" \in Changed(r, e, t).flags
<1>1. e.kind \in AllKinds /\ r.status \in Statuses
  BY DEF Event, Row
<1>2. At(StatusAfter, e.kind, r.status) \in Statuses
  BY <1>1, StatusGiven DEF Statuses, AllKinds
<1>3. /\ At(Raises, e.kind, {}) \subseteq Flags
      /\ "applicant" \notin At(Lowers, e.kind, {})
  BY <1>1, FlagsGiven
<1> QED BY <1>2, <1>3 DEF Changed, Row

\* A row that is written back has the copy's status, and all its flags.
LEMMA MergedRow ==
  ASSUME TypeOK, NEW r \in Row
  PROVE  /\ Merge(r) \in Row
         /\ Merge(r).status = r.status /\ Merge(r).uuid = r.uuid
         /\ r.flags \subseteq Merge(r).flags
BY DEF TypeOK, Merge, Row

-----------------------------------------------------------------------------
(* Type correctness.                                                       *)

LEMMA Idle == NoRow \in Row /\ NoHook \in Hook /\ NoSession \in Session
<1>1. NoRow \in Row
  BY BoundsAssumption DEF NoRow, Row, Statuses, Flags
<1>2. [at |-> 0, kind |-> "created", uuid |-> 0] \in Event
  BY BoundsAssumption DEF Event, AllKinds
<1>3. NoHook \in Hook
  BY <1>1, <1>2 DEF NoHook, Hook, Steps
<1> QED BY <1>1, <1>3 DEF NoSession, Session

LEMMA InitTypeOK == Init => TypeOK
<1> SUFFICES ASSUME Init PROVE TypeOK OBVIOUS
<1>1. hook \in [Webhooks -> Hook] /\ session \in [Sessions -> Session]
  BY Idle DEF Init
<1>2. now \in 0..MaxTime /\ uuids \in 0..MaxConfirms /\ row \in Row
  <2>1. PICK known \in Known : row = [NoRow EXCEPT !.flags = known]
    BY DEF Init
  <2>2. known \subseteq Flags
    BY KnownAssumption
  <2>3. row \in Row
    BY <2>1, <2>2, Idle DEF Row
  <2> QED BY <2>3, BoundsAssumption DEF Init
<1>3. userInfo \in BOOLEAN
  BY ZenonT(20) DEF Init
<1>4. events \subseteq Event /\ told \subseteq Event /\ applied \subseteq Event
  BY DEF Init
<1>5. outdated \subseteq Webhooks \cup Sessions /\ lost \in BOOLEAN
  BY ZenonT(20) DEF Init
<1> QED BY <1>1, <1>2, <1>3, <1>4, <1>5 DEF TypeOK

\* The books kept of who holds an old copy.
LEMMA GhostTypeOK ==
  ASSUME TypeOK, NEW x \in Webhooks \cup Sessions, Write(x) \/ Leave(x)
  PROVE  outdated' \subseteq Webhooks \cup Sessions /\ lost' \in BOOLEAN
<1>1. outdated' \subseteq Webhooks \cup Sessions
  BY DEF TypeOK, Write, Leave, Busy
<1>2. (lost \/ x \in outdated) \in BOOLEAN
  BY ZenonT(20)
<1>3. lost' \in BOOLEAN
  BY <1>2, ZenonT(20) DEF TypeOK, Write, Leave
<1> QED BY <1>1, <1>3

LEMMA NextTypeOK == TypeOK /\ [Next]_vars => TypeOK'
<1> SUFFICES ASSUME TypeOK, [Next]_vars PROVE TypeOK' OBVIOUS
<1> USE DEF TypeOK, handlers, writes
<1>1. CASE UNCHANGED vars
  BY <1>1 DEF vars
<1>2. ASSUME NEW k \in Kinds, NEW uuid \in 0..uuids, CreateEvent(k, uuid)
      PROVE  TypeOK'
  <2>1. k \in AllKinds
    BY KindsAssumption
  <2>2. now' \in 0..MaxTime /\ events' \subseteq Event
    BY <1>2, <2>1, BoundsAssumption DEF CreateEvent, Event
  <2> QED BY <1>2, <2>2 DEF CreateEvent
<1>3. ASSUME NEW w \in Webhooks, HookStep(w) PROVE TypeOK'
  <2>1. hook[w] \in Hook /\ hook[w].row \in Row /\ hook[w].event \in Event
    BY DEF Hook
  <2>2. ASSUME NEW pc \in Steps, NEW r \in Row, Go(w, pc, r)
        PROVE  hook' \in [Webhooks -> Hook]
    <3>1. [hook[w] EXCEPT !.pc = pc, !.row = r] \in Hook
      BY <2>1, <2>2 DEF Hook
    <3>2. hook' = [hook EXCEPT ![w] = [hook[w] EXCEPT !.pc = pc, !.row = r]]
      BY <2>1, <2>2 DEF Go, Hook
    <3> QED BY <3>1, <3>2
  <2>3. Answer(w) => hook' \in [Webhooks -> Hook]
    BY Idle DEF Answer
  <2>4. ASSUME NEW e \in events, Receive(w, e) PROVE TypeOK'
    <3>1. [pc |-> "received", event |-> e, row |-> row] \in Hook
      BY DEF Hook, Steps
    <3> QED BY <2>4, <3>1 DEF Receive
  <2>5. CASE IgnoreStale(w) \/ FailHook(w)
    BY <2>3, <2>5, GhostTypeOK DEF IgnoreStale, FailHook
  <2>6. CASE Process(w)
    <3>1. Changed(hook[w].row, hook[w].event, now) \in Row
      BY <2>1, ChangedRow
    <3>2. StepAfter(hook[w].event.kind) \in Steps
      BY DEF StepAfter, Steps
    <3> QED BY <2>2, <2>6, <3>1, <3>2 DEF Process
  <2>7. CASE SendMail(w)
    <3>1. hook' \in [Webhooks -> Hook]
      BY <2>1, <2>2, <2>7 DEF SendMail, Steps
    <3> QED BY <2>1, <2>7, <3>1 DEF SendMail
  <2>8. CASE StoreUserInfo(w)
    <3>1. PICK v \in Vies :
            Go(w, "save", [hook[w].row EXCEPT !.flags = (@ \ {"vies"}) \cup v])
      BY <2>8 DEF StoreUserInfo
    <3>2. [hook[w].row EXCEPT !.flags = (@ \ {"vies"}) \cup v] \in Row
      BY <2>1, ViesAssumption DEF Row, Flags
    <3>3. hook' \in [Webhooks -> Hook]
      BY <2>2, <3>1, <3>2 DEF Steps
    <3> QED BY <2>8, <3>3 DEF StoreUserInfo
  <2>9. CASE SaveEvent(w)
    <3>1. row' \in Row
      BY <2>1, <2>9, MergedRow DEF SaveEvent
    <3>2. hook' \in [Webhooks -> Hook]
      BY <2>1, <2>2, <2>3, <2>9 DEF SaveEvent, AfterSave, Steps
    <3>3. outdated' \subseteq Webhooks \cup Sessions /\ lost' \in BOOLEAN
      BY <2>9, GhostTypeOK DEF SaveEvent
    <3> QED BY <2>1, <2>9, <3>1, <3>2, <3>3 DEF SaveEvent
  <2>10. CASE Confirm(w)
    BY <2>1, <2>3, <2>10, GhostTypeOK DEF Confirm
  <2>11. CASE SkipEvent(w)
    <3>1. hook' \in [Webhooks -> Hook]
      BY <2>1, <2>2, <2>3, <2>11 DEF SkipEvent, AfterSave, Steps
    <3> QED BY <2>11, <3>1, GhostTypeOK DEF SkipEvent
  <2> QED
    BY <1>3, <2>4, <2>5, <2>6, <2>7, <2>8, <2>9, <2>10, <2>11 DEF HookStep
<1>4. ASSUME NEW u \in Sessions, SessionStep(u) PROVE TypeOK'
  <2>1. ASSUME NEW r \in Row, Read(u, r) PROVE TypeOK'
    <3>1. [open |-> TRUE, row |-> r] \in Session
      BY DEF Session
    <3> QED BY <2>1, <3>1 DEF Read
  <2>2. CASE InitSession(u)
    <3>1. [row EXCEPT !.flags = @ \cup {"typed"}] \in Row
      BY DEF Row, Flags
    <3> QED BY <2>1, <2>2, <3>1 DEF InitSession
  <2>3. CASE ChangeSubscription(u)
    BY <2>1, <2>3 DEF ChangeSubscription
  <2>4. CASE StoreSession(u)
    <3>1. session[u].row \in Row
      BY DEF Session
    <3>2. outdated' \subseteq Webhooks \cup Sessions /\ lost' \in BOOLEAN
      BY <2>4, GhostTypeOK DEF StoreSession
    <3> QED BY <2>4, <3>1, <3>2, Idle, MergedRow DEF StoreSession
  <2>5. CASE FailSession(u)
    BY <2>5, Idle, GhostTypeOK DEF FailSession
  <2> QED BY <1>4, <2>2, <2>3, <2>4, <2>5 DEF SessionStep
<1>5. CASE ConfirmEmail
  <2>1. uuids' \in 0..MaxConfirms
    BY <1>5, BoundsAssumption DEF ConfirmEmail
  <2>2. [row EXCEPT !.uuid = uuids', !.status = "accCreated"] \in Row
    BY <2>1 DEF Row, Statuses
  <2>3. row' \in Row /\ outdated' \subseteq Webhooks \cup Sessions
    BY <1>5, <2>2 DEF ConfirmEmail, Busy
  <2> QED BY <1>5, <2>1, <2>3 DEF ConfirmEmail
<1> QED BY <1>1, <1>2, <1>3, <1>4, <1>5 DEF Next

(***************************************************************************)
(* The row, every copy of it and every event keep their types, whatever    *)
(* the number of concurrent webhooks and user requests (sumsub.go).        *)
(***************************************************************************)
THEOREM TypeCorrect == Spec => []TypeOK
<1> QED BY InitTypeOK, NextTypeOK, PTL DEF Spec

-----------------------------------------------------------------------------
(* The invariant is inductive.                                             *)

LEMMA InitIInv == Init => IInv
<1> SUFFICES ASSUME Init PROVE IInv OBVIOUS
<1>1. TypeOK
  BY InitTypeOK
<1>2. Backed(row) /\ Caused(row) /\ AppliedEventsTold
  BY DEF Init, NoRow, Backed, Caused, AppliedEventsTold
<1>3. \A w \in Webhooks : HookInv(hook[w])
  BY DEF Init, HookInv, NoHook
<1>4. \A u \in Sessions : ~session[u].open
  BY DEF Init, NoSession
<1> QED BY <1>1, <1>2, <1>3, <1>4 DEF IInv

\* A step that writes nothing to the row, and that at most one webhook and
\* one session take part in.
LEMMA HookStepKeeps ==
  ASSUME IInv, TypeOK', NEW w \in Webhooks,
         \A v \in Webhooks \ {w} : hook'[v] = hook[v],
         HookInv(hook[w])', UNCHANGED session,
         userInfo => userInfo', UNCHANGED events,
         applied \subseteq applied', told \subseteq told',
         Backed(row)', Caused(row)', AppliedEventsTold'
  PROVE  IInv'
<1>1. ASSUME NEW v \in Webhooks PROVE HookInv(hook[v])'
  <2>1. CASE v = w
    BY <2>1
  <2>2. CASE v # w
    <3>1. hook'[v] = hook[v] /\ HookInv(hook[v])
      BY <2>2 DEF IInv
    <3> QED BY <3>1 DEF HookInv, Backed, Caused
  <2> QED BY <2>1, <2>2
<1>2. ASSUME NEW u \in Sessions, session'[u].open
      PROVE  Backed(session[u].row)' /\ Caused(session[u].row)'
  <2>1. Backed(session[u].row) /\ Caused(session[u].row)
    BY <1>2 DEF IInv
  <2> QED BY <2>1 DEF Backed, Caused
<1> QED BY <1>1, <1>2 DEF IInv

LEMMA AnsweredHook ==
  ASSUME NEW w \in Webhooks, TypeOK, Answer(w)
  PROVE  /\ HookInv(hook[w])'
         /\ \A v \in Webhooks \ {w} : hook'[v] = hook[v]
BY DEF TypeOK, Answer, HookInv, NoHook

\* A webhook that goes on keeps its event.
LEMMA GoneOn ==
  ASSUME NEW w \in Webhooks, TypeOK, NEW pc, NEW r, Go(w, pc, r)
  PROVE  /\ hook'[w].pc = pc /\ hook'[w].row = r
         /\ hook'[w].event = hook[w].event
         /\ \A v \in Webhooks \ {w} : hook'[v] = hook[v]
BY DEF TypeOK, Go, Hook

LEMMA ReceiveIInv ==
  ASSUME IInv, TypeOK', NEW w \in Webhooks, NEW e \in events, Receive(w, e)
  PROVE  IInv'
<1>1. UNCHANGED <<events, row, userInfo, session, told, applied>>
  BY DEF Receive
<1>2. CASE UNCHANGED hook
  BY <1>1, <1>2
     DEF IInv, HookInv, Backed, Caused, AppliedEventsTold
<1>3. CASE hook' = [hook EXCEPT ![w] = [pc |-> "received", event |-> e,
                                        row |-> row]]
  <2>1. /\ hook'[w] = [pc |-> "received", event |-> e, row |-> row]
        /\ \A v \in Webhooks \ {w} : hook'[v] = hook[v]
    BY <1>3 DEF IInv, TypeOK
  <2>2. Backed(row)' /\ Caused(row)' /\ AppliedEventsTold'
    BY <1>1 DEF IInv, Backed, Caused, AppliedEventsTold
  <2>3. /\ hook'[w].pc = "received" /\ hook'[w].event \in events'
        /\ hook'[w].row = row' /\ hook'[w].row.uuid = hook'[w].event.uuid
    BY <1>1, <2>1 DEF Receive
  <2>4. HookInv(hook[w])'
    BY <2>2, <2>3 DEF HookInv, Backed, Caused
  <2> QED BY <1>1, <2>1, <2>2, <2>4, HookStepKeeps
<1> QED BY <1>2, <1>3 DEF Receive

\* A request that is over without having written the row.
LEMMA AnswerIInv ==
  ASSUME IInv, TypeOK', NEW w \in Webhooks, Answer(w), told \subseteq told',
         UNCHANGED <<events, row, userInfo, session, applied>>
  PROVE  IInv'
<1>1. Backed(row)' /\ Caused(row)' /\ AppliedEventsTold'
  BY DEF IInv, Backed, Caused, AppliedEventsTold
<1> QED BY <1>1, AnsweredHook, HookStepKeeps DEF IInv

LEMMA ProcessIInv ==
  ASSUME IInv, TypeOK', NEW w \in Webhooks, Process(w)
  PROVE  IInv'
<1> DEFINE h == hook[w]
           r == Changed(h.row, h.event, now)
<1>1. /\ h \in Hook /\ h.row \in Row /\ h.event \in Event /\ now \in 0..MaxTime
      /\ h.event.kind \in AllKinds
  BY DEF IInv, TypeOK, Hook, Event
<1>2. /\ h.pc = "received" /\ Go(w, StepAfter(h.event.kind), r)
      /\ UNCHANGED <<events, row, userInfo, session, told, applied>>
  BY DEF Process
<1>3. /\ hook'[w].pc = StepAfter(h.event.kind) /\ hook'[w].row = r
      /\ hook'[w].event = h.event
      /\ \A v \in Webhooks \ {w} : hook'[v] = hook[v]
  BY <1>2, GoneOn DEF IInv
<1>4. /\ r.status = At(StatusAfter, h.event.kind, h.row.status)
      /\ r.uuid = h.row.uuid
      /\ "applicant" \in h.row.flags => "applicant" \in r.flags
  BY <1>1, ChangedRow
<1>5. /\ h.event \in events /\ h.row.uuid = h.event.uuid
      /\ Backed(h.row) /\ Caused(h.row)
  BY <1>2 DEF IInv, HookInv
<1> HIDE DEF h, r
<1>6. h.event.kind # "green" => Backed(r)
  <2>1. SUFFICES ASSUME h.event.kind # "green", r.status = "approved"
                 PROVE  userInfo /\ "applicant" \in r.flags
    BY DEF Backed
  <2>2. h.row.status = "approved"
    BY <1>1, <1>4, <2>1, StatusGiven
  <2> QED BY <1>4, <1>5, <2>2 DEF Backed
<1>7. Caused(r) \/ At(StatusAfter, h.event.kind, "") = r.status
  <2>1. r.status = h.row.status \/ At(StatusAfter, h.event.kind, "") = r.status
    BY <1>1, <1>4, StatusGiven
  <2>2. ASSUME r.status = h.row.status PROVE Caused(r)
    BY <1>4, <1>5, <2>2, Zenon DEF Caused
  <2> QED BY <2>1, <2>2
<1>8. /\ StepAfter(h.event.kind) \notin {"idle", "received"}
      /\ StepAfter(h.event.kind) = "client" <=> h.event.kind = "green"
      /\ StepAfter(h.event.kind) = "mail"
           <=> h.event.kind \in {"red", "final", "reset"}
  BY <1>1 DEF StepAfter, AllKinds
<1>9. h.event.kind \in {"red", "final", "reset"} => r.status # "approved"
  BY <1>1, <1>4, StatusGiven
<1>10. HookInv(hook[w])'
  BY <1>2, <1>3, <1>4, <1>5, <1>6, <1>7, <1>8, <1>9
     DEF HookInv, Backed, Caused
<1>11. Backed(row)' /\ Caused(row)' /\ AppliedEventsTold'
  BY <1>2 DEF IInv, Backed, Caused, AppliedEventsTold
<1> QED BY <1>2, <1>3, <1>10, <1>11, HookStepKeeps

LEMMA SendMailIInv ==
  ASSUME IInv, TypeOK', NEW w \in Webhooks, SendMail(w)
  PROVE  IInv'
<1>1. /\ hook[w].pc = "mail" /\ told' = told \cup {hook[w].event}
      /\ Go(w, "save", hook[w].row)
      /\ UNCHANGED <<events, row, userInfo, session, applied>>
  BY DEF SendMail
<1>2. /\ hook'[w].pc = "save" /\ hook'[w].row = hook[w].row
      /\ hook'[w].event = hook[w].event
      /\ \A v \in Webhooks \ {w} : hook'[v] = hook[v]
  BY <1>1, GoneOn DEF IInv
<1>3. HookInv(hook[w])'
  BY <1>1, <1>2 DEF IInv, HookInv, Backed, Caused
<1>4. Backed(row)' /\ Caused(row)' /\ AppliedEventsTold'
  BY <1>1 DEF IInv, Backed, Caused, AppliedEventsTold
<1> QED BY <1>1, <1>2, <1>3, <1>4, HookStepKeeps

\* From here on the approval the copy holds has its data behind it.
LEMMA StoreUserInfoIInv ==
  ASSUME IInv, TypeOK', NEW w \in Webhooks, StoreUserInfo(w)
  PROVE  IInv'
<1>1. /\ hook[w].pc = "client" /\ "applicant" \in hook[w].row.flags
      /\ userInfo'
      /\ UNCHANGED <<events, row, session, told, applied>>
  BY DEF StoreUserInfo
<1>2. PICK v \in Vies :
        Go(w, "save", [hook[w].row EXCEPT !.flags = (@ \ {"vies"}) \cup v])
  BY DEF StoreUserInfo
<1>3. hook[w].row \in Row
  BY DEF IInv, TypeOK, Hook
<1>4. /\ hook'[w].pc = "save" /\ hook'[w].event = hook[w].event
      /\ hook'[w].row.status = hook[w].row.status
      /\ hook'[w].row.uuid = hook[w].row.uuid
      /\ "applicant" \in hook'[w].row.flags
      /\ \A u \in Webhooks \ {w} : hook'[u] = hook[u]
  BY <1>1, <1>2, <1>3, GoneOn DEF IInv, Row
<1>5. HookInv(hook[w])'
  <2>1. HookInv(hook[w])
    BY DEF IInv
  <2> QED BY <1>1, <1>4, <2>1 DEF HookInv, Backed, Caused
<1>6. Backed(row)' /\ Caused(row)' /\ AppliedEventsTold'
  BY <1>1 DEF IInv, Backed, Caused, AppliedEventsTold
<1> QED BY <1>1, <1>4, <1>5, <1>6, HookStepKeeps

LEMMA SaveEventIInv ==
  ASSUME IInv, TypeOK', NEW w \in Webhooks, SaveEvent(w)
  PROVE  IInv'
<1> DEFINE h == hook[w]
<1>1. /\ h.pc = "save" /\ row' = Merge(h.row)
      /\ applied' = applied \cup {h.event}
      /\ UNCHANGED <<now, events, userInfo, session, told>>
  BY DEF SaveEvent
<1>2. h.row \in Row /\ h.event \in Event
  BY DEF IInv, TypeOK, Hook
<1>3. /\ row'.status = h.row.status /\ row'.uuid = h.row.uuid
      /\ h.row.flags \subseteq row'.flags
  BY <1>1, <1>2, MergedRow DEF IInv
<1>4. /\ Backed(h.row)
      /\ Caused(h.row) \/ At(StatusAfter, h.event.kind, "") = h.row.status
      /\ h.event.kind \in {"red", "final", "reset"} => h.event \in told
      /\ h.event \in events /\ h.row.uuid = h.event.uuid
  BY <1>1 DEF IInv, HookInv
<1>5. Backed(row)'
  BY <1>1, <1>3, <1>4 DEF Backed
<1>6. \/ h.row.status = "accCreated"
      \/ \E e \in applied' : /\ At(StatusAfter, e.kind, "") = h.row.status
                             /\ e.uuid = h.row.uuid
  BY <1>1, <1>4 DEF Caused
<1>7. Caused(row)'
  BY <1>3, <1>6 DEF Caused
<1>8. AppliedEventsTold'
  BY <1>1, <1>4 DEF IInv, AppliedEventsTold
<1>9. CASE Answer(w)
  BY <1>1, <1>5, <1>7, <1>8, <1>9, AnsweredHook, HookStepKeeps DEF IInv
<1>10. CASE Go(w, "confirm", h.row)
  <2>1. /\ hook'[w].pc = "confirm" /\ hook'[w].row = h.row
        /\ hook'[w].event = h.event
        /\ \A v \in Webhooks \ {w} : hook'[v] = hook[v]
    BY <1>10, GoneOn DEF IInv
  <2> HIDE DEF h
  <2>2. HookInv(hook[w])'
    BY <1>1, <1>4, <1>6, <2>1 DEF HookInv, Backed, Caused
  <2> QED BY <1>1, <1>5, <1>7, <1>8, <2>1, <2>2, HookStepKeeps
<1> QED BY <1>9, <1>10 DEF SaveEvent, AfterSave

\* A webhook that wrote nothing, and may still mail.
LEMMA SkipEventIInv ==
  ASSUME IInv, TypeOK', NEW w \in Webhooks, SkipEvent(w)
  PROVE  IInv'
<1>1. /\ hook[w].pc = "save"
      /\ UNCHANGED <<events, row, userInfo, session, told, applied>>
  BY DEF SkipEvent
<1>2. Backed(row)' /\ Caused(row)' /\ AppliedEventsTold'
  BY <1>1 DEF IInv, Backed, Caused, AppliedEventsTold
<1>3. CASE Answer(w)
  BY <1>1, <1>3, AnswerIInv
<1>4. CASE Go(w, "confirm", hook[w].row)
  <2>1. /\ hook'[w].pc = "confirm" /\ hook'[w].row = hook[w].row
        /\ hook'[w].event = hook[w].event
        /\ \A v \in Webhooks \ {w} : hook'[v] = hook[v]
    BY <1>4, GoneOn DEF IInv
  <2>2. HookInv(hook[w])
    BY DEF IInv
  <2>3. HookInv(hook[w])'
    BY <1>1, <2>1, <2>2 DEF HookInv, Backed, Caused
  <2> QED BY <1>1, <1>2, <2>1, <2>3, HookStepKeeps
<1> QED BY <1>3, <1>4 DEF SkipEvent, AfterSave

\* A user's request starts from the row, and changes neither its status nor
\* the applicant's id.
LEMMA ReadIInv ==
  ASSUME IInv, TypeOK', NEW u \in Sessions, NEW r \in Row, Read(u, r),
         r.status = row.status, r.uuid = row.uuid, row.flags \subseteq r.flags
  PROVE  IInv'
<1>1. /\ session'[u].open /\ session'[u].row = r
      /\ \A v \in Sessions \ {u} : session'[v] = session[v]
      /\ UNCHANGED <<events, row, userInfo, hook, told, applied>>
  BY DEF Read, IInv, TypeOK
<1>2. Backed(r) /\ Caused(r)
  BY DEF IInv, Backed, Caused
<1>3. ASSUME NEW v \in Sessions, session'[v].open
      PROVE  Backed(session[v].row)' /\ Caused(session[v].row)'
  <2>1. CASE v = u
    BY <1>1, <1>2, <2>1 DEF Backed, Caused
  <2>2. CASE v # u
    <3>1. Backed(session[v].row) /\ Caused(session[v].row)
      BY <1>1, <1>3, <2>2 DEF IInv
    <3> QED BY <1>1, <2>2, <3>1 DEF Backed, Caused
  <2> QED BY <2>1, <2>2
<1>4. \A w \in Webhooks : HookInv(hook[w])'
  BY <1>1 DEF IInv, HookInv, Backed, Caused
<1>5. Backed(row)' /\ Caused(row)' /\ AppliedEventsTold'
  BY <1>1 DEF IInv, Backed, Caused, AppliedEventsTold
<1> QED BY <1>3, <1>4, <1>5 DEF IInv

\* A user's request ends, and may write its copy back.
LEMMA SessionEndIInv ==
  ASSUME IInv, TypeOK', NEW u \in Sessions, session[u].open,
         session' = [session EXCEPT ![u] = NoSession],
         row' \in {row, Merge(session[u].row)},
         UNCHANGED <<events, userInfo, hook, told, applied>>
  PROVE  IInv'
<1>1. ~session'[u].open /\ \A v \in Sessions \ {u} : session'[v] = session[v]
  BY DEF IInv, TypeOK, NoSession
<1>2. session[u].row \in Row /\ Backed(session[u].row) /\ Caused(session[u].row)
  BY DEF IInv, TypeOK, Session
<1>3. Backed(row)' /\ Caused(row)'
  <2>1. CASE row' = row
    BY <2>1 DEF IInv, Backed, Caused
  <2>2. CASE row' = Merge(session[u].row)
    <3>1. /\ row'.status = session[u].row.status
          /\ row'.uuid = session[u].row.uuid
          /\ session[u].row.flags \subseteq row'.flags
      BY <1>2, <2>2, MergedRow DEF IInv
    <3> QED BY <1>2, <3>1 DEF Backed, Caused
  <2> QED BY <2>1, <2>2
<1>4. ASSUME NEW v \in Sessions, session'[v].open
      PROVE  Backed(session[v].row)' /\ Caused(session[v].row)'
  <2>1. session'[v] = session[v]
    BY <1>1, <1>4
  <2>2. Backed(session[v].row) /\ Caused(session[v].row)
    BY <1>4, <2>1 DEF IInv
  <2> QED BY <2>1, <2>2 DEF Backed, Caused
<1>5. \A w \in Webhooks : HookInv(hook[w])'
  BY DEF IInv, HookInv, Backed, Caused
<1>6. AppliedEventsTold'
  BY DEF IInv, AppliedEventsTold
<1> QED BY <1>3, <1>4, <1>5, <1>6 DEF IInv

\* A new confirmation starts over: the status is that of a new account.
LEMMA ConfirmIInv ==
  ASSUME IInv, TypeOK', ConfirmEmail
  PROVE  IInv'
<1>1. UNCHANGED <<events, userInfo, hook, session, told, applied>>
  BY DEF ConfirmEmail, handlers
<1>2. row'.status = "accCreated"
  BY DEF ConfirmEmail, IInv, TypeOK, Row
<1>3. Backed(row)' /\ Caused(row)' /\ AppliedEventsTold'
  BY <1>1, <1>2 DEF IInv, Backed, Caused, AppliedEventsTold
<1>4. \A w \in Webhooks : HookInv(hook[w])'
  BY <1>1 DEF IInv, HookInv, Backed, Caused
<1>5. \A u \in Sessions :
        session'[u].open => Backed(session[u].row)' /\ Caused(session[u].row)'
  BY <1>1 DEF IInv, Backed, Caused
<1> QED BY <1>3, <1>4, <1>5 DEF IInv

LEMMA NextIInv == IInv /\ [Next]_vars => IInv'
<1> SUFFICES ASSUME IInv, [Next]_vars PROVE IInv' OBVIOUS
<1>1. TypeOK'
  BY NextTypeOK DEF IInv
<1>2. CASE UNCHANGED vars
  BY <1>1, <1>2
     DEF IInv, vars, HookInv, Backed, Caused, AppliedEventsTold
<1>3. ASSUME NEW k \in Kinds, NEW uuid \in 0..uuids, CreateEvent(k, uuid)
      PROVE  IInv'
  <2>1. /\ events \subseteq events'
        /\ UNCHANGED <<row, userInfo, hook, session, told, applied>>
    BY <1>3 DEF CreateEvent, handlers
  <2> QED BY <1>1, <2>1 DEF IInv, HookInv, Backed, Caused, AppliedEventsTold
<1>4. ASSUME NEW w \in Webhooks, HookStep(w) PROVE IInv'
  <2>1. ASSUME NEW e \in events, Receive(w, e) PROVE IInv'
    BY <1>1, <2>1, ReceiveIInv
  <2>2. CASE IgnoreStale(w) \/ Confirm(w) \/ FailHook(w)
    BY <1>1, <2>2, AnswerIInv DEF IgnoreStale, Confirm, FailHook
  <2>3. CASE Process(w)
    BY <1>1, <2>3, ProcessIInv
  <2>4. CASE SendMail(w)
    BY <1>1, <2>4, SendMailIInv
  <2>5. CASE StoreUserInfo(w)
    BY <1>1, <2>5, StoreUserInfoIInv
  <2>6. CASE SaveEvent(w)
    BY <1>1, <2>6, SaveEventIInv
  <2>7. CASE SkipEvent(w)
    BY <1>1, <2>7, SkipEventIInv
  <2> QED BY <1>4, <2>1, <2>2, <2>3, <2>4, <2>5, <2>6, <2>7 DEF HookStep
<1>5. ASSUME NEW u \in Sessions, SessionStep(u) PROVE IInv'
  <2>1. row \in Row
    BY DEF IInv, TypeOK
  <2>2. CASE InitSession(u)
    <3> DEFINE r == [row EXCEPT !.flags = @ \cup {"typed"}]
    <3>1. /\ r \in Row /\ r.status = row.status /\ r.uuid = row.uuid
          /\ row.flags \subseteq r.flags
      BY <2>1 DEF Row, Flags
    <3> QED BY <1>1, <2>2, <3>1, ReadIInv DEF InitSession
  <2>3. CASE ChangeSubscription(u)
    BY <1>1, <2>1, <2>3, ReadIInv DEF ChangeSubscription
  <2>4. CASE StoreSession(u)
    BY <1>1, <2>4, SessionEndIInv DEF StoreSession
  <2>5. CASE FailSession(u)
    BY <1>1, <2>5, SessionEndIInv DEF FailSession
  <2> QED BY <1>5, <2>2, <2>3, <2>4, <2>5 DEF SessionStep
<1>6. CASE ConfirmEmail
  BY <1>1, <1>6, ConfirmIInv
<1> QED BY <1>2, <1>3, <1>4, <1>5, <1>6 DEF Next

(***************************************************************************)
(* The inductive invariant holds throughout.                               *)
(***************************************************************************)
THEOREM Inductive == Spec => []IInv
<1> QED BY InitIInv, NextIInv, PTL DEF Spec

(***************************************************************************)
(* An approval always has the applicant's data behind it                   *)
(* (sumsubService.go:72-76, 141-156).                                      *)
(***************************************************************************)
THEOREM ApprovalsHaveUserInfo == Spec => []ApprovedHasUserInfo
<1>1. IInv => ApprovedHasUserInfo
  BY DEF IInv, Backed, ApprovedHasUserInfo
<1> QED BY <1>1, Inductive, PTL

(***************************************************************************)
(* No rejection or reset is stored before it has been announced            *)
(* (sumsubService.go:58-71, 90-96).                                        *)
(***************************************************************************)
THEOREM RejectionsAreTold == Spec => []AppliedEventsTold
<1>1. IInv => AppliedEventsTold
  BY DEF IInv
<1> QED BY <1>1, Inductive, PTL

(***************************************************************************)
(* The status in the row was given by an event that was applied, of the    *)
(* applicant the row is of, and an approved applicant's id is known        *)
(* (sumsubService.go:50-128, accountService.go:127-150).                   *)
(***************************************************************************)
THEOREM StatusesHaveCause == Spec => []StatusHasCause
<1>1. IInv => StatusHasCause
  BY DEF IInv, Backed, Caused, StatusHasCause
<1> QED BY <1>1, Inductive, PTL

-----------------------------------------------------------------------------
(* Order.  A request whose copy misses no write knows what the row says:   *)
(* how late it was last processed, whether it is finally rejected, and of  *)
(* which applicant it is.                                                  *)

HookFresh(w) ==
  LET h == hook[w] IN
  w \notin outdated =>
    /\ h.pc = "received" => h.row.last = row.last
    /\ h.pc \in {"received", "mail", "client", "save"} =>
         /\ row.status = "finalRejected" => h.event.kind = "reset"
         /\ h.row.uuid = row.uuid
    /\ h.pc \in {"mail", "client", "save"} =>
         /\ h.event.at <= h.row.last
         /\ ~lost => \A e \in applied : e.at < h.event.at

SessionFresh(u) ==
  u \notin outdated /\ session[u].open =>
    /\ session[u].row.last = row.last /\ session[u].row.status = row.status
    /\ session[u].row.uuid = row.uuid

OInv ==
  /\ IInv
  /\ \A e \in events : 1 <= e.at /\ e.at <= now
  /\ ~lost => \A e \in applied : e.at <= row.last
  /\ \A w \in Webhooks : HookFresh(w)
  /\ \A u \in Sessions : SessionFresh(u)

LEMMA InitOInv == Init => OInv
<1> SUFFICES ASSUME Init PROVE OInv OBVIOUS
<1>1. \A w \in Webhooks : HookFresh(w)
  BY DEF Init, NoHook, HookFresh
<1>2. \A u \in Sessions : SessionFresh(u)
  BY DEF Init, NoSession, SessionFresh
<1> QED BY <1>1, <1>2, InitIInv DEF OInv, Init

\* A step that writes nothing, and that only webhook w takes part in.
LEMMA HookStepOInv ==
  ASSUME OInv, IInv', NEW w \in Webhooks, HookFresh(w)',
         \A v \in Webhooks \ {w} : hook'[v] = hook[v],
         UNCHANGED <<now, events, row, session, applied>>,
         UNCHANGED writes \/ Leave(w)
  PROVE  OInv'
<1>1. UNCHANGED lost /\ outdated \ {w} \subseteq outdated'
  BY DEF Leave, writes
<1>2. ASSUME NEW v \in Webhooks, v # w PROVE HookFresh(v)'
  <2>1. HookFresh(v) /\ hook'[v] = hook[v] /\ (v \in outdated => v \in outdated')
    BY <1>1, <1>2 DEF OInv
  <2> QED BY <1>1, <2>1 DEF HookFresh
<1>3. ASSUME NEW u \in Sessions PROVE SessionFresh(u)'
  <2>1. SessionFresh(u) /\ (u \in outdated => u \in outdated')
    BY <1>1, RequestsAssumption DEF OInv
  <2> QED BY <2>1 DEF SessionFresh
<1> QED BY <1>1, <1>2, <1>3 DEF OInv

\* A request writes the row: whoever else is busy has an old copy now.
LEMMA WriteOInv ==
  ASSUME OInv, IInv', NEW x \in Webhooks \cup Sessions, Write(x),
         UNCHANGED <<now, events>>,
         \A v \in Webhooks \ {x} : hook'[v] = hook[v],
         \A u \in Sessions \ {x} : session'[u] = session[u],
         x \in Webhooks => hook'[x].pc \in {"idle", "confirm"},
         x \in Sessions => ~session'[x].open,
         ~lost' => \A e \in applied' : e.at <= row'.last
  PROVE  OInv'
<1>1. ASSUME NEW v \in Webhooks PROVE HookFresh(v)'
  <2>1. CASE v = x
    BY <2>1 DEF HookFresh
  <2>2. CASE v # x
    <3>1. hook'[v].pc = "idle" \/ v \in outdated'
      BY <2>2 DEF Write, Busy
    <3> QED BY <3>1 DEF HookFresh
  <2> QED BY <2>1, <2>2
<1>2. ASSUME NEW u \in Sessions PROVE SessionFresh(u)'
  <2>1. CASE u = x
    BY <2>1 DEF SessionFresh
  <2>2. CASE u # x
    <3>1. ~session'[u].open \/ u \in outdated'
      BY <2>2 DEF Write, Busy
    <3> QED BY <3>1 DEF SessionFresh
  <2> QED BY <2>1, <2>2
<1> QED BY <1>1, <1>2 DEF OInv

LEMMA ReceiveOInv ==
  ASSUME OInv, IInv', NEW w \in Webhooks, NEW e \in events, Receive(w, e)
  PROVE  OInv'
<1>1. /\ UNCHANGED <<now, events, row, session, applied, writes>>
      /\ \A v \in Webhooks \ {w} : hook'[v] = hook[v]
  BY DEF Receive, OInv, IInv, TypeOK
<1>2. HookFresh(w)'
  <2>1. CASE UNCHANGED hook
    BY <1>1, <2>1 DEF OInv, HookFresh, writes
  <2>2. CASE /\ row.status # "finalRejected" \/ e.kind = "reset"
             /\ hook' = [hook EXCEPT ![w] = [pc |-> "received", event |-> e,
                                             row |-> row]]
    <3>1. hook'[w] = [pc |-> "received", event |-> e, row |-> row]
      BY <2>2 DEF OInv, IInv, TypeOK
    <3> QED BY <1>1, <2>2, <3>1 DEF HookFresh
  <2> QED BY <2>1, <2>2 DEF Receive
<1> QED BY <1>1, <1>2, HookStepOInv

\* A webhook that is over, or only waits for its last e-mail.
LEMMA AnswerOInv ==
  ASSUME OInv, IInv', NEW w \in Webhooks, Answer(w), Leave(w),
         UNCHANGED <<now, events, row, session, applied>>
  PROVE  OInv'
<1>1. /\ hook'[w].pc = "idle"
      /\ \A v \in Webhooks \ {w} : hook'[v] = hook[v]
  BY DEF Answer, NoHook, OInv, IInv, TypeOK
<1>2. HookFresh(w)'
  BY <1>1 DEF HookFresh
<1> QED BY <1>1, <1>2, HookStepOInv

LEMMA ProcessOInv ==
  ASSUME OInv, IInv', NEW w \in Webhooks, Process(w)
  PROVE  OInv'
<1> DEFINE h == hook[w]
           r == Changed(h.row, h.event, now)
<1>1. /\ h.pc = "received" /\ h.row.last < h.event.at
      /\ Go(w, StepAfter(h.event.kind), r)
      /\ UNCHANGED <<now, events, row, session, applied, writes>>
  BY DEF Process
<1>2. /\ h.row \in Row /\ h.event \in events /\ h.event \in Event
      /\ now \in 0..MaxTime /\ row \in Row /\ applied \subseteq Event
  BY <1>1 DEF OInv, IInv, TypeOK, Hook, HookInv
<1>3. r.last = now /\ r.uuid = h.row.uuid
  BY <1>2 DEF Changed, Row
<1> HIDE DEF r
<1>4. /\ hook'[w].pc \in {"mail", "client", "save"}
      /\ hook'[w].row = r /\ hook'[w].event = h.event
      /\ \A v \in Webhooks \ {w} : hook'[v] = hook[v]
  BY <1>1, GoneOn DEF OInv, IInv, StepAfter
<1>5. HookFresh(w)'
  <2>1. CASE w \in outdated
    BY <1>1, <2>1 DEF HookFresh, writes
  <2>2. CASE w \notin outdated
    <3>1. /\ h.row.last = row.last /\ h.row.uuid = row.uuid
          /\ row.status = "finalRejected" => h.event.kind = "reset"
      BY <1>1, <2>2 DEF OInv, HookFresh
    <3>2. ~lost => \A e \in applied : e.at < h.event.at
      <4>1. ~lost => \A e \in applied : e.at <= row.last
        BY DEF OInv
      <4> QED BY <1>1, <1>2, <3>1, <4>1 DEF Event, Row
    <3>3. h.event.at <= now
      BY <1>2 DEF OInv
    <3> HIDE DEF h
    <3> QED BY <1>1, <1>3, <1>4, <3>1, <3>2, <3>3 DEF HookFresh, writes
  <2> QED BY <2>1, <2>2
<1> QED BY <1>1, <1>4, <1>5, HookStepOInv

\* A webhook that goes on to store what it has; only flags may change.
LEMMA ToSaveOInv ==
  ASSUME OInv, IInv', NEW w \in Webhooks, NEW r, Go(w, "save", r),
         hook[w].pc \in {"mail", "client"}, r.last = hook[w].row.last,
         r.uuid = hook[w].row.uuid,
         UNCHANGED <<now, events, row, session, applied, writes>>
  PROVE  OInv'
<1>1. /\ hook'[w].pc = "save" /\ hook'[w].row = r
      /\ hook'[w].event = hook[w].event
      /\ \A v \in Webhooks \ {w} : hook'[v] = hook[v]
  BY GoneOn DEF OInv, IInv
<1>2. HookFresh(w)
  BY DEF OInv
<1>3. HookFresh(w)'
  BY <1>1, <1>2 DEF HookFresh, writes
<1> QED BY <1>1, <1>3, HookStepOInv

LEMMA SaveEventOInv ==
  ASSUME OInv, IInv', NEW w \in Webhooks, SaveEvent(w)
  PROVE  OInv'
<1> DEFINE h == hook[w]
<1>1. /\ h.pc = "save" /\ row' = Merge(h.row) /\ Write(w)
      /\ applied' = applied \cup {h.event}
      /\ UNCHANGED <<now, events, session>>
  BY DEF SaveEvent
<1>2. /\ h.row \in Row /\ h.event \in events /\ h.event \in Event
      /\ row \in Row /\ applied \subseteq Event
  BY <1>1 DEF OInv, IInv, TypeOK, Hook, HookInv
<1>3. /\ hook'[w].pc \in {"idle", "confirm"}
      /\ \A v \in Webhooks \ {w} : hook'[v] = hook[v]
  BY GoneOn DEF SaveEvent, AfterSave, Answer, NoHook, OInv, IInv, TypeOK
<1>4. ASSUME ~lost', NEW e \in applied' PROVE e.at <= row'.last
  <2>1. ~lost /\ w \notin outdated
    BY <1>1, <1>4 DEF Write
  <2>2. /\ h.event.at <= h.row.last
        /\ \A d \in applied : d.at < h.event.at
    BY <1>1, <2>1 DEF OInv, HookFresh
  <2>3. 1 <= h.event.at
    BY <1>2 DEF OInv
  <2>4. row'.last = h.row.last
    BY <1>1, <1>2, <2>2, <2>3 DEF Merge, Row, Event
  <2>5. e \in Event /\ h.event.at \in Nat /\ h.row.last \in Nat
    BY <1>1, <1>2, <1>4 DEF Event, Row
  <2> QED BY <1>1, <1>4, <2>2, <2>4, <2>5 DEF Event
<1>5. w \notin Sessions
  BY RequestsAssumption
<1> QED BY <1>1, <1>3, <1>4, <1>5, WriteOInv

LEMMA ReadOInv ==
  ASSUME OInv, IInv', NEW u \in Sessions, NEW r, Read(u, r),
         r.last = row.last, r.status = row.status, r.uuid = row.uuid
  PROVE  OInv'
<1>1. /\ session'[u].row = r
      /\ \A v \in Sessions \ {u} : session'[v] = session[v]
      /\ UNCHANGED <<now, events, row, hook, applied, writes>>
  BY DEF Read, OInv, IInv, TypeOK
<1>2. \A w \in Webhooks : HookFresh(w)'
  BY <1>1 DEF OInv, HookFresh, writes
<1>3. ASSUME NEW v \in Sessions PROVE SessionFresh(v)'
  BY <1>1 DEF OInv, SessionFresh, writes
<1> QED BY <1>1, <1>2, <1>3 DEF OInv, writes

LEMMA StoreSessionOInv ==
  ASSUME OInv, IInv', NEW u \in Sessions, StoreSession(u)
  PROVE  OInv'
<1>1. /\ session[u].open /\ row' = Merge(session[u].row) /\ Write(u)
      /\ session' = [session EXCEPT ![u] = NoSession]
      /\ UNCHANGED <<now, events, hook, applied>>
  BY DEF StoreSession
<1>2. /\ ~session'[u].open
      /\ \A v \in Sessions \ {u} : session'[v] = session[v]
  BY <1>1 DEF OInv, IInv, TypeOK, NoSession
<1>3. session[u].row \in Row
  BY DEF OInv, IInv, TypeOK, Session
<1>4. ~lost' => row'.last = row.last
  <2>1. SUFFICES ASSUME ~lost' PROVE row'.last = row.last
    OBVIOUS
  <2>2. u \notin outdated
    BY <1>1, <2>1 DEF Write
  <2>3. session[u].row.last = row.last
    BY <1>1, <2>2 DEF OInv, SessionFresh
  <2> QED BY <1>1, <1>3, <2>3 DEF Merge
<1>5. ~lost' => \A e \in applied' : e.at <= row'.last
  BY <1>1, <1>4 DEF OInv, Write
<1>6. u \notin Webhooks
  BY RequestsAssumption
<1> QED BY <1>1, <1>2, <1>5, <1>6, WriteOInv

LEMMA SkipEventOInv ==
  ASSUME OInv, IInv', NEW w \in Webhooks, SkipEvent(w)
  PROVE  OInv'
<1>1. /\ Leave(w) /\ UNCHANGED <<now, events, row, session, applied>>
  BY DEF SkipEvent
<1>2. /\ hook'[w].pc \in {"idle", "confirm"}
      /\ \A v \in Webhooks \ {w} : hook'[v] = hook[v]
  BY GoneOn DEF SkipEvent, AfterSave, Answer, NoHook, OInv, IInv, TypeOK
<1>3. HookFresh(w)'
  BY <1>2 DEF HookFresh
<1> QED BY <1>1, <1>2, <1>3, HookStepOInv

\* After a confirmation every request that is busy has an old copy.
LEMMA ConfirmOInv ==
  ASSUME OInv, IInv', ConfirmEmail
  PROVE  OInv'
<1>1. /\ outdated' = Busy
      /\ UNCHANGED <<now, events, hook, session, applied, lost>>
  BY DEF ConfirmEmail, handlers
<1>2. row'.last = row.last
  BY DEF ConfirmEmail, OInv, IInv, TypeOK, Row
<1>3. \A w \in Webhooks : HookFresh(w)'
  BY <1>1 DEF HookFresh, Busy
<1>4. \A u \in Sessions : SessionFresh(u)'
  BY <1>1 DEF SessionFresh, Busy
<1> QED BY <1>1, <1>2, <1>3, <1>4 DEF OInv

LEMMA NextOInv == OInv /\ [Next]_vars => OInv'
<1> SUFFICES ASSUME OInv, [Next]_vars PROVE OInv' OBVIOUS
<1>1. IInv'
  BY NextIInv DEF OInv
<1>2. CASE UNCHANGED vars
  BY <1>1, <1>2 DEF OInv, HookFresh, SessionFresh, vars
<1>3. ASSUME NEW k \in Kinds, NEW uuid \in 0..uuids, CreateEvent(k, uuid)
      PROVE  OInv'
  <2>1. /\ now' = now + 1
        /\ events' = events \cup {[at |-> now + 1, kind |-> k, uuid |-> uuid]}
        /\ UNCHANGED <<row, hook, session, applied, outdated, lost>>
    BY <1>3 DEF CreateEvent, handlers, writes
  <2>2. now \in Nat /\ \A e \in events : e.at \in Nat
    BY BoundsAssumption DEF OInv, IInv, TypeOK, Event
  <2>3. \A e \in events' : 1 <= e.at /\ e.at <= now'
    BY <2>1, <2>2 DEF OInv
  <2>4. \A w \in Webhooks : HookFresh(w)'
    BY <2>1 DEF OInv, HookFresh
  <2>5. \A u \in Sessions : SessionFresh(u)'
    BY <2>1 DEF OInv, SessionFresh
  <2> QED BY <1>1, <2>1, <2>3, <2>4, <2>5 DEF OInv
<1>4. ASSUME NEW w \in Webhooks, HookStep(w) PROVE OInv'
  <2>1. ASSUME NEW e \in events, Receive(w, e) PROVE OInv'
    BY <1>1, <2>1, ReceiveOInv
  <2>2. CASE IgnoreStale(w) \/ Confirm(w) \/ FailHook(w)
    BY <1>1, <2>2, AnswerOInv DEF IgnoreStale, Confirm, FailHook
  <2>3. CASE Process(w)
    BY <1>1, <2>3, ProcessOInv
  <2>4. CASE SendMail(w)
    BY <1>1, <2>4, ToSaveOInv DEF SendMail
  <2>5. CASE StoreUserInfo(w)
    <3>1. PICK v \in Vies :
            Go(w, "save", [hook[w].row EXCEPT !.flags = (@ \ {"vies"}) \cup v])
      BY <2>5 DEF StoreUserInfo
    <3> DEFINE r == [hook[w].row EXCEPT !.flags = (@ \ {"vies"}) \cup v]
    <3>2. r.last = hook[w].row.last /\ r.uuid = hook[w].row.uuid
      BY DEF OInv, IInv, TypeOK, Hook, Row
    <3>3. Go(w, "save", r)
      BY <3>1
    <3> HIDE DEF r
    <3> QED BY <1>1, <2>5, <3>2, <3>3, ToSaveOInv DEF StoreUserInfo
  <2>6. CASE SaveEvent(w)
    BY <1>1, <2>6, SaveEventOInv
  <2>7. CASE SkipEvent(w)
    BY <1>1, <2>7, SkipEventOInv
  <2> QED BY <1>4, <2>1, <2>2, <2>3, <2>4, <2>5, <2>6, <2>7 DEF HookStep
<1>5. ASSUME NEW u \in Sessions, SessionStep(u) PROVE OInv'
  <2>1. row \in Row
    BY DEF OInv, IInv, TypeOK
  <2>2. ASSUME NEW r, r.last = row.last, r.status = row.status,
               r.uuid = row.uuid, Read(u, r)
        PROVE  OInv'
    BY <1>1, <2>2, ReadOInv
  <2>3. CASE InitSession(u)
    <3> DEFINE r == [row EXCEPT !.flags = @ \cup {"typed"}]
    <3>1. r.last = row.last /\ r.status = row.status /\ r.uuid = row.uuid
      BY <2>1 DEF Row
    <3> QED BY <2>2, <2>3, <3>1 DEF InitSession
  <2>4. CASE ChangeSubscription(u)
    BY <2>2, <2>4 DEF ChangeSubscription
  <2>5. CASE StoreSession(u)
    BY <1>1, <2>5, StoreSessionOInv
  <2>6. CASE FailSession(u)
    <3>1. /\ ~session'[u].open /\ outdated' = outdated \ {u}
          /\ \A v \in Sessions \ {u} : session'[v] = session[v]
          /\ UNCHANGED <<now, events, row, hook, applied, lost>>
      BY <2>6 DEF FailSession, Leave, NoSession, OInv, IInv, TypeOK
    <3>2. \A v \in Webhooks : HookFresh(v)'
      BY <3>1, RequestsAssumption DEF OInv, HookFresh
    <3>3. \A v \in Sessions : SessionFresh(v)'
      BY <3>1 DEF OInv, SessionFresh
    <3> QED BY <1>1, <3>1, <3>2, <3>3 DEF OInv
  <2> QED BY <1>5, <2>3, <2>4, <2>5, <2>6 DEF SessionStep
<1>6. CASE ConfirmEmail
  BY <1>1, <1>6, ConfirmOInv
<1> QED BY <1>2, <1>3, <1>4, <1>5, <1>6 DEF Next

(***************************************************************************)
(* What a request knows of the row it read holds throughout.               *)
(***************************************************************************)
THEOREM Ordered == Spec => []OInv
<1> QED BY InitOInv, NextOInv, PTL DEF Spec

(***************************************************************************)
(* Until somebody overwrites a change he has not seen, events apply in     *)
(* order and once (sumsubService.go:46-50), for any number of events.      *)
(***************************************************************************)
THEOREM EventsInOrder == Spec => AppliedInOrder
<1>1. OInv => [\A w \in Webhooks : SaveEvent(w) /\ ~lost' =>
                 \A e \in applied : e.at < hook[w].event.at]_vars
  <2>1. SUFFICES ASSUME OInv, NEW w \in Webhooks, SaveEvent(w), ~lost'
                 PROVE  \A e \in applied : e.at < hook[w].event.at
    OBVIOUS
  <2>2. hook[w].pc = "save" /\ ~lost /\ w \notin outdated
    BY <2>1 DEF SaveEvent, Write
  <2>3. HookFresh(w)
    BY <2>1 DEF OInv
  <2> QED BY <2>2, <2>3 DEF HookFresh
<1> QED BY <1>1, Ordered, PTL DEF AppliedInOrder

(***************************************************************************)
(* A final rejection is lost only to a reset, to a copy read before        *)
(* another's write, or to a new confirmation of the e-mail, which makes a  *)
(* new applicant (sumsub.go:209-239, accountService.go:127-150).           *)
(***************************************************************************)
THEOREM FinalRejectionsStay == Spec => FinalRejectionStays
<1> DEFINE Stays ==
      row.status = "finalRejected" =>
        \/ row'.status = "finalRejected"
        \/ \E w \in Webhooks : SaveEvent(w) /\ \/ hook[w].event.kind = "reset"
                                               \/ w \in outdated
        \/ \E u \in Sessions : StoreSession(u) /\ u \in outdated
        \/ ConfirmEmail
<1>1. OInv /\ [Next]_vars => [Stays]_vars
  <2>1. SUFFICES ASSUME OInv, Next PROVE Stays
    OBVIOUS
  <2>2. CASE UNCHANGED row
    BY <2>2
  <2>3. ASSUME NEW w \in Webhooks, SaveEvent(w) PROVE Stays
    <3>1. hook[w].pc = "save" /\ HookFresh(w)
      BY <2>1, <2>3 DEF SaveEvent, OInv
    <3>2. row.status = "finalRejected" =>
            hook[w].event.kind = "reset" \/ w \in outdated
      BY <3>1 DEF HookFresh
    <3> QED BY <2>3, <3>2
  <2>4. ASSUME NEW u \in Sessions, StoreSession(u) PROVE Stays
    <3>1. u \in outdated \/ session[u].row.status = row.status
      BY <2>1, <2>4 DEF StoreSession, OInv, SessionFresh
    <3>2. row'.status = session[u].row.status
      BY <2>4 DEF StoreSession, Merge
    <3> QED BY <2>4, <3>1, <3>2
  <2>5. CASE ConfirmEmail
    BY <2>5
  <2>6. \/ UNCHANGED row
        \/ \E w \in Webhooks : SaveEvent(w)
        \/ \E u \in Sessions : StoreSession(u)
        \/ ConfirmEmail
    BY <2>1 DEF Next, HookStep, SessionStep, CreateEvent, Receive, IgnoreStale,
                Process, SendMail, StoreUserInfo, SkipEvent, Confirm, FailHook,
                Read, InitSession, ChangeSubscription, FailSession
  <2> QED BY <2>2, <2>3, <2>4, <2>5, <2>6
<1> QED BY <1>1, Ordered, PTL DEF FinalRejectionStays, Spec

-----------------------------------------------------------------------------
(* LinkPermits: a signature to link nodes is only given to an applicant    *)
(* whose data is stored, whose last applied judgement is green and who was *)
(* not deleted.  The invariant adds to that of the webhooks and sessions   *)
(* which judgement the row and its copies show.                            *)

\* The row has the status that the last of the judgements gave, unless the
\* applicant has started over since.
Latest ==
  \/ row.status = "accCreated"
  \/ \E e \in Judged : /\ At(StatusAfter, e.kind, "") = row.status
                       /\ e.uuid = row.uuid
                       /\ \A d \in Judged : d.at <= e.at

DeletionsKept == \A e \in applied : e.kind = "deleted" => "deleted" \in row.flags

\* What the copy of a webhook is, between its decision and its write.
HookSays(w) ==
  LET h == hook[w] IN
  /\ w \notin outdated =>
       /\ h.pc = "received" => h.row.status = row.status
       /\ h.pc \in {"mail", "client", "save"} =>
            h.row.status = At(StatusAfter, h.event.kind, row.status)
  /\ h.pc \in {"mail", "client", "save"} /\ h.event.kind = "deleted" =>
       "deleted" \in h.row.flags

PInv ==
  /\ OInv
  /\ ~lost => Latest
  /\ DeletionsKept
  /\ \A w \in Webhooks : HookSays(w)

LEMMA JudgedKinds ==
  DOMAIN StatusAfter = {"green", "red", "final", "reset", "progress"}
BY DEF StatusAfter

LEMMA InitPInv == Init => PInv
<1> SUFFICES ASSUME Init PROVE PInv OBVIOUS
<1>1. \A w \in Webhooks : HookSays(w)
  BY DEF Init, NoHook, HookSays
<1>2. row.status = "accCreated" /\ applied = {}
  BY DEF Init, NoRow
<1> QED BY <1>1, <1>2, InitOInv DEF PInv, Latest, Judged, DeletionsKept

\* A step that writes nothing, and that only webhook w takes part in.
LEMMA HookStepPInv ==
  ASSUME PInv, OInv', NEW w, HookSays(w)',
         \A v \in Webhooks \ {w} : hook'[v] = hook[v],
         UNCHANGED <<row, applied, lost>>, outdated \ {w} \subseteq outdated'
  PROVE  PInv'
<1>1. ASSUME NEW v \in Webhooks, v # w PROVE HookSays(v)'
  <2>1. HookSays(v) /\ hook'[v] = hook[v] /\ (v \in outdated => v \in outdated')
    BY <1>1 DEF PInv
  <2> QED BY <2>1 DEF HookSays
<1>2. (~lost => Latest)' /\ DeletionsKept'
  BY DEF PInv, Latest, Judged, DeletionsKept
<1> QED BY <1>1, <1>2 DEF PInv

\* A request writes the row: whoever else is busy has an old copy now.
LEMMA WritePInv ==
  ASSUME PInv, OInv', NEW x \in Webhooks \cup Sessions, Write(x),
         \A v \in Webhooks \ {x} : hook'[v] = hook[v],
         x \in Webhooks => hook'[x].pc \in {"idle", "confirm"},
         (~lost => Latest)', DeletionsKept'
  PROVE  PInv'
<1>1. ASSUME NEW v \in Webhooks PROVE HookSays(v)'
  <2>1. CASE v = x
    BY <2>1 DEF HookSays
  <2>2. CASE v # x
    <3>1. hook'[v].pc = "idle" \/ v \in outdated'
      BY <2>2 DEF Write, Busy
    <3>2. HookSays(v) /\ hook'[v] = hook[v]
      BY <2>2 DEF PInv
    <3> QED BY <3>1, <3>2 DEF HookSays
  <2> QED BY <2>1, <2>2
<1> QED BY <1>1 DEF PInv

LEMMA ReceivePInv ==
  ASSUME PInv, OInv', NEW w \in Webhooks, NEW e \in events, Receive(w, e)
  PROVE  PInv'
<1>1. /\ UNCHANGED <<row, applied, lost, outdated>>
      /\ \A v \in Webhooks \ {w} : hook'[v] = hook[v]
  BY DEF Receive, writes, PInv, OInv, IInv, TypeOK
<1>2. HookSays(w)'
  <2>1. CASE UNCHANGED hook
    BY <1>1, <2>1 DEF PInv, HookSays
  <2>2. CASE hook' = [hook EXCEPT ![w] = [pc |-> "received", event |-> e,
                                          row |-> row]]
    <3>1. hook'[w] = [pc |-> "received", event |-> e, row |-> row]
      BY <2>2 DEF PInv, OInv, IInv, TypeOK
    <3> QED BY <1>1, <3>1 DEF HookSays
  <2> QED BY <2>1, <2>2 DEF Receive
<1> QED BY <1>1, <1>2, HookStepPInv

\* A webhook that is over, or only waits for its last e-mail.
LEMMA AnswerPInv ==
  ASSUME PInv, OInv', NEW w \in Webhooks, Answer(w), Leave(w),
         UNCHANGED <<row, applied>>
  PROVE  PInv'
<1>1. /\ hook'[w].pc = "idle"
      /\ \A v \in Webhooks \ {w} : hook'[v] = hook[v]
  BY DEF Answer, NoHook, PInv, OInv, IInv, TypeOK
<1>2. HookSays(w)'
  BY <1>1 DEF HookSays
<1>3. UNCHANGED lost /\ outdated \ {w} \subseteq outdated'
  BY DEF Leave
<1> QED BY <1>1, <1>2, <1>3, HookStepPInv

LEMMA ProcessPInv ==
  ASSUME PInv, OInv', NEW w \in Webhooks, Process(w)
  PROVE  PInv'
<1> DEFINE h == hook[w]
           r == Changed(h.row, h.event, now)
<1>1. /\ h.pc = "received" /\ Go(w, StepAfter(h.event.kind), r)
      /\ UNCHANGED <<row, applied, lost, outdated>>
  BY DEF Process, writes
<1>2. /\ h.row \in Row /\ h.event \in Event /\ now \in 0..MaxTime
  BY <1>1 DEF PInv, OInv, IInv, TypeOK, Hook
<1>3. r.status = At(StatusAfter, h.event.kind, h.row.status)
  BY <1>2, ChangedRow
<1>4. h.event.kind = "deleted" => "deleted" \in r.flags
  BY <1>2 DEF Changed, Row, At, Raises, Lowers
<1> HIDE DEF r
<1>5. /\ hook'[w].row = r /\ hook'[w].event = h.event
      /\ hook'[w].pc \in {"mail", "client", "save"}
      /\ \A v \in Webhooks \ {w} : hook'[v] = hook[v]
  BY <1>1, GoneOn DEF PInv, OInv, IInv, StepAfter
<1>6. w \notin outdated => h.row.status = row.status
  BY <1>1 DEF PInv, HookSays
<1>7. HookSays(w)'
  BY <1>1, <1>3, <1>4, <1>5, <1>6 DEF HookSays
<1> QED BY <1>1, <1>5, <1>7, HookStepPInv

\* A webhook that goes on to store what it has; only its company's flag may
\* change.
LEMMA ToSavePInv ==
  ASSUME PInv, OInv', NEW w \in Webhooks, NEW r, Go(w, "save", r),
         hook[w].pc \in {"mail", "client"}, r.status = hook[w].row.status,
         "deleted" \in hook[w].row.flags => "deleted" \in r.flags,
         UNCHANGED <<row, applied, lost, outdated>>
  PROVE  PInv'
<1>1. /\ hook'[w].pc = "save" /\ hook'[w].row = r
      /\ hook'[w].event = hook[w].event
      /\ \A v \in Webhooks \ {w} : hook'[v] = hook[v]
  BY GoneOn DEF PInv, OInv, IInv
<1>2. HookSays(w)
  BY DEF PInv
<1>3. HookSays(w)'
  BY <1>1, <1>2 DEF HookSays
<1> QED BY <1>1, <1>3, HookStepPInv

\* The event that is written is later than all before it, unless a write is
\* lost.
LEMMA SaveEventPInv ==
  ASSUME PInv, OInv', NEW w \in Webhooks, SaveEvent(w)
  PROVE  PInv'
<1> DEFINE h == hook[w]
<1>1. /\ h.pc = "save" /\ row' = Merge(h.row) /\ Write(w)
      /\ applied' = applied \cup {h.event}
  BY DEF SaveEvent
<1>2. /\ h.row \in Row /\ h.event \in Event /\ applied \subseteq Event
      /\ row \in Row /\ HookSays(w) /\ HookFresh(w) /\ TypeOK
      /\ h.row.uuid = h.event.uuid
  BY <1>1 DEF PInv, OInv, IInv, TypeOK, Hook, HookInv
<1>3. /\ row'.status = h.row.status /\ row'.uuid = h.row.uuid
      /\ row.flags \cup h.row.flags \subseteq row'.flags
  BY <1>1, <1>2 DEF Merge, Row
<1>4. /\ hook'[w].pc \in {"idle", "confirm"}
      /\ \A v \in Webhooks \ {w} : hook'[v] = hook[v]
  BY <1>2, GoneOn DEF SaveEvent, AfterSave, Answer, NoHook, TypeOK
<1>5. DeletionsKept'
  BY <1>1, <1>2, <1>3 DEF PInv, DeletionsKept, HookSays
<1>6. ASSUME ~lost' PROVE Latest'
  <2>1. ~lost /\ w \notin outdated
    BY <1>1, <1>6 DEF Write
  <2>2. /\ h.row.status = At(StatusAfter, h.event.kind, row.status)
        /\ \A d \in applied : d.at < h.event.at
        /\ h.row.uuid = row.uuid /\ Latest
    BY <1>1, <1>2, <2>1 DEF PInv, HookSays, HookFresh
  <2>3. h.event.kind \in AllKinds /\ h.event.at \in Nat
    BY <1>2 DEF Event
  <2>4. CASE h.event.kind \in DOMAIN StatusAfter
    <3>1. h.event \in Judged'
      BY <1>1, <2>4 DEF Judged
    <3>2. At(StatusAfter, h.event.kind, "") = row'.status
      BY <1>3, <2>2, <2>4 DEF At
    <3>3. ASSUME NEW d \in Judged' PROVE d.at <= h.event.at
      BY <1>1, <1>2, <2>2, <2>3 DEF Judged, Event
    <3> QED BY <1>2, <1>3, <3>1, <3>2, <3>3 DEF Latest
  <2>5. CASE h.event.kind \notin DOMAIN StatusAfter
    <3>1. Judged' = Judged
      BY <1>1, <2>5 DEF Judged
    <3>2. row'.status = row.status /\ row'.uuid = row.uuid
      BY <1>3, <2>2, <2>5 DEF At
    <3> QED BY <2>2, <3>1, <3>2 DEF Latest
  <2> QED BY <2>4, <2>5
<1>7. w \notin Sessions
  BY RequestsAssumption
<1> QED BY <1>1, <1>4, <1>5, <1>6, <1>7, WritePInv

LEMMA StoreSessionPInv ==
  ASSUME PInv, OInv', NEW u \in Sessions, StoreSession(u)
  PROVE  PInv'
<1>1. /\ session[u].open /\ row' = Merge(session[u].row) /\ Write(u)
      /\ UNCHANGED <<hook, applied>>
  BY DEF StoreSession
<1>2. /\ row'.status = session[u].row.status
      /\ row'.uuid = session[u].row.uuid /\ row.flags \subseteq row'.flags
  BY <1>1 DEF Merge
<1>3. DeletionsKept'
  BY <1>1, <1>2 DEF PInv, DeletionsKept
<1>4. ASSUME ~lost' PROVE Latest'
  <2>1. ~lost /\ u \notin outdated
    BY <1>1, <1>4 DEF Write
  <2>2. /\ session[u].row.status = row.status
        /\ session[u].row.uuid = row.uuid /\ Latest
    BY <1>1, <2>1 DEF PInv, OInv, SessionFresh
  <2> QED BY <1>1, <1>2, <2>2 DEF Latest, Judged
<1>5. u \notin Webhooks
  BY RequestsAssumption
<1> QED BY <1>1, <1>3, <1>4, <1>5, WritePInv

LEMMA SkipEventPInv ==
  ASSUME PInv, OInv', NEW w \in Webhooks, SkipEvent(w)
  PROVE  PInv'
<1>1. Leave(w) /\ UNCHANGED <<row, applied>>
  BY DEF SkipEvent
<1>2. /\ hook'[w].pc \in {"idle", "confirm"}
      /\ \A v \in Webhooks \ {w} : hook'[v] = hook[v]
  BY GoneOn
     DEF SkipEvent, AfterSave, Answer, NoHook, PInv, OInv, IInv, TypeOK
<1>3. HookSays(w)'
  BY <1>2 DEF HookSays
<1>4. UNCHANGED lost /\ outdated \ {w} \subseteq outdated'
  BY <1>1 DEF Leave
<1> QED BY <1>1, <1>2, <1>3, <1>4, HookStepPInv

LEMMA ConfirmPInv ==
  ASSUME PInv, OInv', ConfirmEmail
  PROVE  PInv'
<1>1. outdated' = Busy /\ UNCHANGED <<hook, applied>>
  BY DEF ConfirmEmail, handlers
<1>2. row'.status = "accCreated" /\ row'.flags = row.flags
  BY DEF ConfirmEmail, PInv, OInv, IInv, TypeOK, Row
<1>3. Latest' /\ DeletionsKept'
  BY <1>1, <1>2 DEF PInv, Latest, DeletionsKept
<1>4. ASSUME NEW w \in Webhooks PROVE HookSays(w)'
  <2>1. hook'[w] = hook[w] /\ HookSays(w)
    BY <1>1 DEF PInv
  <2>2. hook[w].pc = "idle" \/ w \in outdated'
    BY <1>1 DEF Busy
  <2> QED BY <2>1, <2>2 DEF HookSays
<1> QED BY <1>3, <1>4 DEF PInv

LEMMA NextPInv == PInv /\ [Next]_vars => PInv'
<1> SUFFICES ASSUME PInv, [Next]_vars PROVE PInv' OBVIOUS
<1>1. OInv'
  BY NextOInv DEF PInv
<1>2. ASSUME UNCHANGED <<row, applied, lost, hook>>, outdated \subseteq outdated'
      PROVE  PInv'
  <2>1. (~lost => Latest)' /\ DeletionsKept'
    BY <1>2 DEF PInv, Latest, Judged, DeletionsKept
  <2>2. \A w \in Webhooks : HookSays(w)'
    BY <1>2 DEF PInv, HookSays
  <2> QED BY <1>1, <2>1, <2>2 DEF PInv
<1>3. CASE UNCHANGED vars
  BY <1>2, <1>3 DEF vars
<1>4. ASSUME NEW k \in Kinds, NEW uuid \in 0..uuids, CreateEvent(k, uuid)
      PROVE  PInv'
  BY <1>2, <1>4 DEF CreateEvent, handlers, writes
<1>5. ASSUME NEW w \in Webhooks, HookStep(w) PROVE PInv'
  <2>1. ASSUME NEW e \in events, Receive(w, e) PROVE PInv'
    BY <1>1, <2>1, ReceivePInv
  <2>2. CASE IgnoreStale(w) \/ Confirm(w) \/ FailHook(w)
    BY <1>1, <2>2, AnswerPInv DEF IgnoreStale, Confirm, FailHook
  <2>3. CASE Process(w)
    BY <1>1, <2>3, ProcessPInv
  <2>4. CASE SendMail(w)
    BY <1>1, <2>4, ToSavePInv DEF SendMail, writes
  <2>5. CASE StoreUserInfo(w)
    <3>1. PICK v \in Vies :
            Go(w, "save", [hook[w].row EXCEPT !.flags = (@ \ {"vies"}) \cup v])
      BY <2>5 DEF StoreUserInfo
    <3> DEFINE r == [hook[w].row EXCEPT !.flags = (@ \ {"vies"}) \cup v]
    <3>2. /\ r.status = hook[w].row.status
          /\ "deleted" \in hook[w].row.flags => "deleted" \in r.flags
      BY DEF PInv, OInv, IInv, TypeOK, Hook, Row
    <3>3. Go(w, "save", r)
      BY <3>1
    <3> HIDE DEF r
    <3> QED BY <1>1, <2>5, <3>2, <3>3, ToSavePInv DEF StoreUserInfo, writes
  <2>6. CASE SaveEvent(w)
    BY <1>1, <2>6, SaveEventPInv
  <2>7. CASE SkipEvent(w)
    BY <1>1, <2>7, SkipEventPInv
  <2> QED BY <1>5, <2>1, <2>2, <2>3, <2>4, <2>5, <2>6, <2>7 DEF HookStep
<1>6. ASSUME NEW u \in Sessions, SessionStep(u) PROVE PInv'
  <2>1. ASSUME NEW r, Read(u, r) PROVE PInv'
    BY <1>2, <2>1 DEF Read, writes
  <2>2. CASE InitSession(u) \/ ChangeSubscription(u)
    BY <2>1, <2>2 DEF InitSession, ChangeSubscription
  <2>3. CASE StoreSession(u)
    BY <1>1, <2>3, StoreSessionPInv
  <2>4. CASE FailSession(u)
    <3>1. /\ UNCHANGED <<row, applied, lost, hook>>
          /\ outdated' = outdated \ {u} /\ u \notin Webhooks
          /\ UNCHANGED lost
      BY <2>4, RequestsAssumption DEF FailSession, Leave
    <3>2. (~lost => Latest)' /\ DeletionsKept'
      <4>1. UNCHANGED row /\ UNCHANGED applied /\ UNCHANGED lost
        BY <3>1
      <4>2. DeletionsKept'
        BY <4>1 DEF PInv, DeletionsKept
      <4>3. Latest' <=> Latest
        BY <4>1 DEF Latest, Judged
      <4>4. lost' <=> lost
        BY <4>1
      <4> QED BY <4>2, <4>3, <4>4 DEF PInv
    <3>3. ASSUME NEW v \in Webhooks PROVE HookSays(v)'
      <4>1. HookSays(v) /\ (v \in outdated => v \in outdated')
        BY <3>1 DEF PInv
      <4> QED BY <3>1, <4>1 DEF HookSays
    <3> QED BY <1>1, <3>2, <3>3 DEF PInv
  <2> QED BY <1>6, <2>2, <2>3, <2>4 DEF SessionStep
<1>7. CASE ConfirmEmail
  BY <1>1, <1>7, ConfirmPInv
<1> QED BY <1>3, <1>4, <1>5, <1>6, <1>7 DEF Next

-----------------------------------------------------------------------------
(***************************************************************************)
(* The handlers that give signatures leave the applicant's row as the      *)
(* webhooks and sessions make it: every theorem about KycEvents holds.     *)
(***************************************************************************)
THEOREM LinksOnlyRead == LinkSpec => Spec
<1>1. LinkInit => Init
  BY DEF LinkInit
<1>2. [LinkNext]_linkVars => [Next]_vars
  BY DEF LinkNext, LinkNode, SignLink, linkVars
<1> QED BY <1>1, <1>2, PTL DEF LinkSpec, Spec

(***************************************************************************)
(* The types of the row, of the copies and of what was linked.             *)
(***************************************************************************)
THEOREM LinkTypeCorrect == LinkSpec => []LinkTypeOK
<1>1. LinkInit => linked \in BOOLEAN
  BY ZenonT(20) DEF LinkInit
<1>2. linked \in BOOLEAN /\ [LinkNext]_linkVars => (linked \in BOOLEAN)'
  <2>1. CASE UNCHANGED linked
    BY <2>1
  <2>2. CASE linked' = TRUE
    BY <2>2, ZenonT(20)
  <2> QED BY <2>1, <2>2 DEF LinkNext, LinkNode, SignLink, linkVars
<1>3. LinkSpec => [](linked \in BOOLEAN)
  BY <1>1, <1>2, PTL DEF LinkSpec
<1> QED BY <1>3, LinksOnlyRead, TypeCorrect, PTL DEF LinkTypeOK

(***************************************************************************)
(* Whatever Sumsub repeats, delays or reorders, a signature is only given  *)
(* to an applicant whose last judgement is an approval, whose data is      *)
(* stored and who was never deleted (license.go:122-132, 380-390).         *)
(***************************************************************************)
THEOREM LinksDue == LinkSpec => LinksAreDue
<1> DEFINE Due ==
      /\ userInfo
      /\ \E e \in Judged : /\ e.kind = "green" /\ e.uuid = row.uuid
                           /\ lost \/ \A d \in Judged : d.at <= e.at
      /\ \A e \in applied : e.kind # "deleted"
<1>1. ASSUME PInv, LinkNode PROVE Due
  <2>1. row.status = "approved" /\ "deleted" \notin row.flags
    BY <1>1 DEF LinkNode, MayLink
  <2>2. userInfo /\ \A e \in applied : e.kind # "deleted"
    BY <1>1, <2>1 DEF PInv, OInv, IInv, Backed, DeletionsKept
  <2>3. ASSUME NEW e \in applied, At(StatusAfter, e.kind, "") = "approved"
        PROVE  e.kind = "green" /\ e \in Judged
    <3>1. e.kind \in AllKinds
      BY <1>1 DEF PInv, OInv, IInv, TypeOK, Event
    <3>2. e.kind = "green"
      BY <2>3, <3>1 DEF At, StatusAfter, AllKinds
    <3> QED BY <3>2, JudgedKinds DEF Judged
  <2>4. CASE lost
    <3>1. PICK e \in applied : /\ At(StatusAfter, e.kind, "") = "approved"
                               /\ e.uuid = row.uuid
      BY <1>1, <2>1 DEF PInv, OInv, IInv, Caused
    <3> QED BY <2>2, <2>3, <2>4, <3>1
  <2>5. CASE ~lost
    <3>1. PICK e \in Judged : /\ At(StatusAfter, e.kind, "") = "approved"
                              /\ e.uuid = row.uuid
                              /\ \A d \in Judged : d.at <= e.at
      BY <1>1, <2>1, <2>5 DEF PInv, Latest
    <3> QED BY <2>2, <2>3, <3>1 DEF Judged
  <2> QED BY <2>4, <2>5
<1>2. PInv => [LinkNode => Due]_linkVars
  BY <1>1
<1>3. LinkSpec => []PInv
  BY InitPInv, NextPInv, LinksOnlyRead, PTL DEF Spec
<1> QED BY <1>2, <1>3, PTL DEF LinksAreDue
=============================================================================
