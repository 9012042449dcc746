--------------------------- MODULE MonthlyDrafts ---------------------------
(***************************************************************************)
(* The monthly invoice drafts (service/monthlyPoaiInvoiceService.go,       *)
(* MonthlyPoaiInvoiceReport).                                              *)
(*                                                                         *)
(* On the first day of a month the cron of every server named in the       *)
(* configuration starts the job once, at an hour of its own                *)
(* (config.mainnet.json:107-114).  A run takes the previous month's        *)
(* allocations that no draft has claimed, groups them by node owner and    *)
(* CSP owner, and for each group writes its draft's id into the            *)
(* allocations, then the owner's next invoice number, then the draft: each *)
(* a write of its own, with no transaction around them.  A run may last    *)
(* until the next server's, or the next month's, has begun                 *)
(* (cmd/main.go:102-110 has no SkipIfStillRunning), so a run is an         *)
(* execution here and not a server.                                        *)
(*                                                                         *)
(* The node owner may change his preferences while all this goes on, and   *)
(* sends whatever next number he likes; the other columns, which the job   *)
(* only copies into the draft, are left out.  Amounts are one unit per     *)
(* allocation.                                                             *)
(***************************************************************************)
EXTENDS Integers, FiniteSets

CONSTANTS
  Runs,        \* executions of the job that may be in progress at once
  Owners,      \* node owners; one may be a CSP owner too
  CspOwners,   \* CSP owners
  Editors,     \* node owners who change their preferences
  Typed,       \* next numbers that owners send
  Firings,     \* servers whose cron starts the job on the first of a month
  Copies,      \* bound: allocations of a pair of owners in a month
  MaxMonth,    \* bound: months
  MaxFaults    \* bound: errors and crashes

ASSUME EditorsAssumption == Editors \subseteq Owners

ASSUME TypedAssumption == Typed \subseteq Int

ASSUME BoundsAssumption ==
  /\ Firings \in Nat
  /\ Copies \in Nat
  /\ MaxMonth \in Nat \ {0}
  /\ MaxFaults \in Nat

VARIABLES
  month,       \* the current month
  fired,       \* times the job has been started in this month, or missed
  allocations, \* table allocations
  draftOf,     \* its column draft_id, 0 for NULL
  preference,  \* table preferences, by user_address
  overwritten, \* owners whose row a run saved from an outdated copy
  lowered,     \* owners who have lowered their next number
  drafts,      \* table invoice_drafts
  ids,         \* draft ids given out so far
  run,         \* the executions, with their local variables
  mailed,      \* drafts attached to an e-mail
  unsent,      \* drafts whose e-mail failed, or whose run ended before it
  givenUp,     \* ids of drafts that a run failed to store
  faults       \* errors and crashes so far

\* overwritten, lowered, unsent and givenUp are history, for the properties.
calendar == <<month, fired>>
owners == <<preference, overwritten, lowered>>
mails == <<mailed, unsent>>
vars == <<month, fired, allocations, draftOf, preference, overwritten,
          lowered, drafts, ids, run, mailed, unsent, givenUp, faults>>

\* Those of the last month are left out: no draft is ever due for them.
Allocation == [owner : Owners, csp : CspOwners, month : 1..(MaxMonth - 1),
               copy : 1..Copies]

Preference == [stored : BOOLEAN, next : Int]

\* No row: the job then counts from 1.
NoPreference == [stored |-> FALSE, next |-> 1]

\* items are the allocations that went into TotalUsdcAmount.
Draft == [id : Nat \ {0}, owner : Owners, csp : CspOwners, number : Int,
          items : SUBSET Allocation]

Phases == {"idle", "groups", "claim", "number", "draft"}

Run == [phase : Phases, batch : SUBSET Allocation, items : SUBSET Allocation,
        todo : SUBSET Allocation, id : Nat, next : Int,
        made : SUBSET Draft]

Idle == [phase |-> "idle", batch |-> {}, items |-> {}, todo |-> {}, id |-> 0,
         next |-> 1, made |-> {}]

TypeOK ==
  /\ month \in 1..MaxMonth
  /\ fired \in 0..Firings
  /\ allocations \subseteq Allocation
  /\ draftOf \in [Allocation -> Nat]
  /\ preference \in [Owners -> Preference]
  /\ overwritten \subseteq Owners
  /\ lowered \subseteq Owners
  /\ drafts \subseteq Draft
  /\ ids \in Nat
  /\ run \in [Runs -> Run]
  /\ mailed \subseteq Draft
  /\ unsent \subseteq Draft
  /\ givenUp \subseteq 1..ids
  /\ faults \in 0..MaxFaults

\* No allocation is due in the first month: its firings are over.
Init ==
  /\ month = 1
  /\ fired = Firings
  /\ allocations = {}
  /\ draftOf = [a \in Allocation |-> 0]
  /\ preference = [o \in Owners |-> NoPreference]
  /\ overwritten = {}
  /\ lowered = {}
  /\ drafts = {}
  /\ ids = 0
  /\ run = [r \in Runs |-> Idle]
  /\ mailed = {}
  /\ unsent = {}
  /\ givenUp = {}
  /\ faults = 0

-----------------------------------------------------------------------------
(* The calendar, and the job that fills the table (DailyStats).            *)

\* A month does not end before its first day.
NextMonth ==
  /\ month < MaxMonth
  /\ fired = Firings
  /\ month' = month + 1
  /\ fired' = 0
  /\ UNCHANGED <<allocations, draftOf, owners, drafts, ids, run, mails,
                 givenUp, faults>>

\* CreateAllocation; an allocation may come after the end of its month.
StoreAllocation(a) ==
  /\ a.month <= month
  /\ allocations' = allocations \cup {a}
  /\ UNCHANGED <<calendar, draftOf, owners, drafts, ids, run, mails, givenUp,
                 faults>>

-----------------------------------------------------------------------------
(* The node owner (createPreferences, changePreferences).                  *)

\* A new row's zero becomes the column's default.
Inserted(n) == IF n = 0 THEN 1 ELSE n

CreatePreference(o, n) ==
  /\ ~preference[o].stored
  /\ preference' = [preference EXCEPT ![o] = [stored |-> TRUE,
                                             next |-> Inserted(n)]]
  /\ UNCHANGED <<calendar, allocations, draftOf, overwritten, lowered, drafts,
                 ids, run, mails, givenUp, faults>>

\* The whole row is saved as the owner sends it, and made if it is missing.
ChangePreference(o, n) ==
  /\ preference' = [preference EXCEPT ![o] =
                      [stored |-> TRUE,
                       next |-> IF preference[o].stored THEN n
                                ELSE Inserted(n)]]
  /\ lowered' = IF preference[o].stored /\ n < preference[o].next
                THEN lowered \cup {o} ELSE lowered
  /\ UNCHANGED <<calendar, allocations, draftOf, overwritten, drafts, ids, run,
                 mails, givenUp, faults>>

-----------------------------------------------------------------------------
(* The job.                                                                *)

Step(r, locals) == run' = [run EXCEPT ![r] = locals]

\* Faulty variant of Unclaimed: the claimed ones are not left out.
OfLastMonth == {a \in allocations : a.month + 1 = month}

\* GetMonthlyUnclaimedAllocations.
Unclaimed == {a \in allocations : a.month + 1 = month /\ draftOf[a] = 0}

\* Faulty variant of Start: a month with a draft counts as done.
StartOncePerMonth(r) ==
  /\ run[r].phase = "idle"
  /\ fired < Firings
  /\ fired' = fired + 1
  /\ LET done == \E d \in drafts : \E a \in d.items : a.month + 1 = month IN
     \/ (Unclaimed = {} \/ done) /\ UNCHANGED run
     \/ /\ Unclaimed # {} /\ ~done
        /\ Step(r, [Idle EXCEPT !.phase = "groups", !.batch = Unclaimed])
  /\ UNCHANGED <<month, allocations, draftOf, owners, drafts, ids, mails,
                 givenUp, faults>>

\* With nothing to do the run is over at once.
Start(r) ==
  /\ run[r].phase = "idle"
  /\ fired < Firings
  /\ fired' = fired + 1
  /\ \/ Unclaimed = {} /\ UNCHANGED run
     \/ /\ Unclaimed # {}
        /\ Step(r, [Idle EXCEPT !.phase = "groups", !.batch = Unclaimed])
  /\ UNCHANGED <<month, allocations, draftOf, owners, drafts, ids, mails,
                 givenUp, faults>>

\* At its hour the server is down, or the rows or the rates cannot be read.
MissFiring ==
  /\ fired < Firings
  /\ fired' = fired + 1
  /\ faults < MaxFaults
  /\ faults' = faults + 1
  /\ UNCHANGED <<month, allocations, draftOf, owners, drafts, ids, run, mails,
                 givenUp>>

\* reports[formKey(UserAddress, CspOwner)].
Group(S, a) == {b \in S : b.owner = a.owner /\ b.csp = a.csp}

\* A node owner who is his own CSP gets a draft without a number.
IsOwn(items) == \A a \in items : a.owner = a.csp

OwnerOf(items) == (CHOOSE a \in items : TRUE).owner
CspOf(items) == (CHOOSE a \in items : TRUE).csp

\* Faulty variant of TakeGroup: the first draft's id is kept.
TakeGroupSameId(r) ==
  /\ run[r].phase = "groups"
  /\ ids' = ids + 1
  /\ \E a \in run[r].batch :
       LET items == Group(run[r].batch, a) IN
       Step(r, [run[r] EXCEPT
                  !.phase = "claim", !.batch = @ \ items,
                  !.items = items, !.todo = items,
                  !.id = IF @ = 0 THEN ids + 1 ELSE @,
                  !.next = preference[a.owner].next])
  /\ UNCHANGED <<calendar, allocations, draftOf, owners, drafts, mails, givenUp,
                 faults>>

\* A group is taken, in the order of a Go map, and its preference is read.
TakeGroup(r) ==
  /\ run[r].phase = "groups"
  /\ ids' = ids + 1
  /\ \E a \in run[r].batch :
       LET items == Group(run[r].batch, a) IN
       Step(r, [run[r] EXCEPT
                  !.phase = "claim", !.batch = @ \ items,
                  !.items = items, !.todo = items, !.id = ids + 1,
                  !.next = preference[a.owner].next])
  /\ UNCHANGED <<calendar, allocations, draftOf, owners, drafts, mails, givenUp,
                 faults>>

\* The preference cannot be read: the group is left for a later run.
SkipGroup(r) ==
  /\ run[r].phase = "groups"
  /\ faults < MaxFaults
  /\ faults' = faults + 1
  /\ \E a \in run[r].batch :
       Step(r, [run[r] EXCEPT !.batch = @ \ Group(@, a)])
  /\ UNCHANGED <<calendar, allocations, draftOf, owners, drafts, ids, mails,
                 givenUp>>

\* UpdateAllocation, which saves whatever the allocation says by now.
Claim(r) ==
  /\ run[r].phase = "claim"
  /\ \E a \in run[r].todo :
       /\ draftOf' = [draftOf EXCEPT ![a] = run[r].id]
       /\ Step(r, [run[r] EXCEPT
                     !.todo = @ \ {a},
                     !.phase = IF run[r].todo = {a} THEN "number" ELSE "claim"])
  /\ UNCHANGED <<calendar, allocations, owners, drafts, ids, mails, givenUp,
                 faults>>

\* Faulty variant of StoreNumber: the raised number is not saved.
StoreNoNumber(r) ==
  /\ run[r].phase = "number"
  /\ Step(r, [run[r] EXCEPT !.phase = "draft"])
  /\ UNCHANGED <<calendar, allocations, draftOf, owners, drafts, ids, mails,
                 givenUp, faults>>

\* UpdatePreference saves the copy read before the claims.
StoreNumber(r) ==
  /\ run[r].phase = "number"
  /\ \/ IsOwn(run[r].items) /\ UNCHANGED <<preference, overwritten>>
     \/ /\ ~IsOwn(run[r].items)
        /\ LET o == OwnerOf(run[r].items) IN
           /\ preference' = [preference EXCEPT ![o] =
                               [stored |-> TRUE, next |-> run[r].next + 1]]
           /\ overwritten' = IF run[r].next = preference[o].next
                             THEN overwritten ELSE overwritten \cup {o}
  /\ Step(r, [run[r] EXCEPT !.phase = "draft"])
  /\ UNCHANGED <<calendar, allocations, draftOf, lowered, drafts, ids, mails,
                 givenUp, faults>>

DraftFor(r) ==
  [id |-> run[r].id, owner |-> OwnerOf(run[r].items),
   csp |-> CspOf(run[r].items), items |-> run[r].items,
   number |-> IF IsOwn(run[r].items) THEN 0 ELSE run[r].next]

\* Faulty variant of StoreDraft: the draft is not kept for the e-mails.
StoreDraftUnannounced(r) ==
  /\ run[r].phase = "draft"
  /\ drafts' = drafts \cup {DraftFor(r)}
  /\ Step(r, [run[r] EXCEPT !.phase = "groups"])
  /\ UNCHANGED <<calendar, allocations, draftOf, owners, ids, mails, givenUp,
                 faults>>

\* Faulty variant of StoreDraft: own nodes need no draft.
StoreDraftUnlessOwn(r) ==
  /\ run[r].phase = "draft"
  /\ drafts' = drafts \cup (IF IsOwn(run[r].items) THEN {} ELSE {DraftFor(r)})
  /\ Step(r, [run[r] EXCEPT !.phase = "groups",
                            !.made = @ \cup {DraftFor(r)}])
  /\ UNCHANGED <<calendar, allocations, draftOf, owners, ids, mails, givenUp,
                 faults>>

StoreDraft(r) ==
  /\ run[r].phase = "draft"
  /\ drafts' = drafts \cup {DraftFor(r)}
  /\ Step(r, [run[r] EXCEPT !.phase = "groups",
                            !.made = @ \cup {DraftFor(r)}])
  /\ UNCHANGED <<calendar, allocations, draftOf, owners, ids, mails, givenUp,
                 faults>>

\* The insert fails and the run goes on with the next group.
LoseDraft(r) ==
  /\ run[r].phase = "draft"
  /\ faults < MaxFaults
  /\ faults' = faults + 1
  /\ givenUp' = givenUp \cup {run[r].id}
  /\ Step(r, [run[r] EXCEPT !.phase = "groups"])
  /\ UNCHANGED <<calendar, allocations, draftOf, owners, drafts, ids, mails>>

\* The allocations that the document of draft d lists.
Claims(d) == {a \in allocations : draftOf[a] = d.id}

\* The drafts that an e-mail is due for, and those of them whose owner gets
\* it: none of his documents may be empty.
Due(r) == {d \in run[r].made : d.owner # d.csp}
Announced(r) ==
  {d \in Due(r) : \A e \in Due(r) : e.owner = d.owner => Claims(e) # {}}

\* An error of an e-mail is not looked at.
SendMails(r) ==
  /\ run[r].phase = "groups"
  /\ run[r].batch = {}
  /\ \/ mailed' = mailed \cup Announced(r) /\ UNCHANGED <<unsent, faults>>
     \/ /\ faults < MaxFaults
        /\ faults' = faults + 1
        /\ \E S \in SUBSET Announced(r) :
             /\ mailed' = mailed \cup S
             /\ unsent' = unsent \cup (Announced(r) \ S)
  /\ Step(r, Idle)
  /\ UNCHANGED <<calendar, allocations, draftOf, owners, drafts, ids, givenUp>>

\* A write fails and the run returns, or the process dies.
Fail(r) ==
  /\ run[r].phase # "idle"
  /\ faults < MaxFaults
  /\ faults' = faults + 1
  /\ \/ run[r].phase = "groups" /\ UNCHANGED givenUp
     \/ run[r].phase # "groups" /\ givenUp' = givenUp \cup {run[r].id}
  /\ unsent' = unsent \cup run[r].made
  /\ Step(r, Idle)
  /\ UNCHANGED <<calendar, allocations, draftOf, owners, drafts, ids, mailed>>

-----------------------------------------------------------------------------
JobStep(r) ==
  \/ TakeGroup(r) \/ Claim(r) \/ StoreNumber(r) \/ StoreDraft(r)
  \/ SendMails(r)

Next ==
  \/ NextMonth
  \/ \E a \in Allocation \ allocations : StoreAllocation(a)
  \/ \E o \in Owners, n \in Typed : CreatePreference(o, n)
  \/ \E o \in Editors, n \in Typed : ChangePreference(o, n)
  \/ MissFiring
  \/ \E r \in Runs : \/ Start(r) \/ JobStep(r)
                     \/ SkipGroup(r) \/ LoseDraft(r) \/ Fail(r)

Spec == Init /\ [][Next]_vars

\* A month does not pass without its first day's hours, at each of which the
\* job is started or the start is missed, and a run that meets no error goes
\* on.  Nothing is assumed of the calendar, the daily job or the owners.
FairSpec ==
  Spec /\ \A r \in Runs : WF_vars(Start(r)) /\ WF_vars(JobStep(r))

-----------------------------------------------------------------------------
(* Properties.                                                             *)

(***************************************************************************)
(* An allocation that points to a draft points to one that is stored, to   *)
(* one that an execution is about to store, or to one that an error or a   *)
(* crash cost: nothing else takes an allocation out of the next run's      *)
(* reach, whichever executions overlap                                     *)
(* (monthlyPoaiInvoiceService.go:91-123).                                  *)
(***************************************************************************)
ClaimsExplained ==
  \A a \in allocations :
    \/ draftOf[a] \in {0} \cup givenUp
    \/ \E d \in drafts : d.id = draftOf[a]
    \/ \E r \in Runs : /\ run[r].phase \in {"claim", "number", "draft"}
                      /\ run[r].id = draftOf[a]

(***************************************************************************)
(* The document of a draft, made later from the allocations that point to  *)
(* it, lists only what its total counts, and only work of its own pair of  *)
(* owners (monthlyPoaiInvoiceService.go:36-40, 91-101, 176).               *)
(***************************************************************************)
DocumentsWithinTotals ==
  \A d \in drafts : \A a \in Claims(d) :
    a \in d.items /\ a.owner = d.owner /\ a.csp = d.csp

(***************************************************************************)
(* Two drafts of an owner bear one number only if he has lowered his next  *)
(* number, or a run saved it from a copy that another execution or his own *)
(* request had overtaken (monthlyPoaiInvoiceService.go:60-123,             *)
(* invoiceDraft.go:565-650): neither a failure nor an overlap alone        *)
(* repeats a number.                                                       *)
(***************************************************************************)
NumbersRepeatExplained ==
  \A d, e \in drafts :
    d # e /\ d.owner = e.owner /\ d.number = e.number =>
      d.owner \in {d.csp, e.csp} \cup overwritten \cup lowered

(***************************************************************************)
(* As long as executions do not overlap, a stored draft is announced to    *)
(* its owner, or its execution has yet to send its e-mails, unless its     *)
(* e-mail failed or an error or a crash ended the execution that stored it *)
(* (monthlyPoaiInvoiceService.go:91-123, 123-147).                         *)
(***************************************************************************)
DraftsAnnounced ==
  \A d \in drafts : \/ d.owner = d.csp
                   \/ d \in mailed \cup unsent
                   \/ \E r \in Runs : d \in run[r].made

(***************************************************************************)
(* An unclaimed allocation of the month before is counted by a draft,      *)
(* unless the run that claimed it failed, as long as the job is still to   *)
(* be started more often in this month than errors can hit it              *)
(* (config.mainnet.json:107-114): whatever hits one server's run, the next *)
(* server's makes up for it.                                               *)
(***************************************************************************)
AllocationsInvoiced ==
  \A a \in Allocation :
    a \in Unclaimed /\ Firings - fired > MaxFaults - faults ~>
      \/ \E d \in drafts : a \in d.items
      \/ draftOf[a] \in givenUp

\* The job implements billing (Billing).
Bills == INSTANCE Billing WITH issued <- drafts

BillingSpec == Bills!Spec
=============================================================================
