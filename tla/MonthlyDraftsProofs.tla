------------------------ MODULE MonthlyDraftsProofs ------------------------
(***************************************************************************)
(* Theorems about MonthlyDrafts and DraftDocuments, for any executions,    *)
(* owners, editors and bounds.                                             *)
(*                                                                         *)
(* Executions overlap on the same allocations, so the invariant says       *)
(* nothing of what is claimed by whom.  It rests on the ids: each is given *)
(* to one execution and one group, and whatever points to an id is of that *)
(* group.                                                                  *)
(*                                                                         *)
(* The amounts of a document are proved by themselves, in the sections     *)
(* before the last: sums by induction, then each line, then their total.   *)
(***************************************************************************)
EXTENDS DraftDocuments, FiniteSetTheorems, SequenceTheorems,
        WellFoundedInduction, TLAPS

-----------------------------------------------------------------------------
(* The inductive invariant.                                                *)

\* Execution r has an id whose draft it has not stored or given up.
Busy(r) == run[r].phase \in {"claim", "number", "draft"}

\* The work of one node owner for one CSP.
OneGroup(items) ==
  /\ items # {}
  /\ \A a, b \in items : a.owner = b.owner /\ a.csp = b.csp

\* What a busy execution knows of its group and of its id.
GroupInv(r) ==
  Busy(r) =>
    /\ OneGroup(run[r].items)
    /\ run[r].todo \subseteq run[r].items
    /\ run[r].id \in 1..ids
    /\ \A d \in drafts : d.id # run[r].id
    /\ \A a \in Allocation : draftOf[a] = run[r].id => a \in run[r].items

\* Ids are given out once, and allocations have no others.
IdsInv ==
  /\ \A a \in Allocation : draftOf[a] \in 0..ids
  /\ \A d \in drafts : d.id \in 1..ids
  /\ \A r, s \in Runs :
       Busy(r) /\ Busy(s) /\ run[r].id = run[s].id => r = s

\* DocumentsWithinTotals of any allocations, those not yet stored included.
DocumentsInv ==
  \A d \in drafts : \A a \in Allocation :
    draftOf[a] = d.id => a \in d.items /\ a.owner = d.owner /\ a.csp = d.csp

\* ClaimsExplained of any allocations.
ClaimsInv ==
  \A a \in Allocation :
    \/ draftOf[a] \in {0} \cup givenUp
    \/ \E d \in drafts : d.id = draftOf[a]
    \/ \E r \in Runs : Busy(r) /\ run[r].id = draftOf[a]

IInv ==
  /\ TypeOK
  /\ IdsInv
  /\ \A r \in Runs : GroupInv(r)
  /\ DocumentsInv
  /\ ClaimsInv

-----------------------------------------------------------------------------
(* Types.                                                                  *)

LEMMA IdleType == Idle \in Run
BY DEF Idle, Run, Phases

\* The execution after a step, and the ones that did not take it.
LEMMA StepRun ==
  ASSUME NEW r \in Runs, NEW l, TypeOK, Step(r, l)
  PROVE  /\ run'[r] = l
         /\ \A s \in Runs \ {r} : run'[s] = run[s]
         /\ l \in Run => run' \in [Runs -> Run]
BY DEF TypeOK, Step

LEMMA GroupFacts ==
  ASSUME NEW S \in SUBSET Allocation, NEW a \in S
  PROVE  /\ Group(S, a) \subseteq S
         /\ OneGroup(Group(S, a))
<1>1. a \in Group(S, a) /\ Group(S, a) \subseteq S
  BY DEF Group
<1>2. \A b \in Group(S, a) : b.owner = a.owner /\ b.csp = a.csp
  BY DEF Group
<1> QED BY <1>1, <1>2 DEF OneGroup

LEMMA OwnersOfGroup ==
  ASSUME NEW items \in SUBSET Allocation, OneGroup(items)
  PROVE  /\ OwnerOf(items) \in Owners /\ CspOf(items) \in CspOwners
         /\ \A a \in items : a.owner = OwnerOf(items) /\ a.csp = CspOf(items)
<1>1. (CHOOSE a \in items : TRUE) \in items
  BY DEF OneGroup
<1> QED BY <1>1 DEF OneGroup, OwnerOf, CspOf, Allocation

LEMMA DraftType ==
  ASSUME NEW r \in Runs, TypeOK, GroupInv(r), Busy(r)
  PROVE  /\ DraftFor(r) \in Draft
         /\ DraftFor(r).id = run[r].id
         /\ DraftFor(r).items = run[r].items
         /\ \A a \in run[r].items : /\ a.owner = DraftFor(r).owner
                                   /\ a.csp = DraftFor(r).csp
<1>1. /\ run[r].items \in SUBSET Allocation /\ run[r].id \in Nat
      /\ run[r].next \in Int
  BY DEF TypeOK, Run
<1>2. run[r].id \in Nat \ {0} /\ OneGroup(run[r].items)
  BY <1>1 DEF GroupInv, TypeOK
<1>3. /\ OwnerOf(run[r].items) \in Owners /\ CspOf(run[r].items) \in CspOwners
      /\ \A a \in run[r].items : /\ a.owner = OwnerOf(run[r].items)
                                /\ a.csp = CspOf(run[r].items)
  BY <1>1, <1>2, OwnersOfGroup
<1> QED BY <1>1, <1>2, <1>3 DEF DraftFor, Draft

LEMMA InitIInv == Init => IInv
<1> SUFFICES ASSUME Init PROVE IInv
  OBVIOUS
<1>1. TypeOK
  <2>1. NoPreference \in Preference
    BY DEF NoPreference, Preference
  <2> QED BY <2>1, IdleType, BoundsAssumption DEF Init, TypeOK
<1>2. \A r \in Runs : ~Busy(r)
  BY DEF Init, Busy, Idle
<1>3. IdsInv /\ DocumentsInv /\ ClaimsInv
  BY <1>2 DEF Init, IdsInv, DocumentsInv, ClaimsInv
<1> QED BY <1>1, <1>2, <1>3 DEF IInv, GroupInv

-----------------------------------------------------------------------------
(* The steps.                                                              *)

\* One that leaves ids, claims, drafts and executions alone.
LEMMA QuietStep ==
  ASSUME IInv, TypeOK', UNCHANGED <<draftOf, drafts, ids, run, givenUp>>
  PROVE  IInv'
BY DEF IInv, IdsInv, GroupInv, DocumentsInv, ClaimsInv, Busy

\* One after which r is busy only if it was before, with the same group.
LEMMA RunStep ==
  ASSUME NEW r \in Runs, NEW l, Step(r, l), IInv, TypeOK',
         UNCHANGED <<draftOf, drafts, ids>>, givenUp \subseteq givenUp',
         \/ /\ Busy(r) /\ l.phase \in {"claim", "number", "draft"}
            /\ l.items = run[r].items /\ l.id = run[r].id
            /\ l.todo \subseteq run[r].items
         \/ /\ l.phase \notin {"claim", "number", "draft"}
            /\ Busy(r) => run[r].id \in givenUp'
  PROVE  IInv'
<1>1. run'[r] = l /\ \A s \in Runs \ {r} : run'[s] = run[s]
  BY StepRun DEF IInv
<1>2. \A s \in Runs : Busy(s)' =>
         /\ Busy(s) /\ run'[s].id = run[s].id /\ run'[s].items = run[s].items
         /\ run'[s].todo \subseteq run[s].items
  BY <1>1 DEF Busy, IInv, GroupInv
<1>3. IdsInv'
  BY <1>2 DEF IInv, IdsInv
<1>4. ASSUME NEW s \in Runs PROVE GroupInv(s)'
  BY <1>2 DEF IInv, GroupInv
<1>5. DocumentsInv'
  BY DEF IInv, DocumentsInv
<1>6. ClaimsInv'
  <2> SUFFICES ASSUME NEW a \in Allocation
               PROVE  \/ draftOf[a] \in {0} \cup givenUp'
                      \/ \E d \in drafts : d.id = draftOf[a]
                      \/ \E s \in Runs : Busy(s)' /\ run'[s].id = draftOf[a]
    BY DEF ClaimsInv
  <2>1. ASSUME NEW s \in Runs, Busy(s), run[s].id = draftOf[a]
        PROVE  draftOf[a] \in givenUp' \/ (Busy(s)' /\ run'[s].id = draftOf[a])
    BY <1>1, <2>1 DEF Busy
  <2> QED BY <2>1 DEF IInv, ClaimsInv
<1> QED BY <1>3, <1>4, <1>5, <1>6 DEF IInv

LEMMA StartIInv ==
  ASSUME NEW r \in Runs, IInv, Start(r)
  PROVE  IInv'
<1>1. CASE UNCHANGED run
  <2>1. TypeOK'
    BY <1>1, BoundsAssumption DEF Start, owners, mails, IInv, TypeOK
  <2> QED BY <1>1, <2>1, QuietStep DEF Start
<1>2. CASE Step(r, [Idle EXCEPT !.phase = "groups", !.batch = Unclaimed])
  <2> DEFINE l == [Idle EXCEPT !.phase = "groups", !.batch = Unclaimed]
  <2>1. Unclaimed \subseteq Allocation
    BY DEF Unclaimed, IInv, TypeOK
  <2>2. l \in Run /\ l.phase = "groups"
    <3>1. l.phase = "groups"
      BY DEF Idle
    <3>2. Idle \in Run /\ "groups" \in Phases /\ Unclaimed \in SUBSET Allocation
      BY <2>1, IdleType DEF Phases
    <3> QED BY <3>1, <3>2 DEF Run
  <2>3. Step(r, l)
    BY <1>2
  <2> HIDE DEF l
  <2>4. TypeOK'
    <3>1. run' \in [Runs -> Run]
      BY <2>2, <2>3, StepRun DEF IInv
    <3> QED BY <3>1, BoundsAssumption DEF Start, owners, mails, IInv, TypeOK
  <2>5. ~Busy(r)
    BY DEF Start, Busy
  <2> QED BY <2>2, <2>3, <2>4, <2>5, RunStep DEF Start
<1> QED BY <1>1, <1>2 DEF Start

LEMMA MissIInv ==
  ASSUME IInv, MissFiring
  PROVE  IInv'
<1>1. TypeOK'
  BY BoundsAssumption DEF MissFiring, owners, mails, IInv, TypeOK
<1> QED BY <1>1, QuietStep DEF MissFiring

\* A new id, for a group that no other execution has under it.
LEMMA TakeIInv ==
  ASSUME NEW r \in Runs, IInv, TakeGroup(r)
  PROVE  IInv'
<1>1. PICK a \in run[r].batch :
        LET items == Group(run[r].batch, a) IN
        Step(r, [run[r] EXCEPT
                   !.phase = "claim", !.batch = @ \ items,
                   !.items = items, !.todo = items, !.id = ids + 1,
                   !.next = preference[a.owner].next])
  BY DEF TakeGroup
<1> DEFINE items == Group(run[r].batch, a)
           l == [run[r] EXCEPT
                   !.phase = "claim", !.batch = @ \ items,
                   !.items = items, !.todo = items, !.id = ids + 1,
                   !.next = preference[a.owner].next]
<1>2. /\ run[r] \in Run /\ run[r].batch \in SUBSET Allocation
      /\ a \in Allocation /\ a.owner \in Owners /\ ids \in Nat
  BY DEF IInv, TypeOK, Run, Allocation
<1>3. items \in SUBSET Allocation /\ OneGroup(items)
  BY <1>2, GroupFacts
<1>4. preference[a.owner].next \in Int
  BY <1>2 DEF IInv, TypeOK, Preference
<1> HIDE DEF items
<1>5. /\ l \in Run /\ l.phase = "claim" /\ l.items = items
      /\ l.todo = items /\ l.id = ids + 1
  <2> DEFINE R == run[r]
             q == preference[a.owner].next
             B == R.batch \ items
  <2>1. /\ R \in Run /\ q \in Int /\ B \in SUBSET Allocation
        /\ items \in SUBSET Allocation /\ ids + 1 \in Nat
        /\ "claim" \in Phases
    BY <1>2, <1>3, <1>4 DEF Phases
  <2>2. l = [R EXCEPT !.phase = "claim", !.batch = B, !.items = items,
                      !.todo = items, !.id = ids + 1, !.next = q]
    OBVIOUS
  <2> HIDE DEF R, q, B, l
  <2>3. l = [phase |-> "claim", batch |-> B, items |-> items, todo |-> items,
             id |-> ids + 1, next |-> q, made |-> R.made]
    BY <2>1, <2>2 DEF Run
  <2>4. R.made \in SUBSET Draft
    BY <2>1 DEF Run
  <2> QED BY <2>1, <2>3, <2>4 DEF Run
<1>6. Step(r, l)
  BY <1>1 DEF items
<1> HIDE DEF l
<1>7. /\ run'[r] = l /\ run' \in [Runs -> Run]
      /\ \A s \in Runs \ {r} : run'[s] = run[s]
  BY <1>5, <1>6, StepRun DEF IInv
<1>8. /\ ids' = ids + 1
      /\ UNCHANGED <<calendar, allocations, draftOf, owners, drafts, mails,
                     givenUp, faults>>
  BY DEF TakeGroup
<1>9. ~Busy(r)
  BY DEF TakeGroup, Busy
<1>10. TypeOK'
  BY <1>2, <1>7, <1>8 DEF calendar, owners, mails, IInv, TypeOK
<1>11. IdsInv'
  <2>1. /\ \A b \in Allocation : draftOf[b] \in 0..(ids + 1)
        /\ \A d \in drafts : d.id \in 1..(ids + 1)
    BY <1>2 DEF IInv, IdsInv
  <2>2. \A s \in Runs \ {r} : Busy(s)' =>
          Busy(s) /\ run'[s].id = run[s].id /\ run[s].id # ids + 1
    BY <1>2, <1>7 DEF Busy, IInv, GroupInv
  <2> QED BY <1>5, <1>7, <1>8, <2>1, <2>2 DEF IInv, IdsInv
<1>12. ASSUME NEW s \in Runs PROVE GroupInv(s)'
  <2>1. CASE s = r
    <3>1. /\ ids + 1 \in 1..(ids + 1)
          /\ \A d \in drafts : d.id # ids + 1
          /\ \A b \in Allocation : draftOf[b] # ids + 1
      BY <1>2 DEF IInv, IdsInv
    <3> QED BY <1>3, <1>5, <1>7, <1>8, <2>1, <3>1 DEF GroupInv
  <2>2. CASE s # r
    <3>1. run'[s] = run[s] /\ GroupInv(s)
      BY <1>7, <2>2 DEF IInv
    <3>2. run[s].id \in 1..ids => run[s].id \in 1..(ids + 1)
      BY <1>2
    <3> QED BY <1>8, <3>1, <3>2 DEF GroupInv, Busy
  <2> QED BY <2>1, <2>2
<1>13. DocumentsInv'
  BY <1>8 DEF IInv, DocumentsInv
<1>14. ClaimsInv'
  <2>1. \A s \in Runs : Busy(s) => Busy(s)' /\ run'[s].id = run[s].id
    BY <1>7, <1>9 DEF Busy
  <2> QED BY <1>8, <2>1 DEF IInv, ClaimsInv
<1> QED BY <1>10, <1>11, <1>12, <1>13, <1>14 DEF IInv

LEMMA SkipIInv ==
  ASSUME NEW r \in Runs, IInv, SkipGroup(r)
  PROVE  IInv'
<1>1. PICK a \in run[r].batch :
        Step(r, [run[r] EXCEPT !.batch = @ \ Group(@, a)])
  BY DEF SkipGroup
<1> DEFINE l == [run[r] EXCEPT !.batch = @ \ Group(@, a)]
<1>2. l \in Run /\ l.phase = "groups"
  BY DEF SkipGroup, IInv, TypeOK, Run
<1>3. Step(r, l)
  BY <1>1
<1> HIDE DEF l
<1>4. TypeOK'
  <2>1. run' \in [Runs -> Run]
    BY <1>2, <1>3, StepRun DEF IInv
  <2>2. faults' \in 0..MaxFaults
    BY BoundsAssumption DEF SkipGroup, IInv, TypeOK
  <2> QED BY <2>1, <2>2 DEF SkipGroup, calendar, owners, mails, IInv, TypeOK
<1>5. ~Busy(r)
  BY DEF SkipGroup, Busy
<1> QED BY <1>2, <1>3, <1>4, <1>5, RunStep DEF SkipGroup

LEMMA ClaimIInv ==
  ASSUME NEW r \in Runs, IInv, Claim(r)
  PROVE  IInv'
<1>1. PICK a \in run[r].todo :
        /\ draftOf' = [draftOf EXCEPT ![a] = run[r].id]
        /\ Step(r, [run[r] EXCEPT
                      !.todo = @ \ {a},
                      !.phase = IF run[r].todo = {a} THEN "number"
                                ELSE "claim"])
  BY DEF Claim
<1> DEFINE p == IF run[r].todo = {a} THEN "number" ELSE "claim"
           l == [run[r] EXCEPT !.todo = @ \ {a}, !.phase = p]
<1>2. run[r] \in Run /\ p \in {"number", "claim"} /\ Busy(r) /\ GroupInv(r)
  BY DEF Claim, Busy, IInv, TypeOK
<1> HIDE DEF p
<1>3. /\ l \in Run /\ l.phase = p /\ l.items = run[r].items
      /\ l.todo = run[r].todo \ {a} /\ l.id = run[r].id
  BY <1>2 DEF Run, Phases
<1>4. Step(r, l)
  BY <1>1 DEF p
<1> HIDE DEF l
<1>5. /\ run'[r] = l /\ run' \in [Runs -> Run]
      /\ \A s \in Runs \ {r} : run'[s] = run[s]
  BY <1>3, <1>4, StepRun DEF IInv
<1>6. UNCHANGED <<calendar, allocations, owners, drafts, ids, mails, givenUp,
                  faults>>
  BY DEF Claim
<1>7. /\ a \in Allocation /\ a \in run[r].items /\ run[r].id \in 1..ids
      /\ draftOf' = [draftOf EXCEPT ![a] = run[r].id] /\ ids \in Nat
  BY <1>1, <1>2 DEF GroupInv, IInv, TypeOK, Run
<1>8. TypeOK'
  <2>1. draftOf' \in [Allocation -> Nat]
    BY <1>7 DEF IInv, TypeOK
  <2> QED BY <1>5, <1>6, <2>1 DEF calendar, owners, mails, IInv, TypeOK
<1>9. \A s \in Runs : /\ Busy(s)' <=> Busy(s)
                      /\ run'[s].id = run[s].id
                      /\ run'[s].items = run[s].items
                      /\ run'[s].todo \subseteq run[s].todo
  BY <1>2, <1>3, <1>5 DEF Busy
<1>10. \A b \in Allocation :
         draftOf'[b] = IF b = a THEN run[r].id ELSE draftOf[b]
  BY <1>7 DEF IInv, TypeOK
<1>11. IdsInv'
  <2>1. \A b \in Allocation : draftOf'[b] \in 0..ids
    BY <1>7, <1>10 DEF IInv, IdsInv
  <2> QED BY <1>6, <1>9, <2>1 DEF IInv, IdsInv
<1>12. ASSUME NEW s \in Runs PROVE GroupInv(s)'
  <2> SUFFICES ASSUME Busy(s)
               PROVE  /\ OneGroup(run[s].items)
                      /\ run[s].todo \subseteq run[s].items
                      /\ run[s].id \in 1..ids
                      /\ \A d \in drafts : d.id # run[s].id
                      /\ \A b \in Allocation :
                           draftOf'[b] = run[s].id => b \in run[s].items
    BY <1>6, <1>9 DEF GroupInv
  <2>1. GroupInv(s)
    BY DEF IInv
  <2>2. run[s].id = run[r].id => s = r
    BY <1>2 DEF IInv, IdsInv
  <2> QED BY <1>7, <1>10, <2>1, <2>2 DEF GroupInv
<1>13. DocumentsInv'
  <2>1. \A d \in drafts : d.id # run[r].id
    BY <1>2 DEF GroupInv
  <2> QED BY <1>6, <1>10, <2>1 DEF IInv, DocumentsInv
<1>14. ClaimsInv'
  BY <1>2, <1>6, <1>9, <1>10 DEF IInv, ClaimsInv
<1> QED BY <1>8, <1>11, <1>12, <1>13, <1>14 DEF IInv

LEMMA NumberIInv ==
  ASSUME NEW r \in Runs, IInv, StoreNumber(r)
  PROVE  IInv'
<1> DEFINE l == [run[r] EXCEPT !.phase = "draft"]
<1>1. /\ l \in Run /\ l.phase = "draft" /\ l.items = run[r].items
      /\ l.todo = run[r].todo /\ l.id = run[r].id
  BY DEF IInv, TypeOK, Run, Phases
<1>2. Step(r, l)
  BY DEF StoreNumber
<1> HIDE DEF l
<1>3. Busy(r) /\ GroupInv(r) /\ run[r] \in Run
  BY DEF StoreNumber, Busy, IInv, TypeOK
<1>4. /\ preference' \in [Owners -> Preference]
      /\ overwritten' \subseteq Owners
  <2>1. OwnerOf(run[r].items) \in Owners
    BY <1>3, OwnersOfGroup DEF GroupInv, Run
  <2>2. [stored |-> TRUE, next |-> run[r].next + 1] \in Preference
    BY <1>3 DEF Run, Preference
  <2> QED BY <2>1, <2>2 DEF StoreNumber, IInv, TypeOK
<1>5. TypeOK'
  <2>1. run' \in [Runs -> Run]
    BY <1>1, <1>2, StepRun DEF IInv
  <2> QED BY <1>4, <2>1 DEF StoreNumber, calendar, mails, IInv, TypeOK
<1>6. run[r].todo \subseteq run[r].items
  BY <1>3 DEF GroupInv
<1> QED BY <1>1, <1>2, <1>3, <1>5, <1>6, RunStep DEF StoreNumber

LEMMA StoreDraftIInv ==
  ASSUME NEW r \in Runs, IInv, StoreDraft(r)
  PROVE  IInv'
<1> DEFINE D == DraftFor(r)
           l == [run[r] EXCEPT !.phase = "groups", !.made = @ \cup {D}]
<1>1. Busy(r) /\ GroupInv(r) /\ run[r] \in Run /\ TypeOK
  BY DEF StoreDraft, Busy, IInv, TypeOK
<1>2. /\ D \in Draft /\ D.id = run[r].id /\ D.items = run[r].items
      /\ \A a \in run[r].items : a.owner = D.owner /\ a.csp = D.csp
  BY <1>1, DraftType
<1>3. drafts' = drafts \cup {D}
  BY DEF StoreDraft
<1>4. Step(r, l)
  BY DEF StoreDraft
<1> HIDE DEF D
<1>5. l \in Run /\ l.phase = "groups"
  BY <1>1, <1>2 DEF Run, Phases
<1> HIDE DEF l
<1>6. /\ run'[r] = l /\ run' \in [Runs -> Run]
      /\ \A s \in Runs \ {r} : run'[s] = run[s]
  BY <1>1, <1>4, <1>5, StepRun
<1>7. UNCHANGED <<calendar, allocations, draftOf, owners, ids, mails, givenUp,
                  faults>>
  BY DEF StoreDraft
<1>8. TypeOK'
  BY <1>1, <1>2, <1>3, <1>6, <1>7 DEF calendar, owners, mails, TypeOK
<1>9. ~Busy(r)' /\ \A s \in Runs \ {r} : Busy(s)' <=> Busy(s)
  BY <1>5, <1>6 DEF Busy
<1>10. IdsInv'
  <2>1. D.id \in 1..ids
    BY <1>1, <1>2 DEF GroupInv
  <2> QED BY <1>3, <1>6, <1>7, <1>9, <2>1 DEF IInv, IdsInv
<1>11. ASSUME NEW s \in Runs PROVE GroupInv(s)'
  <2>1. CASE s = r
    BY <1>9, <2>1 DEF GroupInv
  <2>2. CASE s # r /\ Busy(s)
    <3>1. run[s].id # run[r].id
      BY <1>1, <2>2 DEF IInv, IdsInv
    <3>2. GroupInv(s) /\ run'[s] = run[s]
      BY <1>6, <2>2 DEF IInv
    <3> QED BY <1>2, <1>3, <1>7, <2>2, <3>1, <3>2 DEF GroupInv
  <2>3. CASE s # r /\ ~Busy(s)
    BY <1>9, <2>3 DEF GroupInv
  <2> QED BY <2>1, <2>2, <2>3
<1>12. DocumentsInv'
  <2>1. \A a \in Allocation : draftOf[a] = D.id =>
          a \in D.items /\ a.owner = D.owner /\ a.csp = D.csp
    BY <1>1, <1>2 DEF GroupInv
  <2> QED BY <1>3, <1>7, <2>1 DEF IInv, DocumentsInv
<1>13. ClaimsInv'
  <2> SUFFICES ASSUME NEW a \in Allocation
               PROVE  \/ draftOf[a] \in {0} \cup givenUp
                      \/ \E d \in drafts' : d.id = draftOf[a]
                      \/ \E s \in Runs : Busy(s)' /\ run'[s].id = draftOf[a]
    BY <1>7 DEF ClaimsInv
  <2>1. ASSUME NEW s \in Runs, Busy(s), run[s].id = draftOf[a]
        PROVE  \/ D.id = draftOf[a]
               \/ Busy(s)' /\ run'[s].id = draftOf[a]
    BY <1>2, <1>6, <1>9, <2>1
  <2> QED BY <1>3, <2>1 DEF IInv, ClaimsInv
<1> QED BY <1>8, <1>10, <1>11, <1>12, <1>13 DEF IInv

LEMMA LoseIInv ==
  ASSUME NEW r \in Runs, IInv, LoseDraft(r)
  PROVE  IInv'
<1> DEFINE l == [run[r] EXCEPT !.phase = "groups"]
<1>1. l \in Run /\ l.phase = "groups"
  BY DEF IInv, TypeOK, Run, Phases
<1>2. Step(r, l)
  BY DEF LoseDraft
<1> HIDE DEF l
<1>3. Busy(r) /\ run[r].id \in 1..ids
  BY DEF LoseDraft, Busy, IInv, GroupInv
<1>4. TypeOK'
  <2>1. run' \in [Runs -> Run]
    BY <1>1, <1>2, StepRun DEF IInv
  <2>2. faults' \in 0..MaxFaults
    BY BoundsAssumption DEF LoseDraft, IInv, TypeOK
  <2> QED BY <1>3, <2>1, <2>2
          DEF LoseDraft, calendar, owners, mails, IInv, TypeOK
<1> QED BY <1>1, <1>2, <1>4, RunStep DEF LoseDraft

LEMMA MailsIInv ==
  ASSUME NEW r \in Runs, IInv, SendMails(r)
  PROVE  IInv'
<1>1. Step(r, Idle) /\ Idle.phase = "idle" /\ ~Busy(r)
  BY DEF SendMails, Busy, Idle
<1>2. TypeOK'
  <2>1. run' \in [Runs -> Run]
    BY <1>1, IdleType, StepRun DEF IInv
  <2>2. Announced(r) \subseteq Draft
    BY DEF Announced, Due, IInv, TypeOK, Run
  <2>3. mailed' \subseteq Draft /\ unsent' \subseteq Draft
    BY <2>2 DEF SendMails, IInv, TypeOK
  <2>4. faults' \in 0..MaxFaults
    BY BoundsAssumption DEF SendMails, IInv, TypeOK
  <2> QED BY <2>1, <2>3, <2>4 DEF SendMails, calendar, owners, IInv, TypeOK
<1> QED BY <1>1, <1>2, RunStep DEF SendMails

LEMMA FailIInv ==
  ASSUME NEW r \in Runs, IInv, Fail(r)
  PROVE  IInv'
<1>1. Step(r, Idle) /\ Idle.phase = "idle"
  BY DEF Fail, Idle
<1>2. Busy(r) <=> run[r].phase # "groups"
  BY DEF Fail, Busy, IInv, TypeOK, Run, Phases
<1>3. /\ givenUp \subseteq givenUp' /\ givenUp' \subseteq 1..ids
      /\ Busy(r) => run[r].id \in givenUp'
  BY <1>2 DEF Fail, IInv, TypeOK, GroupInv
<1>4. TypeOK'
  <2>1. run' \in [Runs -> Run]
    BY <1>1, IdleType, StepRun DEF IInv
  <2>2. faults' \in 0..MaxFaults
    BY BoundsAssumption DEF Fail, IInv, TypeOK
  <2>3. unsent' \subseteq Draft
    BY DEF Fail, IInv, TypeOK, Run
  <2> QED BY <1>3, <2>1, <2>2, <2>3 DEF Fail, calendar, owners, IInv, TypeOK
<1> QED BY <1>1, <1>3, <1>4, RunStep DEF Fail

\* The calendar, the daily job and the owners.
Outside ==
  \/ NextMonth
  \/ MissFiring
  \/ \E a \in Allocation \ allocations : StoreAllocation(a)
  \/ \E o \in Owners, n \in Typed : CreatePreference(o, n)
  \/ \E o \in Editors, n \in Typed : ChangePreference(o, n)

LEMMA OutsideIInv ==
  ASSUME IInv, Outside
  PROVE  IInv'
<1>1. UNCHANGED <<draftOf, drafts, ids, run, givenUp>>
  BY DEF Outside, NextMonth, MissFiring, StoreAllocation, CreatePreference,
         ChangePreference
<1>2. CASE NextMonth
  <2>1. month' \in 1..MaxMonth /\ fired' \in 0..Firings
    BY <1>2, BoundsAssumption DEF NextMonth, IInv, TypeOK
  <2>2. TypeOK'
    BY <1>2, <2>1 DEF NextMonth, owners, mails, IInv, TypeOK
  <2> QED BY <1>1, <2>2, QuietStep
<1>3. ASSUME NEW a \in Allocation, StoreAllocation(a) PROVE IInv'
  <2>1. TypeOK'
    BY <1>3 DEF StoreAllocation, calendar, owners, mails, IInv, TypeOK
  <2> QED BY <1>1, <2>1, QuietStep
<1>4. ASSUME NEW o \in Owners, NEW n \in Typed, CreatePreference(o, n)
      PROVE  IInv'
  <2>1. [stored |-> TRUE, next |-> Inserted(n)] \in Preference
    BY TypedAssumption DEF Inserted, Preference
  <2>2. TypeOK'
    BY <1>4, <2>1 DEF CreatePreference, calendar, mails, IInv, TypeOK
  <2> QED BY <1>1, <2>2, QuietStep
<1>5. ASSUME NEW o \in Editors, NEW n \in Typed, ChangePreference(o, n)
      PROVE  IInv'
  <2> DEFINE q == [stored |-> TRUE,
                   next |-> IF preference[o].stored THEN n ELSE Inserted(n)]
  <2>1. q \in Preference
    BY TypedAssumption DEF Inserted, Preference
  <2>2. preference' = [preference EXCEPT ![o] = q]
    BY <1>5 DEF ChangePreference
  <2> HIDE DEF q
  <2>3. TypeOK'
    BY <1>5, <2>1, <2>2, EditorsAssumption
       DEF ChangePreference, calendar, mails, IInv, TypeOK
  <2> QED BY <1>1, <2>3, QuietStep
<1> QED BY <1>2, <1>3, <1>4, <1>5, MissIInv DEF Outside

LEMMA NextIInv == IInv /\ [Next]_vars => IInv'
<1> SUFFICES ASSUME IInv, [Next]_vars PROVE IInv'
  OBVIOUS
<1>1. CASE UNCHANGED vars
  <2>1. TypeOK'
    BY <1>1 DEF vars, IInv, TypeOK
  <2> QED BY <1>1, <2>1, QuietStep DEF vars
<1> QED BY <1>1, OutsideIInv, StartIInv, TakeIInv, SkipIInv, ClaimIInv,
           NumberIInv, StoreDraftIInv, LoseIInv, MailsIInv, FailIInv
        DEF Next, JobStep, Outside

LEMMA IInvHolds == Spec => []IInv
BY InitIInv, NextIInv, PTL DEF Spec

(***************************************************************************)
(* Every variable keeps its type, whichever executions overlap or fail     *)
(* (monthlyPoaiInvoiceService.go:18-147).                                  *)
(***************************************************************************)
THEOREM TypeCorrect == Spec => []TypeOK
<1>1. IInv => TypeOK
  BY DEF IInv
<1> QED BY <1>1, IInvHolds, PTL

(***************************************************************************)
(* A claimed allocation points to a stored draft, or to one in the making, *)
(* or to one that a failure cost, for any number of executions             *)
(* (monthlyPoaiInvoiceService.go:91-123).                                  *)
(***************************************************************************)
THEOREM ClaimsAreExplained == Spec => []ClaimsExplained
<1>1. IInv => ClaimsExplained
  BY DEF IInv, TypeOK, ClaimsInv, ClaimsExplained, Busy
<1> QED BY <1>1, IInvHolds, PTL

(***************************************************************************)
(* A document lists only what its draft's total counts, and only work of   *)
(* its two owners, for any number of executions                            *)
(* (monthlyPoaiInvoiceService.go:91-101, 176).                             *)
(***************************************************************************)
THEOREM DocumentsAreWithinTotals == Spec => []DocumentsWithinTotals
<1>1. IInv => DocumentsWithinTotals
  BY DEF IInv, TypeOK, DocumentsInv, DocumentsWithinTotals, Claims
<1> QED BY <1>1, IInvHolds, PTL

-----------------------------------------------------------------------------
(* Numbers.                                                                *)

\* Execution r has raised the number of owner o and not stored its draft yet.
Numbering(r, o) ==
  /\ run[r].phase = "draft"
  /\ OwnerOf(run[r].items) = o
  /\ ~IsOwn(run[r].items)

Numbered(d, o) == d.owner = o /\ d.csp # o

\* Of an owner who has not lowered his number, nor lost it to an outdated
\* copy: all of the numbers that are out, on drafts or with an execution, are
\* different, and less than his next one, which is in his row.
Numbers(o) ==
  /\ \A d, e \in drafts :
       Numbered(d, o) /\ Numbered(e, o) /\ d.number = e.number => d = e
  /\ \A d \in drafts : Numbered(d, o) =>
       preference[o].stored /\ d.number < preference[o].next
  /\ \A r \in Runs : Numbering(r, o) =>
       /\ preference[o].stored /\ run[r].next < preference[o].next
       /\ \A d \in drafts : Numbered(d, o) => d.number # run[r].next
       /\ \A s \in Runs : Numbering(s, o) /\ run[s].next = run[r].next => s = r

NInv == IInv /\ \A o \in Owners \ (overwritten \cup lowered) : Numbers(o)

LEMMA InitNInv == Init => NInv
BY InitIInv DEF Init, NInv, Numbers, Numbering, Idle

\* A step that stores no draft and lowers no number in a row, and after which
\* an execution is numbering only if it was before.
LEMMA NumbersStay ==
  ASSUME NEW o \in Owners, TypeOK, TypeOK', Numbers(o), UNCHANGED drafts,
         preference[o].stored =>
           preference'[o].stored /\ preference[o].next <= preference'[o].next,
         \A r \in Runs : Numbering(r, o)' =>
           Numbering(r, o) /\ run'[r].next = run[r].next
  PROVE  Numbers(o)'
<1>1. preference[o].next \in Int /\ preference'[o].next \in Int
  BY DEF TypeOK, Preference
<1>2. \A n \in Int : preference[o].stored /\ n < preference[o].next =>
        preference'[o].stored /\ n < preference'[o].next
  BY <1>1
<1>3. /\ \A d \in drafts : d.number \in Int
      /\ \A r \in Runs : run[r].next \in Int
  BY DEF TypeOK, Draft, Run
<1> QED BY <1>2, <1>3 DEF Numbers, Numbered

\* A step of r that does not lead to phase draft.
LEMMA NumbersElsewhere ==
  ASSUME NEW o \in Owners, NEW r \in Runs, NEW l, IInv, IInv', Step(r, l),
         l.phase # "draft", Numbers(o), UNCHANGED <<drafts, preference>>
  PROVE  Numbers(o)'
<1>1. run'[r] = l /\ \A s \in Runs \ {r} : run'[s] = run[s]
  BY StepRun DEF IInv
<1>2. preference[o].next <= preference'[o].next
  BY DEF IInv, TypeOK, Preference
<1> QED BY <1>1, <1>2, NumbersStay DEF Numbering, IInv

\* A row is created only if there is none, and then no number is out.
LEMMA CreateNumbers ==
  ASSUME IInv, NEW o \in Owners, NEW n \in Typed, CreatePreference(o, n),
         NEW p \in Owners, preference[p].stored
  PROVE  preference'[p] = preference[p]
BY DEF CreatePreference, IInv, TypeOK

\* The number of a row is lowered only by the owner.
LEMMA ChangeNumbers ==
  ASSUME IInv, NEW o \in Editors, NEW n \in Typed, ChangePreference(o, n),
         NEW p \in Owners, preference[p].stored, p \notin lowered'
  PROVE  preference'[p].stored /\ preference[p].next <= preference'[p].next
<1>1. o \in Owners /\ n \in Int /\ preference[p].next \in Int
  BY EditorsAssumption, TypedAssumption DEF IInv, TypeOK, Preference
<1>2. CASE o = p
  <2>1. preference'[p] = [stored |-> TRUE, next |-> n]
    BY <1>1, <1>2 DEF ChangePreference, IInv, TypeOK
  <2>2. ~(n < preference[p].next)
    BY <1>2 DEF ChangePreference
  <2> QED BY <1>1, <2>1, <2>2
<1>3. CASE o # p
  <2>1. preference'[p] = preference[p]
    BY <1>1, <1>3 DEF ChangePreference, IInv, TypeOK
  <2> QED BY <1>1, <2>1
<1> QED BY <1>2, <1>3

LEMMA StoreNumberNumbers ==
  ASSUME NEW o \in Owners, NEW r \in Runs, IInv, IInv', StoreNumber(r),
         Numbers(o), o \notin overwritten'
  PROVE  Numbers(o)'
<1> DEFINE l == [run[r] EXCEPT !.phase = "draft"]
           n == run[r].next
<1>1. /\ l.phase = "draft" /\ l.items = run[r].items /\ l.next = run[r].next
      /\ n \in Int
  BY DEF IInv, TypeOK, Run
<1>2. Step(r, l) /\ UNCHANGED drafts
  BY DEF StoreNumber
<1> HIDE DEF l
<1>3. run'[r] = l /\ \A s \in Runs \ {r} : run'[s] = run[s]
  BY <1>2, StepRun DEF IInv
<1>4. \A s \in Runs \ {r} : Numbering(s, o)' <=> Numbering(s, o)
  BY <1>3 DEF Numbering
<1>5. CASE IsOwn(run[r].items) \/ OwnerOf(run[r].items) # o
  <2>1. ~Numbering(r, o)'
    BY <1>1, <1>3, <1>5 DEF Numbering
  <2>2. preference'[o] = preference[o]
    BY <1>5 DEF StoreNumber, IInv, TypeOK
  <2>3. preference[o].next <= preference'[o].next
    BY <2>2 DEF IInv, TypeOK, Preference
  <2> QED BY <1>2, <1>3, <1>4, <2>1, <2>2, <2>3, NumbersStay DEF IInv
<1>6. CASE ~IsOwn(run[r].items) /\ OwnerOf(run[r].items) = o
  <2>1. preference'[o] = [stored |-> TRUE, next |-> n + 1]
    BY <1>6 DEF StoreNumber, IInv, TypeOK
  <2>2. n = preference[o].next
    BY <1>6 DEF StoreNumber
  <2>3. preference'[o].stored /\ preference'[o].next = n + 1
    BY <2>1
  <2>4. run'[r].next = n
    BY <1>1, <1>3
  <2>5. ASSUME NEW d \in drafts, Numbered(d, o)
        PROVE  d.number < n + 1 /\ d.number # n
    <3>1. d.number \in Int /\ d.number < n
      BY <2>2, <2>5 DEF Numbers, IInv, TypeOK, Draft
    <3> QED BY <1>1, <3>1
  <2>6. ASSUME NEW s \in Runs \ {r}, Numbering(s, o)'
        PROVE  /\ run'[s].next = run[s].next /\ Numbering(s, o)
               /\ run[s].next < n + 1 /\ run[s].next # n
    <3>1. run'[s] = run[s] /\ Numbering(s, o)
      BY <1>3, <1>4, <2>6
    <3>2. run[s].next \in Int /\ run[s].next < n
      BY <2>2, <3>1 DEF Numbers, IInv, TypeOK, Run
    <3> QED BY <1>1, <3>1, <3>2
  <2>7. n < n + 1
    BY <1>1
  <2>8. ASSUME NEW s \in Runs, Numbering(s, o)'
        PROVE  /\ run'[s].next < preference'[o].next
               /\ \A d \in drafts' : Numbered(d, o) => d.number # run'[s].next
               /\ \A t \in Runs :
                    Numbering(t, o)' /\ run'[t].next = run'[s].next => t = s
    <3>1. CASE s = r
      BY <1>2, <2>3, <2>4, <2>5, <2>6, <2>7, <3>1
    <3>2. CASE s # r
      BY <1>2, <2>3, <2>4, <2>6, <2>8, <3>2 DEF Numbers
    <3> QED BY <3>1, <3>2
  <2> QED BY <1>2, <2>3, <2>5, <2>8 DEF Numbers, Numbered
<1> QED BY <1>5, <1>6

\* The draft of a group of one owner's work for himself has no number.
LEMMA OwnDraft ==
  ASSUME NEW r \in Runs, IInv, Busy(r)
  PROVE  LET D == DraftFor(r) IN
         /\ IsOwn(run[r].items) <=> D.owner = D.csp
         /\ D.number = IF IsOwn(run[r].items) THEN 0 ELSE run[r].next
         /\ D.items # {} /\ D.owner = OwnerOf(run[r].items)
<1> DEFINE items == run[r].items
<1>1. items \in SUBSET Allocation /\ OneGroup(items)
  BY DEF IInv, TypeOK, Run, GroupInv
<1> HIDE DEF items
<1>2. \A a \in items : a.owner = OwnerOf(items) /\ a.csp = CspOf(items)
  BY <1>1, OwnersOfGroup
<1>3. IsOwn(items) <=> OwnerOf(items) = CspOf(items)
  BY <1>1, <1>2 DEF IsOwn, OneGroup
<1> QED BY <1>1, <1>3 DEF DraftFor, OneGroup, items

LEMMA StoreDraftNumbers ==
  ASSUME NEW o \in Owners, NEW r \in Runs, IInv, StoreDraft(r), Numbers(o)
  PROVE  Numbers(o)'
<1> DEFINE D == DraftFor(r)
           l == [run[r] EXCEPT !.phase = "groups", !.made = @ \cup {D}]
<1>1. drafts' = drafts \cup {D} /\ Step(r, l) /\ UNCHANGED preference
  BY DEF StoreDraft, owners
<1>2. /\ D.owner = OwnerOf(run[r].items)
      /\ IsOwn(run[r].items) <=> D.owner = D.csp
      /\ ~IsOwn(run[r].items) => D.number = run[r].next
  BY OwnDraft DEF DraftFor, StoreDraft, Busy
<1>3. l.phase = "groups" /\ run[r].phase = "draft"
  BY DEF StoreDraft, IInv, TypeOK, Run
<1> HIDE DEF D, l
<1>4. run'[r] = l /\ \A s \in Runs \ {r} : run'[s] = run[s]
  BY <1>1, StepRun DEF IInv
<1>5. /\ ~Numbering(r, o)'
      /\ \A s \in Runs \ {r} : Numbering(s, o)' <=> Numbering(s, o)
  BY <1>3, <1>4 DEF Numbering
<1>6. Numbered(D, o) => Numbering(r, o) /\ D.number = run[r].next
  BY <1>2, <1>3 DEF Numbered, Numbering
<1>7. \A d, e \in drafts' :
        Numbered(d, o) /\ Numbered(e, o) /\ d.number = e.number => d = e
  BY <1>1, <1>6 DEF Numbers
<1>8. \A d \in drafts' : Numbered(d, o) =>
        preference[o].stored /\ d.number < preference[o].next
  BY <1>1, <1>6 DEF Numbers
<1>9. \A s \in Runs : Numbering(s, o)' =>
        /\ Numbering(s, o) /\ s # r /\ run'[s] = run[s]
        /\ \A d \in drafts' : Numbered(d, o) => d.number # run[s].next
  BY <1>1, <1>4, <1>5, <1>6 DEF Numbers
<1> QED BY <1>1, <1>7, <1>8, <1>9 DEF Numbers, Numbered

LEMMA NextNumbers ==
  ASSUME NEW o \in Owners, IInv, IInv', [Next]_vars, Numbers(o),
         o \notin overwritten' \cup lowered'
  PROVE  Numbers(o)'
<1>0. preference[o].next <= preference[o].next
  BY DEF IInv, TypeOK, Preference
<1>1. CASE UNCHANGED <<drafts, preference, run>>
  BY <1>0, <1>1, NumbersStay DEF Numbering, IInv
<1>2. ASSUME NEW p \in Owners, NEW n \in Typed, CreatePreference(p, n)
      PROVE  Numbers(o)'
  <2>1. UNCHANGED <<drafts, run>>
    BY <1>2 DEF CreatePreference
  <2>2. preference[o].stored => preference'[o] = preference[o]
    BY <1>2, CreateNumbers
  <2> QED BY <1>0, <2>1, <2>2, NumbersStay DEF Numbering, IInv
<1>3. ASSUME NEW p \in Editors, NEW n \in Typed, ChangePreference(p, n)
      PROVE  Numbers(o)'
  <2>1. UNCHANGED <<drafts, run>>
    BY <1>3 DEF ChangePreference
  <2>2. preference[o].stored =>
          preference'[o].stored /\ preference[o].next <= preference'[o].next
    BY <1>3, ChangeNumbers
  <2> QED BY <2>1, <2>2, NumbersStay DEF Numbering, IInv
<1>4. ASSUME NEW r \in Runs, Start(r) PROVE Numbers(o)'
  <2>0. UNCHANGED <<drafts, preference>>
    BY <1>4 DEF Start, owners
  <2>1. CASE UNCHANGED run
    BY <1>1, <2>0, <2>1
  <2>2. CASE Step(r, [Idle EXCEPT !.phase = "groups", !.batch = Unclaimed])
    <3>1. [Idle EXCEPT !.phase = "groups", !.batch = Unclaimed].phase # "draft"
      BY DEF Idle
    <3> QED BY <2>0, <2>2, <3>1, NumbersElsewhere
  <2> QED BY <1>4, <2>1, <2>2 DEF Start
<1>5. ASSUME NEW r \in Runs,
             TakeGroup(r) \/ SkipGroup(r) \/ Claim(r) \/ LoseDraft(r)
               \/ SendMails(r) \/ Fail(r)
      PROVE  Numbers(o)'
  <2>1. \E l : Step(r, l) /\ l.phase # "draft"
    <3>1. run[r] \in Run
      BY DEF IInv, TypeOK
    <3>2. CASE SendMails(r) \/ Fail(r)
      BY <3>2 DEF SendMails, Fail, Idle
    <3>3. CASE LoseDraft(r)
      <4>1. [run[r] EXCEPT !.phase = "groups"].phase = "groups"
        BY <3>1 DEF Run
      <4> QED BY <3>3, <4>1 DEF LoseDraft
    <3>4. CASE SkipGroup(r)
      <4>1. PICK a \in run[r].batch :
              Step(r, [run[r] EXCEPT !.batch = @ \ Group(@, a)])
        BY <3>4 DEF SkipGroup
      <4>2. [run[r] EXCEPT !.batch = @ \ Group(@, a)].phase = "groups"
        BY <3>1, <3>4 DEF SkipGroup, Run
      <4> QED BY <4>1, <4>2
    <3>5. CASE TakeGroup(r)
      <4>1. PICK a \in run[r].batch :
              LET items == Group(run[r].batch, a) IN
              Step(r, [run[r] EXCEPT
                         !.phase = "claim", !.batch = @ \ items,
                         !.items = items, !.todo = items, !.id = ids + 1,
                         !.next = preference[a.owner].next])
        BY <3>5 DEF TakeGroup
      <4> DEFINE items == Group(run[r].batch, a)
                 l == [run[r] EXCEPT
                         !.phase = "claim", !.batch = @ \ items,
                         !.items = items, !.todo = items, !.id = ids + 1,
                         !.next = preference[a.owner].next]
      <4>2. l.phase = "claim"
        BY <3>1 DEF Run
      <4> QED BY <4>1, <4>2
    <3>6. CASE Claim(r)
      <4>1. PICK a \in run[r].todo :
              Step(r, [run[r] EXCEPT
                         !.todo = @ \ {a},
                         !.phase = IF run[r].todo = {a} THEN "number"
                                   ELSE "claim"])
        BY <3>6 DEF Claim
      <4>2. [run[r] EXCEPT !.todo = @ \ {a},
                           !.phase = IF run[r].todo = {a} THEN "number"
                                     ELSE "claim"].phase
              \in {"number", "claim"}
        BY <3>1 DEF Run
      <4> QED BY <4>1, <4>2
    <3> QED BY <1>5, <3>2, <3>3, <3>4, <3>5, <3>6
  <2>2. UNCHANGED <<drafts, preference>>
    BY <1>5 DEF TakeGroup, SkipGroup, Claim, LoseDraft, SendMails, Fail, owners
  <2> QED BY <2>1, <2>2, NumbersElsewhere
<1>6. CASE UNCHANGED vars \/ NextMonth \/ MissFiring
           \/ (\E a \in Allocation \ allocations : StoreAllocation(a))
  BY <1>1, <1>6 DEF vars, NextMonth, MissFiring, StoreAllocation, owners
<1> QED BY <1>2, <1>3, <1>4, <1>5, <1>6, StoreNumberNumbers, StoreDraftNumbers
        DEF Next, JobStep

(***************************************************************************)
(* Two drafts of an owner bear one number only if he has lowered his next  *)
(* number, whatever he sends, or it was saved from an outdated copy, for   *)
(* any executions, editors, numbers and failures                           *)
(* (monthlyPoaiInvoiceService.go:55-123, invoiceDraft.go:565-650).         *)
(***************************************************************************)
THEOREM RepeatsAreExplained == Spec => []NumbersRepeatExplained
<1>1. NInv => NumbersRepeatExplained
  <2> SUFFICES ASSUME NInv, NEW d \in drafts, NEW e \in drafts, d # e,
                      d.owner = e.owner, d.number = e.number,
                      d.owner \notin {d.csp, e.csp} \cup overwritten \cup lowered
               PROVE  FALSE
    BY DEF NumbersRepeatExplained
  <2>1. d.owner \in Owners
    BY DEF NInv, IInv, TypeOK, Draft
  <2> QED BY <2>1 DEF NInv, Numbers, Numbered
<1>2. NInv /\ [Next]_vars => NInv'
  <2> SUFFICES ASSUME NInv, [Next]_vars, NEW o \in Owners,
                      o \notin overwritten' \cup lowered'
               PROVE  Numbers(o)'
    BY NextIInv DEF NInv
  <2>1. overwritten \subseteq overwritten' /\ lowered \subseteq lowered'
    BY DEF Next, JobStep, NextMonth, MissFiring, StoreAllocation,
           CreatePreference, ChangePreference, Start, TakeGroup, SkipGroup,
           Claim, StoreNumber, StoreDraft, LoseDraft, SendMails, Fail,
           vars, owners
  <2> QED BY <2>1, NextIInv, NextNumbers DEF NInv
<1> QED BY <1>1, <1>2, InitNInv, PTL DEF Spec

-----------------------------------------------------------------------------
(* Executions that do not overlap.                                         *)

Sole == \A r, s \in Runs : r = s

\* What execution r has still to claim points to no draft, and what it has
\* claimed points to its own.
ItemsInv(r) ==
  /\ run[r].batch \subseteq allocations
  /\ \A a \in run[r].batch : draftOf[a] = 0
  /\ Busy(r) =>
       /\ run[r].items \subseteq allocations
       /\ run[r].batch \cap run[r].items = {}
       /\ run[r].phase # "claim" => run[r].todo = {}
       /\ \A a \in run[r].todo : draftOf[a] = 0
       /\ \A a \in run[r].items \ run[r].todo : draftOf[a] = run[r].id

\* All that a draft counts points to it, and no other draft has its id.
DraftsInv ==
  \A d \in drafts :
    /\ d.items # {} /\ d.items \subseteq allocations
    /\ \A a \in d.items : draftOf[a] = d.id
    /\ \A e \in drafts : e.id = d.id => e = d

SoleInv == DraftsInv /\ \A r \in Runs : ItemsInv(r)

LEMMA InitSole == Init => SoleInv
<1> SUFFICES ASSUME Init PROVE SoleInv
  OBVIOUS
<1>1. \A r \in Runs : run[r].batch = {} /\ ~Busy(r)
  BY DEF Init, Busy, Idle
<1> QED BY <1>1 DEF Init, SoleInv, DraftsInv, ItemsInv

\* A step that is no execution's.
LEMMA SoleQuiet ==
  ASSUME SoleInv, allocations \subseteq allocations',
         UNCHANGED <<draftOf, drafts, run>>
  PROVE  SoleInv'
BY DEF SoleInv, DraftsInv, ItemsInv, Busy

\* A step after which r has the group it had before, or none.
LEMMA SoleStays ==
  ASSUME Sole, NEW r \in Runs, SoleInv,
         UNCHANGED <<allocations, draftOf, drafts>>,
         run'[r].batch \subseteq run[r].batch \cup Unclaimed,
         \/ run'[r].phase \notin {"claim", "number", "draft"}
         \/ /\ Busy(r) /\ run[r].phase # "claim"
            /\ run'[r].batch = run[r].batch /\ run'[r].items = run[r].items
            /\ run'[r].todo = run[r].todo /\ run'[r].id = run[r].id
  PROVE  SoleInv'
<1>1. ItemsInv(r)'
  BY DEF SoleInv, ItemsInv, Busy, Unclaimed
<1>2. DraftsInv'
  BY DEF SoleInv, DraftsInv
<1> QED BY <1>1, <1>2 DEF SoleInv, Sole

LEMMA TakeSole ==
  ASSUME Sole, NEW r \in Runs, IInv, SoleInv, TakeGroup(r)
  PROVE  SoleInv'
<1>1. PICK a \in run[r].batch :
        LET items == Group(run[r].batch, a) IN
        Step(r, [run[r] EXCEPT
                   !.phase = "claim", !.batch = @ \ items,
                   !.items = items, !.todo = items, !.id = ids + 1,
                   !.next = preference[a.owner].next])
  BY DEF TakeGroup
<1> DEFINE items == Group(run[r].batch, a)
           R == run[r]
           l == [R EXCEPT
                   !.phase = "claim", !.batch = R.batch \ items,
                   !.items = items, !.todo = items, !.id = ids + 1,
                   !.next = preference[a.owner].next]
<1>2. R \in Run /\ items \subseteq R.batch
  BY DEF IInv, TypeOK, Group
<1>3. Step(r, l)
  BY <1>1
<1> HIDE DEF items, R
<1>4. /\ l.phase = "claim" /\ l.batch = R.batch \ items /\ l.items = items
      /\ l.todo = items
  BY <1>2 DEF Run
<1> HIDE DEF l
<1>5. run'[r] = l
  BY <1>3, StepRun DEF IInv
<1>6. UNCHANGED <<allocations, draftOf, drafts>>
  BY DEF TakeGroup
<1>7. R.batch \subseteq allocations /\ \A b \in R.batch : draftOf[b] = 0
  BY DEF SoleInv, ItemsInv, R
<1>8. ItemsInv(r)'
  BY <1>2, <1>4, <1>5, <1>6, <1>7 DEF ItemsInv
<1> QED BY <1>6, <1>8 DEF SoleInv, DraftsInv, Sole

LEMMA ClaimSole ==
  ASSUME Sole, NEW r \in Runs, IInv, SoleInv, Claim(r)
  PROVE  SoleInv'
<1>1. PICK a \in run[r].todo :
        /\ draftOf' = [draftOf EXCEPT ![a] = run[r].id]
        /\ Step(r, [run[r] EXCEPT
                      !.todo = @ \ {a},
                      !.phase = IF run[r].todo = {a} THEN "number"
                                ELSE "claim"])
  BY DEF Claim
<1> DEFINE p == IF run[r].todo = {a} THEN "number" ELSE "claim"
           l == [run[r] EXCEPT !.todo = @ \ {a}, !.phase = p]
<1>2. /\ run[r] \in Run /\ p \in {"number", "claim"} /\ Busy(r) /\ GroupInv(r)
      /\ p = "number" => run[r].todo = {a}
  BY DEF Claim, Busy, IInv, TypeOK
<1>3. Step(r, l)
  BY <1>1
<1> HIDE DEF p
<1>4. /\ l.phase = p /\ l.items = run[r].items /\ l.batch = run[r].batch
      /\ l.todo = run[r].todo \ {a} /\ l.id = run[r].id
  BY <1>2 DEF Run
<1> HIDE DEF l
<1>5. run'[r] = l
  BY <1>3, StepRun DEF IInv
<1>6. UNCHANGED <<allocations, drafts>>
  BY DEF Claim
<1>7. /\ a \in run[r].items /\ run[r].todo \subseteq run[r].items
      /\ \A b \in Allocation :
           draftOf'[b] = IF b = a THEN run[r].id ELSE draftOf[b]
  BY <1>1, <1>2 DEF GroupInv, IInv, TypeOK
<1>8. /\ run[r].batch \subseteq Allocation /\ run[r].items \subseteq Allocation
      /\ \A d \in drafts : d.items \subseteq Allocation /\ d.id # 0
  BY <1>2 DEF Run, IInv, TypeOK, Draft
<1>9. ItemsInv(r)
  BY DEF SoleInv
<1>10. ItemsInv(r)'
  <2>1. /\ \A b \in l.batch : draftOf'[b] = 0
        /\ \A b \in l.todo : draftOf'[b] = 0
    BY <1>2, <1>4, <1>7, <1>8, <1>9 DEF ItemsInv
  <2>2. \A b \in l.items \ l.todo : draftOf'[b] = l.id
    BY <1>2, <1>4, <1>7, <1>8, <1>9 DEF ItemsInv
  <2>3. l.phase # "claim" => l.todo = {}
    BY <1>2, <1>4
  <2> QED BY <1>2, <1>4, <1>5, <1>6, <1>9, <2>1, <2>2, <2>3 DEF ItemsInv
<1>11. DraftsInv'
  <2>1. draftOf[a] = 0
    BY <1>1, <1>2, <1>9 DEF ItemsInv
  <2>2. \A d \in drafts : a \notin d.items
    BY <1>8, <2>1 DEF SoleInv, DraftsInv
  <2> QED BY <1>6, <1>7, <1>8, <2>2 DEF SoleInv, DraftsInv
<1> QED BY <1>10, <1>11 DEF SoleInv, Sole

\* By then the group of the draft is claimed, all of it.
LEMMA StoreDraftSole ==
  ASSUME Sole, NEW r \in Runs, IInv, SoleInv, StoreDraft(r)
  PROVE  SoleInv'
<1> DEFINE D == DraftFor(r)
           l == [run[r] EXCEPT !.phase = "groups", !.made = @ \cup {D}]
<1>1. /\ Busy(r) /\ GroupInv(r) /\ run[r] \in Run /\ TypeOK
      /\ run[r].phase = "draft"
  BY DEF StoreDraft, Busy, IInv, TypeOK
<1>2. D.id = run[r].id /\ D.items = run[r].items
  BY <1>1, DraftType
<1>3. drafts' = drafts \cup {D} /\ Step(r, l)
      /\ UNCHANGED <<allocations, draftOf>>
  BY DEF StoreDraft
<1> HIDE DEF D
<1>4. l.phase = "groups" /\ l.batch = run[r].batch
  BY <1>1 DEF Run
<1> HIDE DEF l
<1>5. run'[r] = l
  BY <1>3, StepRun DEF IInv
<1>6. /\ run[r].items # {} /\ run[r].items \subseteq allocations
      /\ \A a \in run[r].items : draftOf[a] = run[r].id
      /\ \A d \in drafts : d.id # run[r].id
  BY <1>1 DEF SoleInv, ItemsInv, GroupInv, OneGroup
<1>7. DraftsInv'
  BY <1>2, <1>3, <1>6 DEF SoleInv, DraftsInv
<1>8. ItemsInv(r)'
  BY <1>3, <1>4, <1>5 DEF SoleInv, ItemsInv, Busy
<1> QED BY <1>7, <1>8 DEF SoleInv, Sole

LEMMA NextSole ==
  ASSUME Sole, IInv, SoleInv, [Next]_vars
  PROVE  SoleInv'
<1>1. CASE UNCHANGED vars \/ Outside
  <2>1. /\ allocations \subseteq allocations'
        /\ UNCHANGED <<draftOf, drafts, run>>
    BY <1>1 DEF vars, Outside, NextMonth, MissFiring, StoreAllocation,
                CreatePreference, ChangePreference
  <2> QED BY <2>1, SoleQuiet
<1>2. ASSUME NEW r \in Runs, Start(r) PROVE SoleInv'
  <2>1. CASE UNCHANGED run
    BY <1>2, <2>1, SoleQuiet DEF Start
  <2>2. CASE Step(r, [Idle EXCEPT !.phase = "groups", !.batch = Unclaimed])
    <3>1. run'[r] = [Idle EXCEPT !.phase = "groups", !.batch = Unclaimed]
      BY <2>2, StepRun DEF IInv
    <3>2. run'[r].phase = "groups" /\ run'[r].batch = Unclaimed
      BY <3>1 DEF Idle
    <3> QED BY <1>2, <3>2, SoleStays DEF Start
  <2> QED BY <1>2, <2>1, <2>2 DEF Start
<1>3. ASSUME NEW r \in Runs, SkipGroup(r) PROVE SoleInv'
  <2>1. PICK a \in run[r].batch :
          Step(r, [run[r] EXCEPT !.batch = @ \ Group(@, a)])
    BY <1>3 DEF SkipGroup
  <2>2. run'[r] = [run[r] EXCEPT !.batch = @ \ Group(@, a)]
    BY <2>1, StepRun DEF IInv
  <2>3. run'[r].phase = "groups" /\ run'[r].batch \subseteq run[r].batch
    BY <1>3, <2>2 DEF SkipGroup, IInv, TypeOK, Run
  <2> QED BY <1>3, <2>3, SoleStays DEF SkipGroup
<1>4. ASSUME NEW r \in Runs, LoseDraft(r) PROVE SoleInv'
  <2>1. run'[r] = [run[r] EXCEPT !.phase = "groups"]
    BY <1>4, StepRun DEF LoseDraft, IInv
  <2>2. run'[r].phase = "groups" /\ run'[r].batch = run[r].batch
    BY <2>1 DEF IInv, TypeOK, Run
  <2> QED BY <1>4, <2>2, SoleStays DEF LoseDraft
<1>5. ASSUME NEW r \in Runs, SendMails(r) \/ Fail(r) PROVE SoleInv'
  <2>1. run'[r] = Idle
    BY <1>5, StepRun DEF SendMails, Fail, IInv
  <2>2. run'[r].phase = "idle" /\ run'[r].batch = {}
    BY <2>1 DEF Idle
  <2>3. UNCHANGED <<allocations, draftOf, drafts>>
    BY <1>5 DEF SendMails, Fail
  <2> QED BY <2>2, <2>3, SoleStays
<1>6. ASSUME NEW r \in Runs, StoreNumber(r) PROVE SoleInv'
  <2>1. run'[r] = [run[r] EXCEPT !.phase = "draft"]
    BY <1>6, StepRun DEF StoreNumber, IInv
  <2>2. /\ run'[r].phase = "draft" /\ run'[r].batch = run[r].batch
        /\ run'[r].items = run[r].items /\ run'[r].todo = run[r].todo
        /\ run'[r].id = run[r].id
    BY <2>1 DEF IInv, TypeOK, Run
  <2>3. Busy(r) /\ run[r].phase # "claim"
    BY <1>6 DEF StoreNumber, Busy
  <2> QED BY <1>6, <2>2, <2>3, SoleStays DEF StoreNumber
<1> QED BY <1>1, <1>2, <1>3, <1>4, <1>5, <1>6, TakeSole, ClaimSole,
           StoreDraftSole
        DEF Next, JobStep, Outside

LEMMA SoleHolds == Sole => (Spec => []SoleInv)
<1> SUFFICES ASSUME Sole PROVE Spec => []SoleInv
  OBVIOUS
<1>1. IInv /\ SoleInv /\ [Next]_vars => SoleInv'
  BY NextSole
<1> QED BY <1>1, InitSole, IInvHolds, PTL DEF Spec

\* The download of a draft finds the one draft, and all it counts.
LEMMA FoundDraft ==
  ASSUME IInv, SoleInv, NEW d \in drafts
  PROVE  /\ \A e \in drafts : e.id = d.id => e = d
         /\ Documents({d}, d.id) = {[draft |-> {d}, rows |-> d.items]}
<1>1. GetAllocationsByDraftId(d.id) = d.items
  BY DEF GetAllocationsByDraftId, IInv, TypeOK, DocumentsInv, SoleInv, DraftsInv
<1>2. d.items # {} /\ \A e \in drafts : e.id = d.id => e = d
  BY DEF SoleInv, DraftsInv
<1> QED BY <1>1, <1>2 DEF Documents

(***************************************************************************)
(* If executions do not overlap, whoever is listed a draft downloads it    *)
(* with exactly the allocations that its total counts, whatever fails and  *)
(* whatever the owners change (invoiceDraft.go:280-300,                    *)
(* allocationStorer.go:102, 116).                                          *)
(***************************************************************************)
THEOREM DownloadsAreComplete == Sole => (Spec => []DownloadsMatchTotals)
<1> SUFFICES ASSUME Sole PROVE Spec => []DownloadsMatchTotals
  OBVIOUS
<1>1. IInv /\ SoleInv => DownloadsMatchTotals
  <2> SUFFICES ASSUME IInv, SoleInv, NEW o \in Owners \cup CspOwners
               PROVE
      /\ \A d \in NodeOwnerDraftList(o) :
           DownloadNodeOwnerDraft(o, d.id) = {[draft |-> {d}, rows |-> d.items]}
      /\ \A d \in CspDraftList(o) :
           DownloadCspDraft(o, d.id) = {[draft |-> {d}, rows |-> d.items]}
    BY DEF DownloadsMatchTotals
  <2>1. ASSUME NEW d \in NodeOwnerDraftList(o)
        PROVE  DownloadNodeOwnerDraft(o, d.id)
                 = {[draft |-> {d}, rows |-> d.items]}
    <3>1. d \in drafts /\ d.owner = o
      BY DEF NodeOwnerDraftList
    <3>2. GetDraftByReportId(d.id, o) = {d}
      BY <3>1, FoundDraft DEF GetDraftByReportId
    <3> QED BY <3>1, <3>2, FoundDraft DEF DownloadNodeOwnerDraft
  <2>2. ASSUME NEW d \in CspDraftList(o)
        PROVE  DownloadCspDraft(o, d.id) = {[draft |-> {d}, rows |-> d.items]}
    <3>1. d \in drafts /\ d.csp = o
      BY DEF CspDraftList
    <3>2. GetCspDraftByReportId(d.id, o) = {d}
      BY <3>1, FoundDraft DEF GetCspDraftByReportId
    <3> QED BY <3>1, <3>2, FoundDraft DEF DownloadCspDraft
  <2> QED BY <2>1, <2>2
<1> QED BY <1>1, SoleHolds, IInvHolds, PTL

-----------------------------------------------------------------------------
(* Announcements.                                                          *)

\* An execution announces what it stored, and an idle one has nothing left.
MadeInv ==
  \A r \in Runs : /\ run[r].made \subseteq drafts
                  /\ run[r].phase = "idle" => run[r].made = {}

AnnounceInv == MadeInv /\ DraftsAnnounced

LEMMA InitAnnounce == Init => AnnounceInv
BY DEF Init, AnnounceInv, MadeInv, DraftsAnnounced, Idle

\* A step after which r has the drafts to announce that it had before.
LEMMA AnnounceStays ==
  ASSUME NEW r \in Runs, NEW l, TypeOK, AnnounceInv, Step(r, l),
         l.made = run[r].made, l.phase # "idle",
         UNCHANGED <<drafts, mails>>
  PROVE  AnnounceInv'
<1>1. run'[r] = l /\ \A s \in Runs \ {r} : run'[s] = run[s]
  BY StepRun
<1>2. MadeInv'
  BY <1>1 DEF AnnounceInv, MadeInv
<1>3. \A s \in Runs : run'[s].made = run[s].made
  BY <1>1
<1> QED BY <1>2, <1>3 DEF AnnounceInv, DraftsAnnounced, mails

LEMMA StoreDraftAnnounce ==
  ASSUME NEW r \in Runs, IInv, AnnounceInv, StoreDraft(r)
  PROVE  AnnounceInv'
<1> DEFINE D == DraftFor(r)
           l == [run[r] EXCEPT !.phase = "groups", !.made = @ \cup {D}]
<1>1. /\ drafts' = drafts \cup {D} /\ Step(r, l)
      /\ UNCHANGED <<mailed, unsent>>
  BY DEF StoreDraft, mails
<1> HIDE DEF D
<1>2. l.phase = "groups" /\ l.made = run[r].made \cup {D}
  BY DEF IInv, TypeOK, Run
<1> HIDE DEF l
<1>3. run'[r] = l /\ \A s \in Runs \ {r} : run'[s] = run[s]
  BY <1>1, StepRun DEF IInv
<1>4. MadeInv'
  BY <1>1, <1>2, <1>3 DEF AnnounceInv, MadeInv
<1>5. DraftsAnnounced'
  <2> SUFFICES ASSUME NEW d \in drafts', d.owner # d.csp,
                      d \notin mailed' \cup unsent'
               PROVE  \E s \in Runs : d \in run'[s].made
    BY DEF DraftsAnnounced
  <2>1. CASE d = D
    BY <1>2, <1>3, <2>1
  <2>2. CASE d \in drafts
    <3>1. PICK s \in Runs : d \in run[s].made
      BY <1>1, <2>2 DEF AnnounceInv, DraftsAnnounced
    <3> QED BY <1>2, <1>3, <3>1
  <2> QED BY <1>1, <2>1, <2>2
<1> QED BY <1>4, <1>5 DEF AnnounceInv

\* No document is empty, so none keeps an owner's e-mail from being sent.
LEMMA MailsAnnounce ==
  ASSUME NEW r \in Runs, IInv, SoleInv, AnnounceInv, SendMails(r)
  PROVE  AnnounceInv'
<1>1. UNCHANGED drafts
  BY DEF SendMails
<1>2. /\ run'[r].phase = "idle" /\ run'[r].made = {}
      /\ \A s \in Runs \ {r} : run'[s] = run[s]
  <2>1. run'[r] = Idle /\ \A s \in Runs \ {r} : run'[s] = run[s]
    BY StepRun DEF SendMails, IInv
  <2> QED BY <2>1 DEF Idle
<1>3. MadeInv'
  BY <1>1, <1>2 DEF AnnounceInv, MadeInv
<1>4. Announced(r) = Due(r)
  <2>1. \A e \in Due(r) : e \in drafts
    BY DEF Due, AnnounceInv, MadeInv
  <2>2. \A e \in drafts : Claims(e) # {}
    BY DEF SoleInv, DraftsInv, Claims
  <2> QED BY <2>1, <2>2 DEF Announced
<1>5. mailed' \cup unsent' = mailed \cup unsent \cup Due(r)
  BY <1>4 DEF SendMails
<1>6. DraftsAnnounced'
  <2> SUFFICES ASSUME NEW d \in drafts, d.owner # d.csp,
                      d \notin mailed' \cup unsent'
               PROVE  \E s \in Runs : d \in run'[s].made
    BY <1>1 DEF DraftsAnnounced
  <2>1. PICK s \in Runs : d \in run[s].made
    BY <1>5 DEF AnnounceInv, DraftsAnnounced
  <2>2. s # r
    BY <1>5, <2>1 DEF Due
  <2> QED BY <1>2, <2>1, <2>2
<1> QED BY <1>3, <1>6 DEF AnnounceInv

LEMMA FailAnnounce ==
  ASSUME NEW r \in Runs, IInv, AnnounceInv, Fail(r)
  PROVE  AnnounceInv'
<1>1. UNCHANGED <<drafts, mailed>> /\ unsent' = unsent \cup run[r].made
  BY DEF Fail
<1>2. run'[r] = Idle /\ \A s \in Runs \ {r} : run'[s] = run[s]
  BY StepRun DEF Fail, IInv
<1>3. MadeInv'
  BY <1>1, <1>2 DEF AnnounceInv, MadeInv, Idle
<1>4. DraftsAnnounced'
  BY <1>1, <1>2 DEF AnnounceInv, DraftsAnnounced
<1> QED BY <1>3, <1>4 DEF AnnounceInv

LEMMA NextAnnounce ==
  ASSUME IInv, SoleInv, AnnounceInv, [Next]_vars
  PROVE  AnnounceInv'
<1>0. TypeOK /\ \A r \in Runs : run[r] \in Run
  BY DEF IInv, TypeOK
<1>1. CASE UNCHANGED <<drafts, run, mails>>
  BY <1>1 DEF AnnounceInv, MadeInv, DraftsAnnounced, mails
<1>2. CASE UNCHANGED vars \/ Outside
  BY <1>1, <1>2 DEF vars, mails, Outside, NextMonth, MissFiring,
                    StoreAllocation, CreatePreference, ChangePreference
<1>3. ASSUME NEW r \in Runs, Start(r) PROVE AnnounceInv'
  <2>1. CASE UNCHANGED run
    BY <1>1, <1>3, <2>1 DEF Start
  <2>2. CASE Step(r, [Idle EXCEPT !.phase = "groups", !.batch = Unclaimed])
    <3> DEFINE l == [Idle EXCEPT !.phase = "groups", !.batch = Unclaimed]
    <3>1. l.phase = "groups" /\ l.made = {}
      BY DEF Idle
    <3>2. run[r].made = {}
      BY <1>3 DEF Start, AnnounceInv, MadeInv
    <3> QED BY <1>0, <1>3, <2>2, <3>1, <3>2, AnnounceStays DEF Start
  <2> QED BY <1>3, <2>1, <2>2 DEF Start
<1>4. ASSUME NEW r \in Runs,
             \/ TakeGroup(r) \/ SkipGroup(r) \/ Claim(r) \/ StoreNumber(r)
             \/ LoseDraft(r)
      PROVE  AnnounceInv'
  <2>1. \E l : Step(r, l) /\ l.made = run[r].made /\ l.phase # "idle"
    <3>1. CASE TakeGroup(r)
      <4>1. PICK a, b, i, p :
              Step(r, [run[r] EXCEPT
                         !.phase = "claim", !.batch = b, !.items = i,
                         !.todo = i, !.id = ids + 1, !.next = p])
        BY <3>1 DEF TakeGroup
      <4> DEFINE l == [run[r] EXCEPT
                         !.phase = "claim", !.batch = b, !.items = i,
                         !.todo = i, !.id = ids + 1, !.next = p]
      <4>2. l.made = run[r].made /\ l.phase = "claim"
        BY <1>0 DEF Run
      <4> QED BY <4>1, <4>2
    <3>2. CASE SkipGroup(r)
      <4>1. PICK b : Step(r, [run[r] EXCEPT !.batch = b])
        BY <3>2 DEF SkipGroup
      <4> DEFINE l == [run[r] EXCEPT !.batch = b]
      <4>2. l.made = run[r].made /\ l.phase = "groups"
        BY <1>0, <3>2 DEF SkipGroup, Run
      <4> QED BY <4>1, <4>2
    <3>3. CASE Claim(r)
      <4>1. PICK t, p : /\ Step(r, [run[r] EXCEPT !.todo = t, !.phase = p])
                        /\ p \in {"number", "claim"}
        BY <3>3 DEF Claim
      <4> DEFINE l == [run[r] EXCEPT !.todo = t, !.phase = p]
      <4>2. l.made = run[r].made /\ l.phase = p
        BY <1>0 DEF Run
      <4> QED BY <4>1, <4>2
    <3>4. CASE StoreNumber(r)
      <4> DEFINE l == [run[r] EXCEPT !.phase = "draft"]
      <4>1. l.made = run[r].made /\ l.phase = "draft"
        BY <1>0 DEF Run
      <4> QED BY <3>4, <4>1 DEF StoreNumber
    <3>5. CASE LoseDraft(r)
      <4> DEFINE l == [run[r] EXCEPT !.phase = "groups"]
      <4>1. l.made = run[r].made /\ l.phase = "groups"
        BY <1>0 DEF Run
      <4> QED BY <3>5, <4>1 DEF LoseDraft
    <3> QED BY <1>4, <3>1, <3>2, <3>3, <3>4, <3>5
  <2>2. UNCHANGED <<drafts, mails>>
    BY <1>4 DEF TakeGroup, SkipGroup, Claim, StoreNumber, LoseDraft
  <2> QED BY <1>0, <2>1, <2>2, AnnounceStays
<1> QED BY <1>2, <1>3, <1>4, StoreDraftAnnounce, MailsAnnounce, FailAnnounce
        DEF Next, JobStep, Outside

(***************************************************************************)
(* If executions do not overlap, a stored draft goes unannounced only if  *)
(* its e-mail failed or its execution ended before the e-mails, whatever   *)
(* the owners change (monthlyPoaiInvoiceService.go:91-123, 123-147).       *)
(***************************************************************************)
THEOREM DraftsAreAnnounced == Sole => (Spec => []DraftsAnnounced)
<1> SUFFICES ASSUME Sole PROVE Spec => []DraftsAnnounced
  OBVIOUS
<1>1. IInv /\ SoleInv /\ AnnounceInv /\ [Next]_vars => AnnounceInv'
  BY NextAnnounce
<1>2. AnnounceInv => DraftsAnnounced
  BY DEF AnnounceInv
<1> QED BY <1>1, <1>2, InitAnnounce, SoleHolds, IInvHolds, PTL DEF Spec

-----------------------------------------------------------------------------
(* Billing.                                                                *)

\* Executions do not overlap, and no owner changes his number.
Alone == Sole /\ Editors = {}

\* No draft of the owner bears the number that execution r read, and after
\* the number is raised his next one is greater.
NumberInv(r) ==
  Busy(r) =>
    LET o == OwnerOf(run[r].items) IN
    /\ \A d \in drafts : Numbered(d, o) => d.number < run[r].next
    /\ run[r].phase = "draft" /\ ~IsOwn(run[r].items)
         => preference[o].stored /\ run[r].next < preference[o].next

\* An owner with numbers has a row, and his next one is greater.
RowInv(o) ==
  \A d \in drafts : Numbered(d, o) =>
    preference[o].stored /\ d.number < preference[o].next

BillInv == (\A o \in Owners : RowInv(o)) /\ (\A r \in Runs : NumberInv(r))

LEMMA InitBill == Init => BillInv
BY DEF Init, BillInv, NumberInv, RowInv, Busy, Idle

\* A step after which r does what it did before, or is not busy.
LEMMA BillStays ==
  ASSUME Alone, NEW r \in Runs, BillInv, UNCHANGED <<preference, drafts>>,
         \/ run'[r].phase \notin {"claim", "number", "draft"}
         \/ /\ Busy(r) /\ run[r].phase # "draft" /\ run'[r].phase # "draft"
            /\ run'[r].items = run[r].items /\ run'[r].next = run[r].next
  PROVE  BillInv'
<1>1. NumberInv(r)'
  BY DEF BillInv, NumberInv, Busy
<1> QED BY <1>1 DEF BillInv, RowInv, Alone, Sole

LEMMA TakeBill ==
  ASSUME Alone, NEW r \in Runs, IInv, BillInv, TakeGroup(r)
  PROVE  BillInv'
<1>1. PICK a \in run[r].batch :
        LET items == Group(run[r].batch, a) IN
        Step(r, [run[r] EXCEPT
                   !.phase = "claim", !.batch = @ \ items,
                   !.items = items, !.todo = items, !.id = ids + 1,
                   !.next = preference[a.owner].next])
  BY DEF TakeGroup
<1> DEFINE items == Group(run[r].batch, a)
           R == run[r]
           n == preference[a.owner].next
           l == [R EXCEPT
                   !.phase = "claim", !.batch = R.batch \ items,
                   !.items = items, !.todo = items, !.id = ids + 1,
                   !.next = n]
<1>2. R \in Run /\ R.batch \in SUBSET Allocation
  BY DEF IInv, TypeOK, Run
<1>3. items \subseteq R.batch /\ OneGroup(items) /\ a \in items
  BY <1>2, GroupFacts DEF Group
<1>4. OwnerOf(items) = a.owner /\ a.owner \in Owners
  BY <1>2, <1>3, OwnersOfGroup DEF Allocation
<1>5. Step(r, l)
  BY <1>1
<1> HIDE DEF items, R, n
<1>6. l.phase = "claim" /\ l.items = items /\ l.next = n
  BY <1>2 DEF Run
<1> HIDE DEF l
<1>7. run'[r] = l
  BY <1>5, StepRun DEF IInv
<1>8. UNCHANGED <<preference, drafts>>
  BY DEF TakeGroup, owners
<1>9. NumberInv(r)'
  <2>1. \A d \in drafts : Numbered(d, a.owner) => d.number < n
    BY <1>4 DEF BillInv, RowInv, n
  <2> QED BY <1>4, <1>6, <1>7, <1>8, <2>1 DEF NumberInv
<1> QED BY <1>8, <1>9 DEF BillInv, RowInv, Alone, Sole

LEMMA ClaimBill ==
  ASSUME Alone, NEW r \in Runs, IInv, BillInv, Claim(r)
  PROVE  BillInv'
<1>1. PICK t, p : /\ Step(r, [run[r] EXCEPT !.todo = t, !.phase = p])
                  /\ p \in {"number", "claim"}
  BY DEF Claim
<1>2. run'[r] = [run[r] EXCEPT !.todo = t, !.phase = p]
  BY <1>1, StepRun DEF IInv
<1>3. /\ run'[r].phase = p /\ run'[r].items = run[r].items
      /\ run'[r].next = run[r].next
  BY <1>2 DEF IInv, TypeOK, Run
<1>4. Busy(r) /\ run[r].phase # "draft"
  BY DEF Claim, Busy
<1>5. UNCHANGED <<preference, drafts>>
  BY DEF Claim, owners
<1> QED BY <1>1, <1>3, <1>4, <1>5, BillStays

LEMMA NumberBill ==
  ASSUME Alone, NEW r \in Runs, IInv, BillInv, StoreNumber(r)
  PROVE  BillInv'
<1> DEFINE l == [run[r] EXCEPT !.phase = "draft"]
           o == OwnerOf(run[r].items)
           n == run[r].next
<1>1. /\ run[r] \in Run /\ Busy(r) /\ GroupInv(r) /\ run[r].phase = "number"
  BY DEF StoreNumber, Busy, IInv, TypeOK
<1>2. /\ l.phase = "draft" /\ l.items = run[r].items /\ l.next = run[r].next
  BY <1>1 DEF Run
<1>3. Step(r, l) /\ UNCHANGED drafts
  BY DEF StoreNumber
<1> HIDE DEF l
<1>4. run'[r] = l
  BY <1>3, StepRun DEF IInv
<1>5. /\ o \in Owners /\ n \in Int /\ n < n + 1
      /\ \A d \in drafts : d.number \in Int
      /\ \A d \in drafts : Numbered(d, o) => d.number < n
  <2>1. run[r].items \in SUBSET Allocation /\ n \in Int
    BY <1>1 DEF Run
  <2>2. o \in Owners
    BY <1>1, <2>1, OwnersOfGroup DEF GroupInv
  <2>3. \A d \in drafts : d.number \in Int
    BY DEF IInv, TypeOK, Draft
  <2> QED BY <1>1, <2>1, <2>2, <2>3 DEF BillInv, NumberInv
<1>6. \/ IsOwn(run[r].items) /\ UNCHANGED preference
      \/ /\ preference'[o].stored /\ preference'[o].next = n + 1
         /\ \A p \in Owners \ {o} : preference'[p] = preference[p]
  BY <1>5 DEF StoreNumber, IInv, TypeOK
<1>7. ASSUME NEW p \in Owners PROVE RowInv(p)'
  <2>1. CASE preference'[p] = preference[p]
    BY <1>3, <2>1 DEF BillInv, RowInv, Numbered
  <2>2. CASE p = o /\ preference'[o].stored /\ preference'[o].next = n + 1
    <3>1. \A d \in drafts : Numbered(d, p) => d.number < n + 1
      BY <1>5, <2>2
    <3> HIDE DEF o
    <3> QED BY <1>3, <2>2, <3>1 DEF RowInv, Numbered
  <2> QED BY <1>6, <2>1, <2>2
<1>8. NumberInv(r)'
  <2>1. o' = o /\ run'[r].next = n
    BY <1>2, <1>4
  <2>2. ~IsOwn(run[r].items) => preference'[o].stored /\ n < preference'[o].next
    BY <1>5, <1>6
  <2> HIDE DEF o, n
  <2>3. \A d \in drafts : Numbered(d, o) => d.number < n
    BY <1>5
  <2> QED BY <1>2, <1>3, <1>4, <2>1, <2>2, <2>3 DEF NumberInv, Numbered, o
<1> QED BY <1>7, <1>8 DEF BillInv, Alone, Sole

LEMMA StoreDraftBill ==
  ASSUME Alone, NEW r \in Runs, IInv, SoleInv, BillInv, StoreDraft(r)
  PROVE  BillInv' /\ [Bills!Next]_drafts
<1> DEFINE D == DraftFor(r)
           l == [run[r] EXCEPT !.phase = "groups", !.made = @ \cup {D}]
           o == OwnerOf(run[r].items)
           n == run[r].next
<1>1. /\ Busy(r) /\ GroupInv(r) /\ run[r] \in Run /\ TypeOK
      /\ run[r].phase = "draft"
  BY DEF StoreDraft, Busy, IInv, TypeOK
<1>2. /\ D \in Draft /\ D.id = run[r].id /\ D.items = run[r].items
      /\ D.owner = o /\ D.items # {}
      /\ IsOwn(run[r].items) <=> D.owner = D.csp
      /\ D.number = IF IsOwn(run[r].items) THEN 0 ELSE n
  BY <1>1, DraftType, OwnDraft
<1>3. drafts' = drafts \cup {D} /\ Step(r, l) /\ UNCHANGED preference
  BY DEF StoreDraft, owners
<1> HIDE DEF D
<1>4. l.phase = "groups"
  BY <1>1 DEF Run
<1> HIDE DEF l
<1>5. run'[r] = l
  BY <1>3, StepRun DEF IInv
<1>6. /\ ~IsOwn(run[r].items) => preference[o].stored /\ n < preference[o].next
      /\ \A d \in drafts : Numbered(d, o) => d.number < n
      /\ \A d \in drafts : d.items \cap run[r].items = {}
  <2>1. \A a \in run[r].items : draftOf[a] = run[r].id
    BY <1>1 DEF SoleInv, ItemsInv
  <2>2. \A d \in drafts : /\ d.id # run[r].id
                         /\ \A a \in d.items : draftOf[a] = d.id
    BY <1>1 DEF GroupInv, SoleInv, DraftsInv
  <2>3. \A d \in drafts : d.items \cap run[r].items = {}
    BY <2>1, <2>2
  <2> QED BY <1>1, <2>3 DEF BillInv, NumberInv
<1>7. BillInv'
  <2> HIDE DEF o, n
  <2>1. Numbered(D, o) => preference[o].stored /\ D.number < preference[o].next
    BY <1>2, <1>6 DEF Numbered
  <2>2. \A p \in Owners : RowInv(p)'
    BY <1>2, <1>3, <2>1 DEF BillInv, RowInv, Numbered
  <2>3. NumberInv(r)'
    BY <1>4, <1>5 DEF NumberInv, Busy
  <2> QED BY <2>2, <2>3 DEF BillInv, Alone, Sole
<1>8. Bills!Issue(D)
  <2> HIDE DEF o, n
  <2>1. D.items \cap Bills!Counted = {}
    BY <1>2, <1>6 DEF Bills!Counted
  <2>2. CASE D.owner = D.csp
    BY <1>2, <1>3, <2>1, <2>2 DEF Bills!Issue
  <2>3. CASE D.owner # D.csp
    <3>1. \A m \in Bills!Numbers(D.owner) : m < D.number
      BY <1>2, <1>6, <2>3 DEF Bills!Numbers, Numbered
    <3> QED BY <1>2, <1>3, <2>1, <2>3, <3>1 DEF Bills!Issue
  <2> QED BY <2>2, <2>3
<1>9. D \in drafts' \ drafts
  BY <1>1, <1>2, <1>3 DEF GroupInv
<1> QED BY <1>7, <1>8, <1>9 DEF Bills!Next

\* An owner who creates his row has no numbers yet.
LEMMA CreateBill ==
  ASSUME IInv, BillInv, NEW o \in Owners, NEW n \in Typed,
         CreatePreference(o, n)
  PROVE  BillInv' /\ UNCHANGED drafts
<1>1. UNCHANGED <<drafts, run>>
  BY DEF CreatePreference
<1>2. \A p \in Owners : preference[p].stored => preference'[p] = preference[p]
  BY CreateNumbers
<1>3. \A r \in Runs : Busy(r) => OwnerOf(run[r].items) \in Owners
  <2> SUFFICES ASSUME NEW r \in Runs, Busy(r)
               PROVE  OwnerOf(run[r].items) \in Owners
    OBVIOUS
  <2>1. run[r].items \in SUBSET Allocation /\ OneGroup(run[r].items)
    BY DEF IInv, TypeOK, Run, GroupInv
  <2> QED BY <2>1, OwnersOfGroup
<1>4. \A p \in Owners : RowInv(p)'
  BY <1>1, <1>2 DEF BillInv, RowInv, Numbered
<1>5. \A r \in Runs : NumberInv(r)'
  BY <1>1, <1>2, <1>3 DEF BillInv, NumberInv, Busy, Numbered
<1> QED BY <1>1, <1>4, <1>5 DEF BillInv

LEMMA BillNext ==
  ASSUME Alone, IInv, SoleInv, BillInv, [Next]_vars
  PROVE  BillInv' /\ [Bills!Next]_drafts
<1>1. CASE UNCHANGED <<preference, drafts, run>>
  BY <1>1 DEF BillInv, NumberInv, RowInv, Busy
<1>2. ASSUME NEW r \in Runs,
             \/ Start(r) \/ SkipGroup(r) \/ LoseDraft(r) \/ SendMails(r)
             \/ Fail(r)
      PROVE  BillInv' /\ UNCHANGED drafts
  <2>1. UNCHANGED <<preference, drafts>>
    BY <1>2 DEF Start, SkipGroup, LoseDraft, SendMails, Fail, owners
  <2>2. CASE UNCHANGED run
    BY <1>1, <2>1, <2>2
  <2>3. CASE run' # run
    <3>1. run'[r].phase \in {"groups", "idle"}
      <4>1. CASE Start(r)
        <5>1. run'[r] = [Idle EXCEPT !.phase = "groups", !.batch = Unclaimed]
          BY <2>3, <4>1, StepRun DEF Start, IInv
        <5> QED BY <5>1 DEF Idle
      <4>2. CASE SkipGroup(r)
        <5>1. PICK b : Step(r, [run[r] EXCEPT !.batch = b])
          BY <4>2 DEF SkipGroup
        <5>2. run'[r] = [run[r] EXCEPT !.batch = b]
          BY <5>1, StepRun DEF IInv
        <5> QED BY <4>2, <5>2 DEF SkipGroup, IInv, TypeOK, Run
      <4>3. CASE LoseDraft(r)
        <5>1. run'[r] = [run[r] EXCEPT !.phase = "groups"]
          BY <4>3, StepRun DEF LoseDraft, IInv
        <5> QED BY <5>1 DEF IInv, TypeOK, Run
      <4>4. CASE SendMails(r) \/ Fail(r)
        <5>1. run'[r] = Idle
          BY <4>4, StepRun DEF SendMails, Fail, IInv
        <5> QED BY <5>1 DEF Idle
      <4> QED BY <1>2, <4>1, <4>2, <4>3, <4>4
    <3> QED BY <2>1, <3>1, BillStays
  <2> QED BY <2>2, <2>3
<1>3. ASSUME NEW r \in Runs, TakeGroup(r) \/ Claim(r) \/ StoreNumber(r)
      PROVE  BillInv' /\ UNCHANGED drafts
  <2>1. UNCHANGED drafts
    BY <1>3 DEF TakeGroup, Claim, StoreNumber
  <2> QED BY <1>3, <2>1, TakeBill, ClaimBill, NumberBill
<1>4. CASE UNCHANGED vars \/ NextMonth \/ MissFiring
           \/ \E a \in Allocation \ allocations : StoreAllocation(a)
  BY <1>1, <1>4 DEF vars, NextMonth, MissFiring, StoreAllocation, owners
<1>5. CASE \E o \in Editors, n \in Typed : ChangePreference(o, n)
  BY <1>5 DEF Alone
<1> QED BY <1>2, <1>3, <1>4, <1>5, CreateBill, StoreDraftBill
        DEF Next, JobStep

(***************************************************************************)
(* If executions do not overlap and owners do not change their numbers,    *)
(* the job implements billing: whatever fails, no two drafts count the     *)
(* same work and an owner's numbers go up, from whatever number he began   *)
(* (monthlyPoaiInvoiceService.go:36-123).                                  *)
(***************************************************************************)
THEOREM ImplementsBilling == Alone => (Spec => BillingSpec)
<1> SUFFICES ASSUME Alone PROVE Spec => BillingSpec
  OBVIOUS
<1>1. Init => Bills!Init
  BY DEF Init, Bills!Init
<1>2. IInv /\ SoleInv /\ BillInv /\ [Next]_vars
        => BillInv' /\ [Bills!Next]_drafts
  BY BillNext
<1>3. Spec => []SoleInv
  BY SoleHolds DEF Alone
<1> QED BY <1>1, <1>2, <1>3, InitBill, IInvHolds, PTL
        DEF Spec, BillingSpec, Bills!Spec

-----------------------------------------------------------------------------
(* The amounts of a document: induction over the numbers, and sums.        *)
(*                                                                         *)
(* The rule of induction is derived from the least-number principle, for   *)
(* the set of the numbers that have the property.                          *)

LEMMA LeastNat ==
  ASSUME NEW S, S \subseteq Nat, S # {}
  PROVE  \E n \in S : \A m \in S : n <= m
<1> DEFINE R == OpToRel(<, Nat)
<1>1. IsWellFoundedOn(R, Nat)
  BY NatLessThanWellFounded
<1>2. PICK n \in S : \A m \in S : <<m, n>> \notin R
  BY <1>1, WFMin, Zenon
<1>3. \A m \in S : ~(m < n)
  BY <1>2 DEF OpToRel
<1> HIDE DEF R
<1> QED BY <1>2, <1>3

LEMMA Induction ==
  ASSUME NEW S, 0 \in S, \A n \in Nat : n \in S => n + 1 \in S
  PROVE  \A n \in Nat : n \in S
<1> SUFFICES ASSUME Nat \ S # {} PROVE FALSE
  OBVIOUS
<1>1. PICK n \in Nat \ S : \A m \in Nat \ S : n <= m
  BY LeastNat, Nat \ S \subseteq Nat
<1>2. n # 0 /\ n - 1 \in Nat /\ n - 1 \in S
  BY <1>1
<1> QED BY <1>1, <1>2

\* A function on the subsets of 1..k that adds a number to its value without
\* the greatest element: what SumSeq is the value of.
Adds(h, k, ns) ==
  \A s \in SUBSET (1..k) :
    h[s] = IF s = {} THEN 0 ELSE h[s \ {Max(s)}] + ns[Max(s)]

HasAdder(k, ns) == \E h \in [SUBSET (1..k) -> Int] : Adds(h, k, ns)

LEMMA MaxOf ==
  ASSUME NEW k \in Nat, NEW s \in SUBSET (1..(k + 1)), k + 1 \in s
  PROVE  Max(s) = k + 1
<1>1. s \subseteq Int /\ \A y \in s : k + 1 >= y
  OBVIOUS
<1>2. Max(s) \in s /\ \A y \in s : Max(s) >= y
  BY <1>1 DEF Max
<1>3. Max(s) \in Int /\ k + 1 >= Max(s) /\ Max(s) >= k + 1
  BY <1>1, <1>2
<1> QED BY <1>3

LEMMA AddsExists ==
  ASSUME NEW n \in Nat, NEW ns \in [1..n -> Int]
  PROVE  HasAdder(n, ns)
<1> DEFINE S == {k \in Nat : k <= n => HasAdder(k, ns)}
<1>1. 0 \in S
  <2>1. \A s \in SUBSET (1..0) : s = {}
    OBVIOUS
  <2> DEFINE g == [s \in SUBSET (1..0) |-> 0]
  <2>2. g \in [SUBSET (1..0) -> Int] /\ Adds(g, 0, ns)
    BY <2>1 DEF Adds
  <2> QED BY <2>2 DEF HasAdder
<1>2. ASSUME NEW k \in Nat, k \in S PROVE k + 1 \in S
  <2> SUFFICES ASSUME k + 1 <= n
               PROVE  HasAdder(k + 1, ns)
    OBVIOUS
  <2>1. HasAdder(k, ns)
    BY <1>2
  <2> HIDE DEF S
  <2>2. PICK h \in [SUBSET (1..k) -> Int] : Adds(h, k, ns)
    BY <2>1 DEF HasAdder
  <2> DEFINE g == [s \in SUBSET (1..(k + 1)) |->
                     IF k + 1 \in s THEN h[s \ {k + 1}] + ns[k + 1] ELSE h[s]]
  <2>3. \A s \in SUBSET (1..(k + 1)) :
          /\ s \ {k + 1} \in SUBSET (1..k)
          /\ k + 1 \notin s => s \in SUBSET (1..k)
    OBVIOUS
  <2>4. g \in [SUBSET (1..(k + 1)) -> Int]
    BY <2>3
  <2>5. ASSUME NEW s \in SUBSET (1..(k + 1))
        PROVE  g[s] = IF s = {} THEN 0 ELSE g[s \ {Max(s)}] + ns[Max(s)]
    <3>1. CASE k + 1 \in s
      <4>1. Max(s) = k + 1
        BY <3>1, MaxOf
      <4>2. g[s \ {k + 1}] = h[s \ {k + 1}]
        BY <2>3
      <4> QED BY <3>1, <4>1, <4>2
    <3>2. CASE k + 1 \notin s
      <4>1. g[s] = h[s] /\ s \in SUBSET (1..k)
        BY <2>3, <3>2
      <4>2. g[s \ {Max(s)}] = h[s \ {Max(s)}]
        BY <2>3, <3>2, k + 1 \notin s \ {Max(s)}
      <4>3. h[s] = IF s = {} THEN 0 ELSE h[s \ {Max(s)}] + ns[Max(s)]
        BY <2>2, <4>1 DEF Adds
      <4> QED BY <4>1, <4>2, <4>3
    <3> QED BY <3>1, <3>2
  <2> HIDE DEF g
  <2> QED BY <2>4, <2>5 DEF Adds, HasAdder
<1> HIDE DEF S
<1>3. n \in S
  BY <1>1, <1>2, Induction
<1> QED BY <1>3 DEF S

\* The partial sums of a list.
Partial(p, n, ns) ==
  /\ p \in [0..n -> Int]
  /\ p[0] = 0
  /\ \A k \in 1..n : p[k] = p[k - 1] + ns[k]

LEMMA SumSeqPartial ==
  ASSUME NEW n \in Nat, NEW ns \in [1..n -> Int]
  PROVE  \E p : Partial(p, n, ns) /\ SumSeq(ns) = p[n]
<1> DEFINE h == CHOOSE h : h = [s \in SUBSET (1..n) |->
                  IF s = {} THEN 0 ELSE h[s \ {Max(s)}] + ns[Max(s)]]
<1>1. SumSeq(ns) = h[1..n]
  BY DEF SumSeq, FoldLeft, MapThenFoldSet
<1>2. PICK g \in [SUBSET (1..n) -> Int] : Adds(g, n, ns)
  BY AddsExists DEF HasAdder
<1>3. g = [s \in SUBSET (1..n) |->
             IF s = {} THEN 0 ELSE g[s \ {Max(s)}] + ns[Max(s)]]
  BY <1>2 DEF Adds
<1>4. h = [s \in SUBSET (1..n) |->
             IF s = {} THEN 0 ELSE h[s \ {Max(s)}] + ns[Max(s)]]
  BY <1>3
<1> HIDE DEF h
<1>5. h[{}] = 0
  BY <1>4
<1>6. ASSUME NEW k \in 1..n
      PROVE  h[1..k] = h[1..(k - 1)] + ns[k]
  <2>1. Max(1..k) = k
    BY MaxOf, k - 1 \in Nat, k \in 1..k, k = (k - 1) + 1
  <2>2. 1..k \in SUBSET (1..n) /\ k \in 1..k
    OBVIOUS
  <2>3. (1..k) \ {k} = 1..(k - 1)
    OBVIOUS
  <2>4. h[1..k] = h[(1..k) \ {Max(1..k)}] + ns[Max(1..k)]
    BY <1>4, <2>2
  <2> QED BY <2>1, <2>2, <2>4, <2>3
<1> DEFINE S == {k \in Nat : k <= n => h[1..k] \in Int}
<1>7. 0 \in S
  BY <1>5, 1..0 = {}
<1>8. ASSUME NEW k \in Nat, k \in S PROVE k + 1 \in S
  BY <1>6, <1>8
<1> HIDE DEF S
<1>9. \A k \in Nat : k \in S
  BY <1>7, <1>8, Induction
<1>10. \A k \in 0..n : h[1..k] \in Int
  BY <1>9 DEF S
<1> DEFINE p == [k \in 0..n |-> h[1..k]]
<1>11. p \in [0..n -> Int] /\ p[0] = 0 /\ p[n] = h[1..n]
  BY <1>5, <1>10, 1..0 = {}
<1>12. \A k \in 1..n : p[k] = p[k - 1] + ns[k]
  BY <1>6
<1> HIDE DEF p
<1>13. Partial(p, n, ns) /\ SumSeq(ns) = p[n]
  BY <1>1, <1>11, <1>12 DEF Partial
<1> QED BY <1>13

LEMMA PartialNext ==
  ASSUME NEW n \in Nat, NEW ns \in [1..n -> Int], NEW p, Partial(p, n, ns),
         NEW k \in Nat, k + 1 <= n
  PROVE  /\ p[k] \in Int /\ ns[k + 1] \in Int
         /\ p[k + 1] = p[k] + ns[k + 1]
<1>1. k + 1 \in 1..n /\ (k + 1) - 1 = k /\ k \in 0..n
  OBVIOUS
<1> QED BY <1>1 DEF Partial

LEMMA Distributes ==
  \A a, x, y \in Int : a * (x + y) = a * x + a * y /\ a * x \in Int
OBVIOUS

\* List ls is a times ns and b times ms, element by element.
Combines(ls, n, a, ns, b, ms) ==
  /\ n \in Nat /\ ns \in [1..n -> Int] /\ ms \in [1..n -> Int]
  /\ a \in Int /\ b \in Int /\ ls \in [1..n -> Int]
  /\ \A i \in 1..n : ls[i] = a * ns[i] + b * ms[i]

LEMMA SumSeqLinear ==
  ASSUME NEW n, NEW ns, NEW ms, NEW ls, NEW a, NEW b,
         Combines(ls, n, a, ns, b, ms)
  PROVE  SumSeq(ls) = a * SumSeq(ns) + b * SumSeq(ms)
<1>1. /\ n \in Nat /\ ns \in [1..n -> Int] /\ ms \in [1..n -> Int]
      /\ a \in Int /\ b \in Int /\ ls \in [1..n -> Int]
      /\ \A i \in 1..n : ls[i] = a * ns[i] + b * ms[i]
  BY DEF Combines
<1> USE <1>1
<1>2. PICK p : Partial(p, n, ns) /\ SumSeq(ns) = p[n]
  BY SumSeqPartial
<1>3. PICK q : Partial(q, n, ms) /\ SumSeq(ms) = q[n]
  BY SumSeqPartial
<1>4. PICK r : Partial(r, n, ls) /\ SumSeq(ls) = r[n]
  BY SumSeqPartial
<1> DEFINE S == {k \in Nat : k <= n => r[k] = a * p[k] + b * q[k]}
<1>5. 0 \in S
  BY <1>2, <1>3, <1>4 DEF Partial
<1>6. ASSUME NEW k \in Nat, k \in S PROVE k + 1 \in S
  <2> SUFFICES ASSUME k + 1 <= n
               PROVE  r[k + 1] = a * p[k + 1] + b * q[k + 1]
    OBVIOUS
  <2>1. /\ p[k] \in Int /\ q[k] \in Int
        /\ ns[k + 1] \in Int /\ ms[k + 1] \in Int
        /\ p[k + 1] = p[k] + ns[k + 1]
        /\ q[k + 1] = q[k] + ms[k + 1]
        /\ r[k + 1] = r[k] + ls[k + 1]
    BY <1>2, <1>3, <1>4, PartialNext
  <2>2. r[k] = a * p[k] + b * q[k]
    BY <1>6
  <2>3. ls[k + 1] = a * ns[k + 1] + b * ms[k + 1]
    BY k + 1 \in 1..n
  <2> DEFINE u == a * p[k]
             v == b * q[k]
             x == a * ns[k + 1]
             y == b * ms[k + 1]
  <2>4. a * (p[k] + ns[k + 1]) = u + x
    BY <2>1, Distributes
  <2>5. b * (q[k] + ms[k + 1]) = v + y
    BY <2>1, Distributes
  <2>6. a * p[k + 1] = u + x /\ b * q[k + 1] = v + y
    BY <2>1, <2>4, <2>5, Zenon
  <2>7. u \in Int /\ v \in Int /\ x \in Int /\ y \in Int
    BY <2>1, Distributes, Zenon
  <2>8. ls[k + 1] = x + y /\ r[k] = u + v
    BY <2>2, <2>3
  <2> HIDE DEF u, v, x, y
  <2>9. r[k + 1] = (u + x) + (v + y)
    BY <2>1, <2>7, <2>8
  <2> QED BY <2>6, <2>9, Zenon
<1> HIDE DEF S
<1>7. n \in S
  BY <1>5, <1>6, Induction
<1> QED BY <1>2, <1>3, <1>4, <1>7 DEF S

LEMMA SumSeqBounded ==
  ASSUME NEW n \in Nat, NEW ns \in [1..n -> Int], NEW c \in Nat,
         \A i \in 1..n : -c <= ns[i] /\ ns[i] <= c
  PROVE  -(n * c) <= SumSeq(ns) /\ SumSeq(ns) <= n * c
<1>1. PICK p : Partial(p, n, ns) /\ SumSeq(ns) = p[n]
  BY SumSeqPartial
<1> DEFINE S == {k \in Nat : k <= n => -(k * c) <= p[k] /\ p[k] <= k * c}
<1>2. 0 \in S
  BY <1>1 DEF Partial
<1>3. ASSUME NEW k \in Nat, k \in S PROVE k + 1 \in S
  <2> SUFFICES ASSUME k + 1 <= n
               PROVE  -((k + 1) * c) <= p[k + 1] /\ p[k + 1] <= (k + 1) * c
    OBVIOUS
  <2>1. k + 1 \in 1..n /\ (k + 1) - 1 = k /\ (k + 1) * c = k * c + c
    OBVIOUS
  <2>2. p[k + 1] = p[k] + ns[k + 1] /\ p[k] \in Int /\ ns[k + 1] \in Int
    BY <1>1, <2>1 DEF Partial
  <2>3. -(k * c) <= p[k] /\ p[k] <= k * c
    BY <1>3
  <2>4. -c <= ns[k + 1] /\ ns[k + 1] <= c
    BY <2>1
  <2>5. k * c \in Int
    OBVIOUS
  <2> QED BY <2>1, <2>2, <2>3, <2>4, <2>5
<1> HIDE DEF S
<1>4. n \in S
  BY <1>2, <1>3, Induction
<1> QED BY <1>1, <1>4 DEF S

\* List ms is ns with x and y before it.
Follows(ms, n, x, y, ns) ==
  /\ n \in Nat /\ ns \in [1..n -> Int] /\ ms \in [1..(n + 2) -> Int]
  /\ x \in Int /\ y \in Int /\ ms[1] = x /\ ms[2] = y
  /\ \A i \in 1..n : ms[i + 2] = ns[i]

LEMMA SumSeqCons ==
  ASSUME NEW n, NEW ns, NEW x, NEW y, NEW ms, Follows(ms, n, x, y, ns)
  PROVE  SumSeq(ms) = x + y + SumSeq(ns)
<1>1. /\ n \in Nat /\ ns \in [1..n -> Int] /\ ms \in [1..(n + 2) -> Int]
      /\ x \in Int /\ y \in Int /\ ms[1] = x /\ ms[2] = y
      /\ \A i \in 1..n : ms[i + 2] = ns[i]
  BY DEF Follows
<1> USE <1>1
<1>2. PICK p : Partial(p, n, ns) /\ SumSeq(ns) = p[n]
  BY SumSeqPartial
<1>3. PICK q : Partial(q, n + 2, ms) /\ SumSeq(ms) = q[n + 2]
  BY SumSeqPartial, n + 2 \in Nat
<1> DEFINE S == {k \in Nat : k <= n => q[k + 2] = x + y + p[k]}
<1>4. 0 \in S
  <2>1. 1 \in 1..(n + 2) /\ 2 \in 1..(n + 2) /\ 1 - 1 = 0 /\ 2 - 1 = 1
    OBVIOUS
  <2>2. q[1] = q[0] + x /\ q[2] = q[1] + y /\ q[0] = 0 /\ p[0] = 0
    BY <1>2, <1>3, <2>1 DEF Partial
  <2> QED BY <2>2
<1>5. ASSUME NEW k \in Nat, k \in S PROVE k + 1 \in S
  <2> SUFFICES ASSUME k + 1 <= n
               PROVE  q[k + 3] = x + y + p[k + 1]
    OBVIOUS
  <2>1. /\ p[k] \in Int /\ ns[k + 1] \in Int
        /\ p[k + 1] = p[k] + ns[k + 1]
    BY <1>2, PartialNext
  <2>2. (k + 2) + 1 = k + 3 /\ (k + 1) + 2 = k + 3 /\ k + 3 <= n + 2
    OBVIOUS
  <2>3. q[(k + 2) + 1] = q[k + 2] + ms[(k + 2) + 1]
    BY <1>3, PartialNext, n + 2 \in Nat, k + 2 \in Nat, (k + 2) + 1 <= n + 2
  <2>4. q[k + 3] = q[k + 2] + ms[k + 3]
    BY <2>2, <2>3
  <2>5. ms[k + 3] = ns[k + 1]
    BY <2>2, k + 1 \in 1..n
  <2>6. q[k + 2] = x + y + p[k]
    BY <1>5
  <2>7. q[k + 3] = (x + y + p[k]) + ns[k + 1]
    BY <2>4, <2>5, <2>6
  <2>8. (x + y + p[k]) + ns[k + 1] = x + y + (p[k] + ns[k + 1])
    BY <2>1
  <2>9. q[k + 3] = x + y + p[k + 1]
    BY <2>1, <2>7, <2>8
  <2> QED BY <2>2, <2>9
<1> HIDE DEF S
<1>6. n \in S
  BY <1>4, <1>5, Induction
<1> QED BY <1>2, <1>3, <1>6 DEF S

LEMMA SumSeqType ==
  ASSUME NEW n \in Nat, NEW ns \in [1..n -> Int]
  PROVE  SumSeq(ns) \in Int
BY SumSeqPartial DEF Partial

-----------------------------------------------------------------------------
(* The amounts of a document: every line as a whole number of parts of     *)
(* Den(t), which the denominators of all of them divide.                   *)

Taxes(t, type) ==
  [i \in DOMAIN t.extras |->
     IF t.extras[i].type = type THEN t.extras[i].value ELSE 0]

LEMMA ExtrasType ==
  ASSUME NEW t \in Terms
  PROVE  /\ t.price \in Nat /\ t.vat \in Nat /\ t.rate \in Nat
         /\ Len(t.extras) \in Nat /\ DOMAIN t.extras = 1..Len(t.extras)
         /\ \A i \in 1..Len(t.extras) :
              /\ t.extras[i].type \in {"fixed", "percentage"}
              /\ t.extras[i].value \in Int
<1> DEFINE Extra == [type : {"fixed", "percentage"}, value : Int]
<1>1. /\ t.price \in Nat /\ t.vat \in Nat /\ t.rate \in Nat
      /\ t.extras \in Seq(Extra)
  BY TermsAssumption
<1> HIDE DEF Extra
<1>2. /\ Len(t.extras) \in Nat /\ DOMAIN t.extras = 1..Len(t.extras)
      /\ \A i \in 1..Len(t.extras) : t.extras[i] \in Extra
  BY <1>1
<1> QED BY <1>1, <1>2 DEF Extra

LEMMA TaxesType ==
  ASSUME NEW t \in Terms, NEW type
  PROVE  /\ Taxes(t, type) \in [1..Len(t.extras) -> Int]
         /\ SumOf(t, type) = SumSeq(Taxes(t, type))
         /\ SumOf(t, type) \in Int
<1>1. Taxes(t, type) \in [1..Len(t.extras) -> Int]
  BY ExtrasType DEF Taxes
<1>2. SumOf(t, type) = SumSeq(Taxes(t, type))
  BY DEF SumOf, Taxes
<1> QED BY <1>1, <1>2, ExtrasType, SumSeqType

HasFixed(t) == \E i \in DOMAIN t.extras : t.extras[i].type = "fixed"

LEMMA NoFixed ==
  ASSUME NEW t \in Terms, ~HasFixed(t)
  PROVE  SumOf(t, "fixed") = 0
<1> DEFINE n == Len(t.extras)
           ns == Taxes(t, "fixed")
<1>1. \A i \in 1..n : ns[i] = 0
  BY ExtrasType DEF Taxes, HasFixed
<1>2. \A i \in 1..n : -0 <= ns[i] /\ ns[i] <= 0
  BY <1>1
<1>3. n \in Nat /\ ns \in [1..n -> Int] /\ SumOf(t, "fixed") = SumSeq(ns)
  BY ExtrasType, TaxesType
<1> HIDE DEF n, ns
<1>4. -(n * 0) <= SumOf(t, "fixed") /\ SumOf(t, "fixed") <= n * 0
  BY <1>2, <1>3, SumSeqBounded, 0 \in Nat
<1> QED BY <1>4, <1>3, TaxesType

\* Size is the share, made positive.
Size(t) == IF Share(t) = 0 THEN 1 ELSE Sign(t) * Share(t)

LEMMA DenType ==
  ASSUME NEW t \in Terms
  PROVE  /\ Share(t) \in Int /\ Rate(t) \in Nat \ {0}
         /\ Sign(t) \in {1, -1} /\ Size(t) \in Nat \ {0}
         /\ Den(t) \in Nat \ {0} /\ Den(t) = Size(t) * Rate(t)
         /\ SumFixed(t) \in Nat
<1>1. Share(t) \in Int
  BY ExtrasType, TaxesType DEF Share
<1>2. Rate(t) \in Nat \ {0}
  BY ExtrasType DEF Rate
<1>3. Sign(t) \in {1, -1} /\ Size(t) \in Nat \ {0}
  BY <1>1 DEF Sign, Size
<1>4. Den(t) = Size(t) * Rate(t)
  BY DEF Den, Size
<1>5. \A a, b \in Nat \ {0} : a * b \in Nat \ {0}
  OBVIOUS
<1> QED BY <1>1, <1>2, <1>3, <1>4, <1>5, TaxesType DEF SumFixed

\* Fraction f is w parts of den.
Fits(f, den, w) ==
  /\ f.num \in Int /\ f.den \in Nat \ {0}
  /\ \E q \in Nat \ {0} : den = q * f.den /\ w = f.num * q

LEMMA FitsValue ==
  ASSUME NEW f, NEW den, NEW w, Fits(f, den, w)
  PROVE  f.num * (den \div f.den) = w
<1>1. PICK q \in Nat \ {0} : den = q * f.den /\ w = f.num * q
  BY DEF Fits
<1>2. \A a, b \in Nat \ {0} : (a * b) \div b = a
  OBVIOUS
<1>3. den \div f.den = q
  BY <1>1, <1>2 DEF Fits
<1> QED BY <1>1, <1>3

LEMMA CentsClose ==
  ASSUME NEW a \in Int, NEW d \in Nat \ {0}, NEW q \in Nat \ {0}, NEW c,
         c = (2 * a + d) \div (2 * d)
  PROVE  /\ c \in Int
         /\ -(q * d) <= 2 * (a * q) - 2 * (q * d) * c
         /\ 2 * (a * q) - 2 * (q * d) * c <= q * d
<1>1. c \in Int /\ (2 * d) * c <= 2 * a + d /\ 2 * a + d < (2 * d) * c + 2 * d
  OBVIOUS
<1> DEFINE e == 2 * a - (2 * d) * c
<1>2. e \in Int /\ -d <= e /\ e <= d
  BY <1>1
<1>3. 2 * (a * q) - 2 * (q * d) * c = q * e
  BY <1>1
<1> HIDE DEF e
<1>4. -(q * d) <= q * e /\ q * e <= q * d
  BY <1>2
<1> QED BY <1>1, <1>3, <1>4

LEMMA FitsCents ==
  ASSUME NEW f, NEW den, NEW w, Fits(f, den, w)
  PROVE  /\ Cents(f) \in Int /\ den \in Nat /\ w \in Int
         /\ -den <= 2 * w - 2 * den * Cents(f)
         /\ 2 * w - 2 * den * Cents(f) <= den
<1>1. PICK q \in Nat \ {0} : den = q * f.den /\ w = f.num * q
  BY DEF Fits
<1>2. /\ Cents(f) \in Int
      /\ -(q * f.den) <= 2 * (f.num * q) - 2 * (q * f.den) * Cents(f)
      /\ 2 * (f.num * q) - 2 * (q * f.den) * Cents(f) <= q * f.den
  BY CentsClose DEF Cents, Fits
<1>3. den \in Nat /\ w \in Int
  BY <1>1 DEF Fits
<1> QED BY <1>1, <1>2, <1>3

\* No line divides by a missing rate.
RatesKnown(t) == HasFixed(t) => t.rate # 0

LEMMA RateOfFixed ==
  ASSUME NEW t \in Terms, RatesKnown(t), SumFixed(t) # 0
  PROVE  t.rate # 0 /\ Rate(t) = t.rate
<1>1. SumOf(t, "fixed") # 0
  BY TaxesType DEF SumFixed
<1>2. HasFixed(t)
  BY <1>1, NoFixed
<1> QED BY <1>2 DEF RatesKnown, Rate

\* What the fixed taxes leave, with the sign of the share, in parts of the
\* rate.
Signed(t, total) == Sign(t) * (total * Rate(t) - 100 * SumFixed(t))

LEMMA SignedRest ==
  ASSUME NEW t \in Terms, NEW total \in Nat, RatesKnown(t)
  PROVE  /\ Signed(t, total) \in Int
         /\ Rest(t, total).num \in Int /\ Rest(t, total).den \in Nat \ {0}
         /\ \E q \in Nat \ {0} :
              /\ Rate(t) = q * Rest(t, total).den
              /\ Signed(t, total) = (Sign(t) * Rest(t, total).num) * q
<1>1. /\ Rate(t) \in Nat \ {0} /\ SumFixed(t) \in Nat /\ Sign(t) \in {1, -1}
      /\ t.rate \in Nat
  BY DenType, ExtrasType
<1>2. Signed(t, total) \in Int
  BY <1>1 DEF Signed
<1>3. CASE SumFixed(t) = 0
  <2>1. Rest(t, total).num = total /\ Rest(t, total).den = 1
    BY <1>3 DEF Rest, Fraction
  <2>2. Rate(t) = Rate(t) * 1
    BY <1>1
  <2>3. Signed(t, total) = (Sign(t) * total) * Rate(t)
    BY <1>1, <1>3 DEF Signed
  <2> QED BY <1>1, <1>2, <2>1, <2>2, <2>3
<1>4. CASE SumFixed(t) # 0
  <2>1. t.rate # 0 /\ Rate(t) = t.rate
    BY <1>4, RateOfFixed
  <2>2. /\ Rest(t, total).num = total * Rate(t) - 100 * SumFixed(t)
        /\ Rest(t, total).den = Rate(t)
    BY <1>4, <2>1 DEF Rest, Fraction
  <2>3. total * Rate(t) - 100 * SumFixed(t) \in Int
    BY <1>1
  <2>4. Rate(t) = 1 * Rate(t)
    BY <1>1
  <2>5. Signed(t, total) = (Sign(t) * Rest(t, total).num) * 1
    BY <1>2, <2>2 DEF Signed
  <2> QED BY <1>1, <1>2, <2>2, <2>3, <2>4, <2>5
<1> QED BY <1>3, <1>4

\* The net base, in parts of Den(t).
NetBase(t, total) == IF Signed(t, total) < 0 THEN 0 ELSE Signed(t, total)

LEMMA NetBaseType ==
  ASSUME NEW t \in Terms, NEW total \in Nat, RatesKnown(t)
  PROVE  NetBase(t, total) \in Nat
BY SignedRest DEF NetBase

\* The net base divides by a missing rate or a share of 0 nowhere.
Solid(t, total) == RatesKnown(t) /\ (Share(t) = 0 => Signed(t, total) < 0)

LEMMA PercentFits ==
  ASSUME NEW t \in Terms, NEW total \in Nat, NEW p \in Int, Solid(t, total)
  PROVE  Fits(Percent(p, t, total), Den(t), p * NetBase(t, total))
<1> DEFINE x == Sign(t) * Rest(t, total).num
           y == Rest(t, total).den
           z == Size(t)
<1>1. /\ x \in Int /\ y \in Nat \ {0} /\ z \in Nat \ {0}
      /\ Den(t) \in Nat \ {0} /\ Den(t) = z * Rate(t)
  BY SignedRest, DenType DEF Solid
<1>2. PICK q \in Nat \ {0} : Rate(t) = q * y /\ Signed(t, total) = x * q
  BY SignedRest DEF Solid
<1>3. x < 0 <=> Signed(t, total) < 0
  <2> HIDE DEF x
  <2> QED BY <1>1, <1>2
<1>4. CASE x < 0
  <2>1. Percent(p, t, total).num = 0 /\ Percent(p, t, total).den = 1
    BY <1>4 DEF Percent, Fraction
  <2>2. NetBase(t, total) = 0
    BY <1>3, <1>4 DEF NetBase
  <2>3. Den(t) = Den(t) * 1 /\ p * 0 = 0 * Den(t)
    BY <1>1
  <2> QED BY <1>1, <2>1, <2>2, <2>3 DEF Fits
<1>5. CASE ~(x < 0)
  <2>1. z = Sign(t) * Share(t)
    BY <1>3, <1>5 DEF Solid, Size
  <2>2. /\ Percent(p, t, total).num = p * x
        /\ Percent(p, t, total).den = y * z
    BY <1>5, <2>1 DEF Percent, Fraction
  <2>3. NetBase(t, total) = x * q
    BY <1>2, <1>3, <1>5 DEF NetBase
  <2> HIDE DEF x, y, z
  <2>4. y * z \in Nat \ {0} /\ p * x \in Int
    BY <1>1
  <2>5. z * (q * y) = q * (y * z) /\ p * (x * q) = (p * x) * q
    BY <1>1
  <2> QED BY <1>1, <1>2, <2>2, <2>3, <2>4, <2>5 DEF Fits
<1> QED BY <1>4, <1>5

LEMMA FixedFits ==
  ASSUME NEW t \in Terms, NEW v \in Int, t.rate # 0
  PROVE  Fits(Fraction(100 * v, t.rate), Den(t), v * (100 * Size(t)))
<1>1. /\ Size(t) \in Nat \ {0} /\ t.rate \in Nat \ {0}
      /\ Den(t) = Size(t) * t.rate
  BY DenType, ExtrasType DEF Rate
<1>2. v * (100 * Size(t)) = (100 * v) * Size(t) /\ 100 * v \in Int
  BY <1>1
<1> QED BY <1>1, <1>2 DEF Fits, Fraction

LEMMA LinesList ==
  ASSUME NEW t \in Terms, NEW total \in Nat
  PROVE  /\ DOMAIN Lines(t, total) = 1..(Len(t.extras) + 2)
         /\ Lines(t, total)[1] = Percent(100, t, total)
         /\ Lines(t, total)[2] = Percent(t.vat, t, total)
         /\ \A i \in 1..Len(t.extras) :
              Lines(t, total)[i + 2] = ExtraLine(t.extras[i], t, total)
<1> DEFINE n == Len(t.extras)
           head == <<Percent(100, t, total), Percent(t.vat, t, total)>>
           tail == [i \in DOMAIN t.extras |-> ExtraLine(t.extras[i], t, total)]
           A == {head[1], head[2]} \cup {tail[i] : i \in 1..n}
<1>1. n \in Nat /\ DOMAIN tail = 1..n
  BY ExtrasType
<1>2. tail \in Seq(A) /\ Len(tail) = n
  <2>1. \A i \in 1..n : tail[i] \in A
    OBVIOUS
  <2>2. tail = [i \in 1..n |-> tail[i]]
    BY ExtrasType
  <2> HIDE DEF tail, A
  <2>3. tail \in [1..n -> A]
    BY <2>1, <2>2
  <2> QED BY <1>1, <2>3
<1>3. head \in Seq(A) /\ Len(head) = 2
  OBVIOUS
<1>4. Lines(t, total) = head \o tail
  BY DEF Lines
<1>5. \A i \in 1..n : tail[i] = ExtraLine(t.extras[i], t, total)
  BY ExtrasType
<1>6. head[1] = Percent(100, t, total) /\ head[2] = Percent(t.vat, t, total)
  OBVIOUS
<1> HIDE DEF head, tail, A, n
<1>7. /\ head \o tail \in Seq(A)
       /\ Len(head \o tail) = Len(head) + Len(tail)
       /\ \A i \in 1..(Len(head) + Len(tail)) : (head \o tail)[i] =
            IF i <= Len(head) THEN head[i] ELSE tail[i - Len(head)]
  BY <1>2, <1>3, ConcatProperties, Zenon
<1>8. /\ head \o tail \in Seq(A) /\ Len(head \o tail) = 2 + n
      /\ \A i \in 1..(2 + n) :
           (head \o tail)[i] = IF i <= 2 THEN head[i] ELSE tail[i - 2]
  BY <1>2, <1>3, <1>7, Zenon
<1>9. DOMAIN (head \o tail) = 1..(n + 2)
  BY <1>1, <1>8
<1>10. ASSUME NEW i \in 1..n
      PROVE  (head \o tail)[i + 2] = tail[i]
  <2>1. i + 2 \in 1..(2 + n) /\ ~(i + 2 <= 2) /\ (i + 2) - 2 = i
    BY <1>1
  <2> QED BY <1>8, <2>1
<1>11. (head \o tail)[1] = head[1] /\ (head \o tail)[2] = head[2]
  BY <1>1, <1>8
<1> QED BY <1>4, <1>5, <1>6, <1>9, <1>10, <1>11 DEF n

\* What each line is worth, in parts of Den(t).
Worth(t, total) ==
  [i \in 1..(Len(t.extras) + 2) |->
     IF i = 1 THEN 100 * NetBase(t, total)
     ELSE IF i = 2 THEN t.vat * NetBase(t, total)
     ELSE NetBase(t, total) * Taxes(t, "percentage")[i - 2]
            + (100 * Size(t)) * Taxes(t, "fixed")[i - 2]]

LEMMA WorthSum ==
  ASSUME NEW t \in Terms, NEW total \in Nat, RatesKnown(t)
  PROVE  /\ Worth(t, total) \in [1..(Len(t.extras) + 2) -> Int]
         /\ SumSeq(Worth(t, total)) =
              Share(t) * NetBase(t, total)
                + 100 * Size(t) * SumOf(t, "fixed")
<1> DEFINE n == Len(t.extras)
           c == NetBase(t, total)
           s == Share(t)
           z == Size(t)
           P == Taxes(t, "percentage")
           F == Taxes(t, "fixed")
           ls == [i \in 1..n |-> c * P[i] + (100 * z) * F[i]]
           p == SumOf(t, "percentage")
           f == SumOf(t, "fixed")
           v == t.vat
           ms == Worth(t, total)
<1>1. /\ n \in Nat /\ c \in Int /\ s \in Int /\ z \in Int /\ v \in Int
      /\ P \in [1..n -> Int] /\ F \in [1..n -> Int]
      /\ p = SumSeq(P) /\ f = SumSeq(F) /\ p \in Int /\ f \in Int
  <2>1. n \in Nat /\ v \in Int
    BY ExtrasType
  <2>2. s \in Int /\ z \in Int /\ c \in Int
    BY DenType, NetBaseType
  <2>3. P \in [1..n -> Int] /\ p = SumSeq(P) /\ p \in Int
    BY TaxesType
  <2>4. F \in [1..n -> Int] /\ f = SumSeq(F) /\ f \in Int
    BY TaxesType
  <2> QED BY <2>1, <2>2, <2>3, <2>4
<1>2. s = 100 + v + p
  BY DEF Share
<1>3. ms = [i \in 1..(n + 2) |->
              IF i = 1 THEN 100 * c ELSE IF i = 2 THEN v * c
              ELSE c * P[i - 2] + (100 * z) * F[i - 2]]
  BY DEF Worth
<1>4. 100 * z \in Int /\ 100 * c \in Int /\ v * c \in Int
  BY <1>1
<1> HIDE DEF n, c, s, z, P, F, p, f, v, ms
<1>5. \A i \in 1..n : c * P[i] + (100 * z) * F[i] \in Int
  <2>1. \A a, b, x, y \in Int : a * x + b * y \in Int
    OBVIOUS
  <2>2. \A i \in 1..n : P[i] \in Int /\ F[i] \in Int
    BY <1>1
  <2> QED BY <1>1, <1>4, <2>1, <2>2, Zenon
<1>6. ls \in [1..n -> Int]
  BY <1>5
<1>7. /\ ms[1] = 100 * c /\ ms[2] = v * c
      /\ \A i \in 1..n : ms[i + 2] = ls[i]
  BY <1>1, <1>3
<1>8. ms \in [1..(n + 2) -> Int]
  <2>1. ASSUME NEW i \in 1..(n + 2) PROVE ms[i] \in Int
    <3>1. CASE i \in {1, 2}
      BY <1>4, <1>7, <3>1
    <3>2. CASE i \notin {1, 2}
      <4>1. i - 2 \in 1..n /\ (i - 2) + 2 = i
        BY <1>1, <3>2
      <4> QED BY <1>6, <1>7, <4>1
    <3> QED BY <3>1, <3>2
  <2> QED BY <1>3, <2>1
<1>9. SumSeq(ls) = c * p + (100 * z) * f
  <2> DEFINE b == 100 * z
  <2>1. b \in Int /\ Combines(ls, n, c, P, b, F)
    BY <1>1, <1>4, <1>6 DEF Combines
  <2> HIDE DEF b, ls
  <2>2. SumSeq(ls) = c * SumSeq(P) + b * SumSeq(F)
    BY <2>1, SumSeqLinear
  <2> QED BY <1>1, <2>2 DEF b
<1> HIDE DEF ls
<1>10. SumSeq(ms) = 100 * c + v * c + SumSeq(ls)
  <2> DEFINE x == 100 * c
             y == v * c
  <2>1. x \in Int /\ y \in Int /\ Follows(ms, n, x, y, ls)
    BY <1>1, <1>4, <1>6, <1>7, <1>8 DEF Follows
  <2> HIDE DEF x, y
  <2>2. SumSeq(ms) = x + y + SumSeq(ls)
    BY <2>1, SumSeqCons
  <2> QED BY <2>2 DEF x, y
<1>11. 100 * c + v * c + (c * p + (100 * z) * f) = s * c + 100 * z * f
  <2>1. s * c = 100 * c + v * c + c * p
    BY <1>1, <1>2
  <2>2. (100 * z) * f \in Int /\ c * p \in Int
    BY <1>1
  <2> QED BY <1>1, <1>4, <2>1, <2>2
<1> QED BY <1>8, <1>9, <1>10, <1>11 DEF ms, n, s, z, c, f

-----------------------------------------------------------------------------
(* The amounts of a document: when the lines make the total, and how far   *)
(* the printed ones are off.                                               *)

LEMMA WorthType ==
  ASSUME NEW t \in Terms, NEW total \in Nat, RatesKnown(t)
  PROVE  Worth(t, total) \in [1..(Len(t.extras) + 2) -> Int]
BY WorthSum

LEMMA LinesFit ==
  ASSUME NEW t \in Terms, NEW total \in Nat, Solid(t, total),
         NEW i \in 1..(Len(t.extras) + 2)
  PROVE  Fits(Lines(t, total)[i], Den(t), Worth(t, total)[i])
<1> DEFINE c == NetBase(t, total)
           ps == Taxes(t, "percentage")
           fs == Taxes(t, "fixed")
<1>1. Len(t.extras) \in Nat /\ c \in Int
  BY ExtrasType, NetBaseType DEF Solid
<1>2. CASE i = 1
  <2>1. Lines(t, total)[i] = Percent(100, t, total)
    BY <1>2, LinesList
  <2>2. Worth(t, total)[i] = 100 * c
    BY <1>2 DEF Worth
  <2> QED BY <2>1, <2>2, PercentFits
<1>3. CASE i = 2
  <2>1. Lines(t, total)[i] = Percent(t.vat, t, total)
    BY <1>3, LinesList
  <2>2. Worth(t, total)[i] = t.vat * c
    BY <1>3 DEF Worth
  <2>3. t.vat \in Int
    BY ExtrasType
  <2> QED BY <2>1, <2>2, <2>3, PercentFits
<1>4. CASE i \notin {1, 2}
  <2> DEFINE j == i - 2
             e == t.extras[j]
  <2>1. j \in 1..Len(t.extras) /\ j + 2 = i
    BY <1>1, <1>4
  <2>2. Worth(t, total)[i] = c * ps[j] + (100 * Size(t)) * fs[j]
    BY <1>4 DEF Worth
  <2>3. Lines(t, total)[i] = ExtraLine(e, t, total)
    <3> HIDE DEF j
    <3>1. Lines(t, total)[j + 2] = ExtraLine(t.extras[j], t, total)
      BY <2>1, LinesList
    <3> QED BY <2>1, <3>1
  <2>4. /\ e.type \in {"fixed", "percentage"} /\ e.value \in Int
        /\ ps[j] = (IF e.type = "percentage" THEN e.value ELSE 0)
        /\ fs[j] = (IF e.type = "fixed" THEN e.value ELSE 0)
    <3> HIDE DEF j
    <3> QED BY <2>1, ExtrasType DEF Taxes
  <2>5. Size(t) \in Int
    BY DenType
  <2>6. CASE e.type = "fixed"
    <3>1. t.rate # 0
      <4>1. j \in DOMAIN t.extras
        BY <2>1, ExtrasType
      <4> QED BY <2>6, <4>1 DEF Solid, RatesKnown, HasFixed
    <3>2. Lines(t, total)[i] = Fraction(100 * e.value, t.rate)
      BY <2>3, <2>6 DEF ExtraLine
    <3>3. ps[j] = 0 /\ fs[j] = e.value
      BY <2>4, <2>6
    <3>4. \A x, y, z \in Int : x * 0 + (100 * y) * z = z * (100 * y)
      OBVIOUS
    <3>5. Worth(t, total)[i] = e.value * (100 * Size(t))
      <4> HIDE DEF c, e, ps, fs, j
      <4>1. Worth(t, total)[i] = c * 0 + (100 * Size(t)) * e.value
        BY <2>2, <3>3
      <4> QED BY <1>1, <2>4, <2>5, <3>4, <4>1
    <3> QED BY <2>4, <3>1, <3>2, <3>5, FixedFits
  <2>7. CASE e.type # "fixed"
    <3>1. Lines(t, total)[i] = Percent(e.value, t, total)
      BY <2>3, <2>7 DEF ExtraLine
    <3>2. ps[j] = e.value /\ fs[j] = 0
      BY <2>4, <2>7
    <3>3. \A x, y, z \in Int : x * z + (100 * y) * 0 = z * x
      OBVIOUS
    <3>4. Worth(t, total)[i] = e.value * c
      <4> HIDE DEF c, e, ps, fs, j
      <4>1. Worth(t, total)[i] = c * e.value + (100 * Size(t)) * 0
        BY <2>2, <3>2
      <4> QED BY <1>1, <2>4, <2>5, <3>3, <4>1
    <3> QED BY <2>4, <3>1, <3>4, PercentFits
  <2> QED BY <2>6, <2>7
<1> QED BY <1>2, <1>3, <1>4

\* The net base with the sign of the share.
Kept(t, total) == Sign(t) * NetBase(t, total)

LEMMA KeptShare ==
  ASSUME NEW t \in Terms, NEW total \in Nat, Solid(t, total)
  PROVE  /\ Kept(t, total) \in Int
         /\ Share(t) * NetBase(t, total) = Size(t) * Kept(t, total)
<1>1. /\ Share(t) \in Int /\ Size(t) \in Nat \ {0} /\ Sign(t) \in {1, -1}
      /\ NetBase(t, total) \in Int
  BY DenType, NetBaseType DEF Solid
<1>2. Kept(t, total) \in Int
  BY <1>1 DEF Kept
<1>3. CASE Share(t) = 0
  <2>1. NetBase(t, total) = 0
    BY <1>3 DEF Solid, NetBase
  <2> QED BY <1>1, <1>2, <1>3, <2>1 DEF Kept
<1>4. CASE Share(t) # 0
  <2>1. Size(t) = Sign(t) * Share(t)
    BY <1>4 DEF Size
  <2>2. \A x \in {1, -1} : \A y, z \in Int : y * z = (x * y) * (x * z)
    OBVIOUS
  <2> QED BY <1>1, <1>2, <2>1, <2>2 DEF Kept
<1> QED BY <1>3, <1>4

LEMMA SumOverWorth ==
  ASSUME NEW t \in Terms, NEW total \in Nat, Solid(t, total)
  PROVE  /\ Finite(Lines(t, total))
         /\ SumOver(Lines(t, total), Den(t)) =
              Share(t) * NetBase(t, total)
                + 100 * Size(t) * SumOf(t, "fixed")
<1> DEFINE n == Len(t.extras) + 2
           ls == Lines(t, total)
           ws == Worth(t, total)
<1>1. DOMAIN ls = 1..n /\ ws \in [1..n -> Int]
  BY LinesList, WorthType DEF Solid
<1>2. \A i \in 1..n : Fits(ls[i], Den(t), ws[i])
  BY LinesFit
<1> HIDE DEF n, ls, ws
<1>3. Finite(ls)
  BY <1>1, <1>2 DEF Finite, Fits
<1>4. \A i \in 1..n : ls[i].num * (Den(t) \div ls[i].den) = ws[i]
  BY <1>2, FitsValue
<1>5. [i \in DOMAIN ls |-> ls[i].num * (Den(t) \div ls[i].den)] = ws
  BY <1>1, <1>4
<1>6. SumOver(ls, Den(t)) = SumSeq(ws)
  BY <1>5 DEF SumOver
<1> QED BY <1>3, <1>6, WorthSum DEF ls, ws, Solid

LEMMA AddUpSolid ==
  ASSUME NEW t \in Terms, NEW total \in Nat, AddUp(t, total)
  PROVE  Solid(t, total)
<1>1. Finite(Lines(t, total))
  BY DEF AddUp
<1>2. RatesKnown(t)
  <2> SUFFICES ASSUME HasFixed(t) PROVE t.rate # 0
    BY DEF RatesKnown
  <2>1. PICK i \in DOMAIN t.extras : t.extras[i].type = "fixed"
    BY DEF HasFixed
  <2>2. i \in 1..Len(t.extras) /\ i + 2 \in 1..(Len(t.extras) + 2)
    BY <2>1, ExtrasType
  <2>3. Lines(t, total)[i + 2] = ExtraLine(t.extras[i], t, total)
    BY <2>2, LinesList
  <2>4. ExtraLine(t.extras[i], t, total)
          = Fraction(100 * t.extras[i].value, t.rate)
    BY <2>1 DEF ExtraLine
  <2>5. Lines(t, total)[i + 2].den = t.rate
    BY <2>3, <2>4 DEF Fraction
  <2>6. Lines(t, total)[i + 2].den # 0
    BY <1>1, <2>2, LinesList DEF Finite
  <2> QED BY <2>5, <2>6
<1>3. ASSUME Share(t) = 0, ~(Signed(t, total) < 0)
      PROVE  FALSE
  <2> DEFINE x == Sign(t) * Rest(t, total).num
  <2>1. PICK q \in Nat \ {0} : Signed(t, total) = x * q
    BY <1>2, SignedRest
  <2>2. x \in Int
    BY <1>2, SignedRest, DenType
  <2>3. ~(x < 0)
    <3> HIDE DEF x
    <3> QED BY <1>3, <2>1, <2>2
  <2>4. Percent(100, t, total).den = Rest(t, total).den * (Sign(t) * Share(t))
    BY <2>3 DEF Percent, Fraction
  <2>5. Percent(100, t, total).den = 0
    BY <1>2, <1>3, <2>4, SignedRest, DenType
  <2>6. Lines(t, total)[1].den # 0
    <3>1. 1 \in 1..(Len(t.extras) + 2)
      BY ExtrasType
    <3> QED BY <1>1, <3>1, LinesList DEF Finite
  <2> QED BY <2>5, <2>6, LinesList
<1> QED BY <1>2, <1>3 DEF Solid

LEMMA AddUpSum ==
  ASSUME NEW t \in Terms, NEW total \in Nat, Solid(t, total)
  PROVE  AddUp(t, total) <=>
           Kept(t, total) + 100 * SumOf(t, "fixed") = total * Rate(t)
<1> DEFINE k == Kept(t, total)
           f == SumOf(t, "fixed")
           s == Size(t)
           r == total * Rate(t)
<1>1. AddUp(t, total) <=> SumOver(Lines(t, total), Den(t)) = total * Den(t)
  BY SumOverWorth DEF AddUp
<1>2. SumOver(Lines(t, total), Den(t)) = s * k + 100 * s * f
  BY SumOverWorth, KeptShare
<1>3. total * Den(t) = s * r
  BY DenType
<1>4. k \in Int /\ f \in Int /\ s \in Nat \ {0} /\ r \in Int
  <2>1. k \in Int /\ f \in Int
    BY KeptShare, TaxesType
  <2>2. Rate(t) \in Int /\ s \in Nat \ {0}
    BY DenType
  <2> QED BY <2>1, <2>2
<1> HIDE DEF k, f, s, r
<1>5. s * k + 100 * s * f = s * (k + 100 * f)
  BY <1>4
<1>6. s * (k + 100 * f) = s * r <=> k + 100 * f = r
  BY <1>4
<1> QED BY <1>1, <1>2, <1>3, <1>5, <1>6 DEF k, f, r

\* When the lines make the total.
Whole(t, total) ==
  /\ SumOf(t, "fixed") >= 0
  /\ HasFixed(t) => t.rate # 0
  /\ \/ Share(t) > 0 /\ 100 * SumOf(t, "fixed") <= total * Rate(t)
     \/ Share(t) < 0 /\ 100 * SumOf(t, "fixed") >= total * Rate(t)

LEMMA AddUpWhole ==
  ASSUME NEW t \in Terms, NEW total \in Nat
  PROVE  AddUp(t, total) <=> Whole(t, total)
<1> DEFINE f == SumOf(t, "fixed")
           g == SumFixed(t)
           u == total * Rate(t)
           x == Sign(t)
           y == Signed(t, total)
           k == Kept(t, total)
<1>1. f \in Int /\ g = (IF f > 0 THEN f ELSE 0) /\ Share(t) \in Int
  BY TaxesType, DenType DEF SumFixed
<1>2. u \in Nat
  BY DenType
<1>3. y = x * (u - 100 * g)
  BY DEF Signed
<1>4. k = x * (IF y < 0 THEN 0 ELSE y)
  BY DEF Kept, NetBase
<1>5. x = IF Share(t) < 0 THEN -1 ELSE 1
  BY DEF Sign
<1>6. AddUp(t, total) => Solid(t, total)
  BY AddUpSolid
<1>7. Solid(t, total) => (AddUp(t, total) <=> k + 100 * f = u)
  BY AddUpSum
<1>8. Solid(t, total) <=> RatesKnown(t) /\ (Share(t) = 0 => y < 0)
  BY DEF Solid
<1>9. Whole(t, total) <=> /\ f >= 0 /\ RatesKnown(t)
                          /\ \/ Share(t) > 0 /\ 100 * f <= u
                             \/ Share(t) < 0 /\ 100 * f >= u
  BY DEF Whole, RatesKnown
<1> HIDE DEF f, g, u, x, y, k
<1>10. CASE ~RatesKnown(t)
  BY <1>6, <1>8, <1>9, <1>10
<1>11. CASE RatesKnown(t) /\ Share(t) = 0
  <2>1. x = 1 /\ y = u - 100 * g
    BY <1>1, <1>2, <1>3, <1>5, <1>11
  <2>2. y < 0 => k = 0 /\ f > 0 /\ 100 * f > u
    BY <1>1, <1>2, <1>4, <2>1
  <2>3. ~AddUp(t, total)
    BY <1>1, <1>2, <1>6, <1>7, <1>8, <1>11, <2>2
  <2> QED BY <1>1, <1>9, <1>11, <2>3
<1>12. CASE RatesKnown(t) /\ Share(t) > 0
  <2>1. k = IF u - 100 * g < 0 THEN 0 ELSE u - 100 * g
    BY <1>1, <1>2, <1>3, <1>4, <1>5, <1>12
  <2>2. k + 100 * f = u <=> f >= 0 /\ 100 * f <= u
    BY <1>1, <1>2, <2>1
  <2> QED BY <1>1, <1>7, <1>8, <1>9, <1>12, <2>2
<1>13. CASE RatesKnown(t) /\ Share(t) < 0
  <2>1. k = IF u - 100 * g > 0 THEN 0 ELSE u - 100 * g
    BY <1>1, <1>2, <1>3, <1>4, <1>5, <1>13
  <2>2. k + 100 * f = u <=> f >= 0 /\ 100 * f >= u
    BY <1>1, <1>2, <2>1
  <2> QED BY <1>1, <1>7, <1>8, <1>9, <1>13, <2>2
<1> QED BY <1>1, <1>10, <1>11, <1>12, <1>13

LEMMA OffBounded ==
  ASSUME NEW t \in Terms, NEW total \in Nat, AddUp(t, total)
  PROVE  2 * Off(t, total) \in -(Len(t.extras) + 2)..(Len(t.extras) + 2)
<1> DEFINE n == Len(t.extras) + 2
           ls == Lines(t, total)
           ws == Worth(t, total)
           den == Den(t)
           cs == [i \in DOMAIN ls |-> Cents(ls[i])]
           es == [i \in 1..n |-> 2 * ws[i] + (-(2 * den)) * cs[i]]
<1>1. Solid(t, total)
  BY AddUpSolid
<1>2. /\ n \in Nat /\ DOMAIN ls = 1..n /\ ws \in [1..n -> Int]
      /\ den \in Nat \ {0}
  BY <1>1, LinesList, WorthType, DenType, ExtrasType DEF Solid
<1>3. \A i \in 1..n : Fits(ls[i], den, ws[i])
  BY <1>1, LinesFit
<1>4. SumSeq(ws) = total * den
  <2>1. SumSeq(ws) = SumOver(Lines(t, total), Den(t))
    BY <1>1, WorthSum, SumOverWorth DEF Solid
  <2> QED BY <2>1 DEF AddUp
<1>5. Off(t, total) = SumSeq(cs) - total
  BY DEF Off
<1> HIDE DEF n, ls, ws, den
<1>6. \A i \in 1..n : /\ cs[i] \in Int
                     /\ -den <= 2 * ws[i] - 2 * den * cs[i]
                     /\ 2 * ws[i] - 2 * den * cs[i] <= den
  BY <1>2, <1>3, FitsCents
<1>7. cs \in [1..n -> Int]
  BY <1>2, <1>6
<1> HIDE DEF cs
<1>8. \A i \in 1..n : es[i] \in Int /\ -den <= es[i] /\ es[i] <= den
  <2>1. \A d, w, c \in Int : /\ 2 * w + (-(2 * d)) * c = 2 * w - 2 * d * c
                            /\ 2 * w - 2 * d * c \in Int
    OBVIOUS
  <2>2. ASSUME NEW i \in 1..n
        PROVE  es[i] = 2 * ws[i] - 2 * den * cs[i] /\ es[i] \in Int
    <3>1. den \in Int /\ ws[i] \in Int /\ cs[i] \in Int
      BY <1>2, <1>7
    <3> QED BY <2>1, <3>1
  <2> HIDE DEF es
  <2> QED BY <1>6, <2>2
<1>9. es \in [1..n -> Int]
  BY <1>8
<1>10. SumSeq(es) = 2 * SumSeq(ws) + (-(2 * den)) * SumSeq(cs)
  <2> DEFINE b == -(2 * den)
  <2>1. b \in Int
    BY <1>2
  <2>2. es = [i \in 1..n |-> 2 * ws[i] + b * cs[i]]
    OBVIOUS
  <2> HIDE DEF es, b
  <2>3. Combines(es, n, 2, ws, b, cs)
    BY <1>2, <1>7, <1>9, <2>1, <2>2 DEF Combines
  <2>4. SumSeq(es) = 2 * SumSeq(ws) + b * SumSeq(cs)
    BY <2>3, SumSeqLinear
  <2> QED BY <2>4 DEF b
<1> HIDE DEF es
<1>11. -(n * den) <= SumSeq(es) /\ SumSeq(es) <= n * den
  BY <1>2, <1>8, <1>9, SumSeqBounded
<1> DEFINE x == SumSeq(cs) - total
<1>12. SumSeq(cs) \in Int
  BY <1>2, <1>7, SumSeqType
<1>13. SumSeq(es) = -(den * (2 * x))
  BY <1>2, <1>4, <1>10, <1>12
<1>14. 2 * x \in Int
  BY <1>12
<1> HIDE DEF x
<1>15. -(n * den) <= den * (2 * x) /\ den * (2 * x) <= n * den
  BY <1>2, <1>11, <1>13, <1>14
<1>16. -n <= 2 * x /\ 2 * x <= n
  <2>1. \A y \in Int, d \in Nat \ {0}, m \in Nat :
          -(m * d) <= d * y /\ d * y <= m * d => -m <= y /\ y <= m
    OBVIOUS
  <2> QED BY <1>2, <1>14, <1>15, <2>1
<1> QED BY <1>2, <1>5, <1>14, <1>16 DEF n, x

LEMMA LinesMakeAny ==
  ASSUME NEW t \in Terms, NEW total \in Nat
  PROVE  LinesMake(total, t)
<1>1. AddUp(t, total) <=> Whole(t, total)
  BY AddUpWhole
<1>2. AddUp(t, total) =>
        2 * Off(t, total) \in -(Len(t.extras) + 2)..(Len(t.extras) + 2)
  BY OffBounded
<1> QED BY <1>1, <1>2 DEF LinesMake, Whole, HasFixed

-----------------------------------------------------------------------------
(* The work of one month.                                                  *)

SameMonth(items) == \A a, b \in items : a.month = b.month

\* An execution takes the work of one month, and a draft counts no more.
MonthInv ==
  /\ \A r \in Runs : SameMonth(run[r].batch) /\ SameMonth(run[r].items)
  /\ \A d \in drafts : OneGroup(d.items) /\ SameMonth(d.items)

LEMMA MonthStays ==
  ASSUME NEW r \in Runs, NEW l, Step(r, l), IInv, MonthInv, UNCHANGED drafts,
         SameMonth(l.batch) /\ SameMonth(l.items)
  PROVE  MonthInv'
<1>1. run'[r] = l /\ \A s \in Runs \ {r} : run'[s] = run[s]
  BY StepRun DEF IInv
<1> QED BY <1>1 DEF MonthInv, SameMonth

LEMMA MonthWithin ==
  ASSUME NEW S, NEW T, S \subseteq T, SameMonth(T)
  PROVE  SameMonth(S)
BY DEF SameMonth

LEMMA NextMonths == IInv /\ MonthInv /\ [Next]_vars => MonthInv'
<1> SUFFICES ASSUME IInv, MonthInv, [Next]_vars PROVE MonthInv'
  OBVIOUS
<1>1. CASE UNCHANGED <<run, drafts>>
  BY <1>1 DEF MonthInv
<1>2. ASSUME NEW r \in Runs, Start(r)
      PROVE  MonthInv'
  <2>1. CASE UNCHANGED run
    BY <1>1, <1>2, <2>1 DEF Start
  <2>2. CASE Step(r, [Idle EXCEPT !.phase = "groups", !.batch = Unclaimed])
    <3> DEFINE l == [Idle EXCEPT !.phase = "groups", !.batch = Unclaimed]
    <3>1. l.batch = Unclaimed /\ l.items = {}
      BY DEF Idle
    <3>2. SameMonth(Unclaimed) /\ SameMonth({})
      <4>1. \A a \in Unclaimed : a.month \in Nat /\ a.month + 1 = month
        BY BoundsAssumption DEF Unclaimed, IInv, TypeOK, Allocation
      <4> QED BY <4>1 DEF SameMonth
    <3>3. Step(r, l) /\ UNCHANGED drafts
      BY <1>2, <2>2 DEF Start
    <3> HIDE DEF l
    <3> QED BY <3>1, <3>2, <3>3, MonthStays
  <2> QED BY <1>2, <2>1, <2>2 DEF Start
<1>3. ASSUME NEW r \in Runs, TakeGroup(r)
      PROVE  MonthInv'
  <2>1. PICK a \in run[r].batch :
          LET items == Group(run[r].batch, a) IN
          Step(r, [run[r] EXCEPT
                     !.phase = "claim", !.batch = @ \ items,
                     !.items = items, !.todo = items, !.id = ids + 1,
                     !.next = preference[a.owner].next])
    BY <1>3 DEF TakeGroup
  <2> DEFINE items == Group(run[r].batch, a)
             l == [run[r] EXCEPT
                     !.phase = "claim", !.batch = @ \ items,
                     !.items = items, !.todo = items, !.id = ids + 1,
                     !.next = preference[a.owner].next]
  <2>2. run[r] \in Run
    BY DEF IInv, TypeOK
  <2>3. l.batch = run[r].batch \ items /\ l.items = items
    <3> HIDE DEF items
    <3> QED BY <2>2 DEF Run
  <2>4. items \subseteq run[r].batch /\ SameMonth(run[r].batch)
    BY DEF Group, MonthInv
  <2>5. Step(r, l) /\ UNCHANGED drafts
    BY <1>3, <2>1 DEF TakeGroup
  <2> HIDE DEF l, items
  <2>6. SameMonth(l.batch) /\ SameMonth(l.items)
    BY <2>3, <2>4 DEF SameMonth
  <2> QED BY <2>5, <2>6, MonthStays
<1>4. ASSUME NEW r \in Runs, SkipGroup(r)
      PROVE  MonthInv'
  <2>1. PICK a \in run[r].batch :
          Step(r, [run[r] EXCEPT !.batch = @ \ Group(@, a)])
    BY <1>4 DEF SkipGroup
  <2> DEFINE l == [run[r] EXCEPT !.batch = @ \ Group(@, a)]
  <2>2. l.batch \subseteq run[r].batch /\ l.items = run[r].items
    BY DEF IInv, TypeOK, Run
  <2>3. Step(r, l) /\ UNCHANGED drafts
    BY <1>4, <2>1 DEF SkipGroup
  <2> HIDE DEF l
  <2>4. SameMonth(l.batch) /\ SameMonth(l.items)
    BY <2>2 DEF MonthInv, SameMonth
  <2> QED BY <2>3, <2>4, MonthStays
<1>5. ASSUME NEW r \in Runs, Claim(r)
      PROVE  MonthInv'
  <2>1. PICK a \in run[r].todo :
          Step(r, [run[r] EXCEPT
                     !.todo = @ \ {a},
                     !.phase = IF run[r].todo = {a} THEN "number"
                               ELSE "claim"])
    BY <1>5 DEF Claim
  <2> DEFINE l == [run[r] EXCEPT
                     !.todo = @ \ {a},
                     !.phase = IF run[r].todo = {a} THEN "number"
                               ELSE "claim"]
  <2>2. l.batch = run[r].batch /\ l.items = run[r].items
    BY DEF IInv, TypeOK, Run
  <2>3. Step(r, l) /\ UNCHANGED drafts
    BY <1>5, <2>1 DEF Claim
  <2> HIDE DEF l
  <2> QED BY <2>2, <2>3, MonthStays DEF MonthInv
<1>6. ASSUME NEW r \in Runs, StoreNumber(r) \/ LoseDraft(r)
      PROVE  MonthInv'
  <2>1. PICK p \in Phases : Step(r, [run[r] EXCEPT !.phase = p])
    BY <1>6 DEF StoreNumber, LoseDraft, Phases
  <2> DEFINE l == [run[r] EXCEPT !.phase = p]
  <2>2. l.batch = run[r].batch /\ l.items = run[r].items
    BY DEF IInv, TypeOK, Run
  <2>3. Step(r, l) /\ UNCHANGED drafts
    BY <1>6, <2>1 DEF StoreNumber, LoseDraft
  <2> HIDE DEF l
  <2> QED BY <2>2, <2>3, MonthStays DEF MonthInv
<1>7. ASSUME NEW r \in Runs, StoreDraft(r)
      PROVE  MonthInv'
  <2> DEFINE l == [run[r] EXCEPT !.phase = "groups",
                                 !.made = @ \cup {DraftFor(r)}]
  <2>1. l.batch = run[r].batch /\ l.items = run[r].items
    BY DEF IInv, TypeOK, Run
  <2>2. Step(r, l) /\ drafts' = drafts \cup {DraftFor(r)}
    BY <1>7 DEF StoreDraft
  <2> HIDE DEF l
  <2>3. run'[r] = l /\ \A s \in Runs \ {r} : run'[s] = run[s]
    BY <2>2, StepRun DEF IInv
  <2>4. OneGroup(run[r].items) /\ SameMonth(run[r].items)
    BY <1>7 DEF IInv, GroupInv, Busy, StoreDraft, MonthInv
  <2>5. DraftFor(r).items = run[r].items
    BY DEF DraftFor
  <2>6. \A d \in drafts' : OneGroup(d.items) /\ SameMonth(d.items)
    BY <2>2, <2>4, <2>5 DEF MonthInv
  <2>7. \A s \in Runs : SameMonth(run'[s].batch) /\ SameMonth(run'[s].items)
    BY <2>1, <2>3 DEF MonthInv
  <2> QED BY <2>6, <2>7 DEF MonthInv, OneGroup, SameMonth
<1>8. ASSUME NEW r \in Runs, SendMails(r) \/ Fail(r)
      PROVE  MonthInv'
  <2>1. Step(r, Idle) /\ UNCHANGED drafts
    BY <1>8 DEF SendMails, Fail
  <2>2. SameMonth(Idle.batch) /\ SameMonth(Idle.items)
    BY DEF Idle, SameMonth
  <2> QED BY <2>1, <2>2, MonthStays
<1>9. CASE UNCHANGED vars \/ Outside
  BY <1>1, <1>9 DEF vars, Outside, NextMonth, MissFiring, StoreAllocation,
                    CreatePreference, ChangePreference
<1> QED BY <1>2, <1>3, <1>4, <1>5, <1>6, <1>7, <1>8, <1>9
        DEF Next, JobStep, Outside

LEMMA MonthHolds == Spec => []MonthInv
<1>1. Init => MonthInv
  BY DEF Init, MonthInv, Idle, SameMonth
<1>2. IInv /\ MonthInv /\ [Next]_vars => MonthInv'
  BY NextMonths
<1> QED BY <1>1, <1>2, IInvHolds, PTL DEF Spec

\* Allocations of one pair of owners and of one month differ in their copy.
LEMMA AtMostCopies ==
  ASSUME NEW items \in SUBSET Allocation, OneGroup(items), SameMonth(items)
  PROVE  Cardinality(items) \in 1..Copies
<1> DEFINE f == [a \in items |-> a.copy]
<1>1. Copies \in Nat
  BY BoundsAssumption
<1>2. f \in Injection(items, 1..Copies)
  <2>1. \A a \in items : a.copy \in 1..Copies
    BY DEF Allocation
  <2>2. \A a, b \in items : a.copy = b.copy => a = b
    BY DEF Allocation, OneGroup, SameMonth
  <2>3. f \in [items -> 1..Copies]
    BY <2>1
  <2>4. \A a, b \in items : f[a] = f[b] => a = b
    BY <2>2
  <2> HIDE DEF f
  <2> QED BY <2>3, <2>4 DEF Injection, IsInjective
<1> HIDE DEF f
<1>3. IsFiniteSet(1..Copies) /\ Cardinality(1..Copies) = Copies
  BY <1>1, FS_Interval
<1>4. IsFiniteSet(items) /\ Cardinality(items) <= Copies
  BY <1>2, <1>3, FS_Injection
<1>5. items # {}
  BY DEF OneGroup
<1>6. Cardinality(items) \in Nat /\ Cardinality(items) # 0
  BY <1>4, <1>5, FS_CardinalityType, FS_EmptySet
<1> QED BY <1>1, <1>4, <1>6

(***************************************************************************)
(* The lines of a document make up the total that it started from, and as  *)
(* printed miss it by half a cent for each line at most, for any price and *)
(* any terms (invoiceDraftGenerator.go:89-127).                            *)
(***************************************************************************)
THEOREM LinesMakeTheTotal == Spec => []LinesMakeTotal
<1>1. ASSUME IInv, MonthInv
      PROVE  LinesMakeTotal
  <2> SUFFICES ASSUME NEW d \in drafts
               PROVE  Cardinality(d.items) \in LinesMakeTotals
    BY DEF LinesMakeTotal
  <2>1. d.items \in SUBSET Allocation
    BY <1>1 DEF IInv, TypeOK, Draft
  <2>2. OneGroup(d.items) /\ SameMonth(d.items)
    BY <1>1 DEF MonthInv
  <2>3. Cardinality(d.items) \in 1..Copies
    BY <2>1, <2>2, AtMostCopies
  <2>4. \A n \in 1..Copies : \A t \in Terms : n * t.price \in Nat
    BY TermsAssumption
  <2>5. \A n \in 1..Copies : \A t \in Terms : LinesMake(n * t.price, t)
    BY <2>4, LinesMakeAny
  <2> QED BY <2>3, <2>5 DEF LinesMakeTotals
<1> QED BY <1>1, IInvHolds, MonthHolds, PTL
=============================================================================
