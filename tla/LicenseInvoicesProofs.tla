----------------------- MODULE LicenseInvoicesProofs -----------------------
(***************************************************************************)
(* Theorems about LicenseInvoices, for any purchases, clients and number   *)
(* of executions of the job, that may overlap and fail at any step.        *)
(***************************************************************************)
EXTENDS LicenseInvoices, FiniteSetTheorems, TLAPS

-----------------------------------------------------------------------------
(* Types.                                                                  *)

LEMMA IdleType == NoRow \in Row /\ Idle \in Run
BY BoundsAssumption DEF NoRow, Idle, Row, Run, Client

\* A step of execution r to locals of the right type.
LEMMA StepType ==
  ASSUME NEW r \in Runs, NEW l \in Run, TypeOK, Step(r, l)
  PROVE  run' \in [Runs -> Run]
BY DEF TypeOK, Step

LEMMA ContinueType ==
  ASSUME NEW r \in Runs, TypeOK, Continue(r, run[r])
  PROVE  run' \in [Runs -> Run]
<1>1. [run[r] EXCEPT !.phase = "next", !.current = {},
                     !.row = NoRow] \in Run
  BY IdleType DEF TypeOK, Run
<1> QED BY <1>1, StepType DEF Continue

LEMMA FaultyType ==
  ASSUME TypeOK, Faulty \/ UNCHANGED faults
  PROVE  faults' \in 0..MaxFaults
BY BoundsAssumption DEF TypeOK, Faulty

LEMMA LatestIn ==
  ASSUME NEW b \in Blocks, \A c \in Blocks : c <= b
  PROVE  LatestBlock \in Blocks /\ \A c \in Blocks : c <= LatestBlock
BY DEF LatestBlock

-----------------------------------------------------------------------------
(* There is a newest paid block, which makes Start's choice one of it.     *)

NewestExists == \E b \in Blocks : \A c \in Blocks : c <= b

Typed == TypeOK /\ NewestExists

\* The newest block never goes back while rows only go forward.
LEMMA NewestKept ==
  ASSUME NEW p \in Purchases, NEW row \in Row, Typed,
         table' = [table EXCEPT ![p] = row], table[p].block <= row.block
  PROVE  NewestExists'
<1>1. PICK b \in Blocks : \A c \in Blocks : c <= b
  BY DEF Typed, NewestExists
<1>2. table \in [Purchases -> Row] /\ table' \in [Purchases -> Row]
  BY DEF Typed, TypeOK
<1>3. Blocks \subseteq Nat /\ Blocks' \subseteq Nat /\ row.block \in Nat
  BY <1>2, BoundsAssumption DEF Blocks, Row
<1>4. row.block \in Blocks'
  BY <1>2 DEF Blocks
<1>5. \A c \in Blocks' : c \in Blocks \/ c = row.block
  BY <1>2 DEF Blocks
<1>6. b \in Blocks' \/ b <= row.block
  <2>1. CASE b = 0
    BY <2>1 DEF Blocks
  <2>2. CASE \E q \in Purchases : b = table[q].block
    <3>1. PICK q \in Purchases : b = table[q].block
      BY <2>2
    <3>2. CASE q = p
      BY <3>1, <3>2
    <3>3. CASE q # p
      BY <3>1, <3>3, <1>2 DEF Blocks
    <3> QED BY <3>2, <3>3
  <2> QED BY <2>1, <2>2 DEF Blocks
<1>7. CASE b <= row.block
  <2>1. \A c \in Blocks' : c <= row.block
    BY <1>1, <1>3, <1>5, <1>7
  <2> QED BY <1>4, <2>1 DEF NewestExists
<1>8. CASE b \in Blocks' /\ ~(b <= row.block)
  <2>1. \A c \in Blocks' : c <= b
    BY <1>1, <1>3, <1>5, <1>8
  <2> QED BY <1>8, <2>1 DEF NewestExists
<1> QED BY <1>6, <1>7, <1>8

LEMMA TypeInit == Init => Typed
<1> SUFFICES ASSUME Init PROVE Typed
  OBVIOUS
<1>1. TypeOK
  BY IdleType, BoundsAssumption DEF Init, TypeOK
<1>2. \A c \in Blocks : c = 0
  BY DEF Init, Blocks, NoRow
<1>3. 0 \in Blocks /\ \A c \in Blocks : c <= 0
  BY <1>2 DEF Blocks
<1> QED BY <1>1, <1>3 DEF Typed, NewestExists

LEMMA ViesType ==
  ASSUME NEW c
  PROVE  ViesAnswers(c) \subseteq [reverse : BOOLEAN, isUe : BOOLEAN]
<1>1. [reverse |-> FALSE, isUe |-> FALSE] \in
        [reverse : BOOLEAN, isUe : BOOLEAN]
  OBVIOUS
<1>2. [reverse : BOOLEAN, isUe : {TRUE}] \subseteq
        [reverse : BOOLEAN, isUe : BOOLEAN]
  OBVIOUS
<1> QED BY <1>1, <1>2, Zenon DEF ViesAnswers

LEMMA BuyType ==
  ASSUME NEW p \in Purchases, Typed, Buy(p)
  PROVE  TypeOK'
<1>1. CASE Refuse(p)
  BY <1>1 DEF Refuse, Typed, TypeOK
<1>2. CASE CreateInvoice(p)
  <2>1. PICK c \in Clients : \E vies \in ViesAnswers(c) :
          table' = [table EXCEPT ![p] =
                     [status |-> "pending", block |-> 0, client |-> c,
                      reverse |-> vies.reverse, isUe |-> vies.isUe]]
    BY <1>2 DEF CreateInvoice
  <2>5. PICK vies \in ViesAnswers(c) :
          table' = [table EXCEPT ![p] =
                     [status |-> "pending", block |-> 0, client |-> c,
                      reverse |-> vies.reverse, isUe |-> vies.isUe]]
    BY <2>1
  <2>6. ViesAnswers(c) \subseteq [reverse : BOOLEAN, isUe : BOOLEAN]
    BY ViesType
  <2>2. vies.reverse \in BOOLEAN /\ vies.isUe \in BOOLEAN
    BY <2>6
  <2>3. [status |-> "pending", block |-> 0, client |-> c,
         reverse |-> vies.reverse, isUe |-> vies.isUe] \in Row
    BY <2>2, ClientsAssumption, BoundsAssumption DEF Row
  <2>4. table' \in [Purchases -> Row]
    BY <2>5, <2>3 DEF Typed, TypeOK
  <2> QED BY <1>2, <2>4 DEF CreateInvoice, Typed, TypeOK
<1>3. CASE Sign(p)
  <2>1. SignedRate(table[p].client) \in Rates
    BY DEF SignedRate, CountryRate, Rates
  <2> QED BY <1>3, <2>1 DEF Sign, Typed, TypeOK
<1> QED BY <1>1, <1>2, <1>3 DEF Buy

LEMMA MineType ==
  ASSUME NEW S \in SUBSET Purchases, Typed, MineBlock(S)
  PROVE  TypeOK'
<1>1. head + 1 \in 1..MaxBlock /\ head' \in 0..MaxBlock
  BY BoundsAssumption DEF MineBlock, Typed, TypeOK
<1>2. events' \subseteq Event
  BY <1>1 DEF MineBlock, Typed, TypeOK, Event
<1> QED BY <1>1, <1>2 DEF MineBlock, Typed, TypeOK

LEMMA LatestType ==
  ASSUME Typed
  PROVE  LatestBlock \in Blocks /\ LatestBlock \in 0..MaxBlock
<1>1. LatestBlock \in Blocks
  BY LatestIn DEF Typed, NewestExists
<1>2. Blocks \subseteq 0..MaxBlock
  BY BoundsAssumption DEF Blocks, Typed, TypeOK, Row
<1> QED BY <1>1, <1>2

LEMMA JobType ==
  ASSUME NEW r \in Runs, Typed,
         Start(r) \/ JobStep(r) \/ PassOver(r) \/ SkipEvent(r) \/ Fail(r)
  PROVE  TypeOK'
<1>r. run[r] \in Run
  BY DEF Typed, TypeOK
<1>1. CASE Start(r)
  <2>1. [Idle EXCEPT !.phase = "fetch"] \in Run
    BY IdleType DEF Run
  <2>2. [Idle EXCEPT !.phase = "fetch", !.from = LatestBlock] \in Run
    BY IdleType, LatestType DEF Run
  <2>3. run' \in [Runs -> Run]
    BY <1>1, <2>1, <2>2, StepType DEF Start, Typed
  <2> QED BY <1>1, <2>3, FaultyType DEF Start, Typed, TypeOK
<1>2. CASE FetchEvents(r)
  <2>1. [run[r] EXCEPT !.phase = "next",
           !.todo = {e \in events : e.block >= run[r].from}] \in Run
    BY <1>r DEF Run, Typed, TypeOK
  <2> QED BY <1>2, <2>1, StepType DEF FetchEvents, Typed, TypeOK
<1>3. CASE TakeEvent(r)
  <2>1. PICK e \in run[r].todo :
          \/ Step(r, [run[r] EXCEPT !.todo = @ \ {e}])
          \/ Step(r, [[run[r] EXCEPT !.todo = @ \ {e}] EXCEPT
                        !.current = {e}, !.row = table[e.invoice],
                        !.phase = IF table[e.invoice].client.own
                                  THEN "save" ELSE "issue"])
    BY <1>3 DEF TakeEvent
  <2>2. e \in Event /\ e.invoice \in Purchases
    BY <1>r DEF Run, Event
  <2>3. table[e.invoice] \in Row
    BY <2>2 DEF Typed, TypeOK
  <2>4. [run[r] EXCEPT !.todo = @ \ {e}] \in Run
    BY <1>r DEF Run
  <2>5. [[run[r] EXCEPT !.todo = @ \ {e}] EXCEPT
           !.current = {e}, !.row = table[e.invoice],
           !.phase = IF table[e.invoice].client.own
                     THEN "save" ELSE "issue"] \in Run
    BY <1>r, <2>2, <2>3 DEF Run
  <2>6. run' \in [Runs -> Run]
    BY <2>1, <2>4, <2>5, StepType DEF Typed
  <2> QED BY <1>3, <2>6 DEF TakeEvent, Typed, TypeOK
<1>4. CASE MakeInvoice(r)
  <2>1. PICK e \in run[r].current :
          issued' = [issued EXCEPT ![e.invoice] = @ + 1]
    BY <1>4 DEF MakeInvoice
  <2>2. issued' \in [Purchases -> Nat]
    BY <1>r, <2>1 DEF Typed, TypeOK, Run, Event
  <2>3. [run[r] EXCEPT !.phase = "save"] \in Run
    BY <1>r DEF Run
  <2> QED BY <1>4, <2>2, <2>3, StepType DEF MakeInvoice, Typed, TypeOK
<1>5. CASE UpdateInvoice(r)
  <2>1. run' \in [Runs -> Run]
    BY <1>5, ContinueType DEF UpdateInvoice, Typed
  <2>2. table' \in [Purchases -> Row]
    <3>1. ASSUME NEW e \in run[r].current,
                 table' = [table EXCEPT ![e.invoice] = Paid(r, e)]
          PROVE  table' \in [Purchases -> Row]
      <4>1. e \in Event /\ run[r].row \in Row
        BY <1>r DEF Run
      <4>2. e.block \in 0..MaxBlock /\ e.invoice \in Purchases
        BY <4>1, BoundsAssumption DEF Event
      <4>3. Paid(r, e) \in Row
        BY <4>1, <4>2 DEF Paid, Row
      <4> QED BY <3>1, <4>2, <4>3 DEF Typed, TypeOK
    <3> QED BY <1>5, <3>1 DEF UpdateInvoice, Typed, TypeOK
  <2>3. faults' \in 0..MaxFaults
    BY <1>5, FaultyType DEF UpdateInvoice, Typed
  <2> QED BY <1>5, <2>1, <2>2, <2>3 DEF UpdateInvoice, Typed, TypeOK
<1>6. CASE End(r)
  BY <1>6, IdleType, StepType DEF End, Typed, TypeOK
<1>7. CASE PassOver(r)
  <2>1. run' \in [Runs -> Run]
    BY <1>7, ContinueType DEF PassOver, Typed
  <2>2. PICK e \in run[r].current, n \in 0..1 :
          issued' = [issued EXCEPT ![e.invoice] = @ + n]
    BY <1>7 DEF PassOver
  <2>3. issued' \in [Purchases -> Nat]
    BY <1>r, <2>2 DEF Typed, TypeOK, Run, Event
  <2> QED BY <1>7, <2>1, <2>3, FaultyType DEF PassOver, Typed, TypeOK
<1>8. CASE SkipEvent(r)
  <2>1. \A e : [run[r] EXCEPT !.todo = @ \ {e}] \in Run
    BY <1>r DEF Run
  <2>2. run' \in [Runs -> Run]
    BY <1>8, <2>1, StepType DEF SkipEvent, Typed
  <2> QED BY <1>8, <2>2, FaultyType DEF SkipEvent, Typed, TypeOK
<1>9. CASE Fail(r)
  <2>1. run' \in [Runs -> Run]
    BY <1>9, IdleType, StepType DEF Fail, Typed
  <2> QED BY <1>9, <2>1, FaultyType DEF Fail, Typed, TypeOK
<1> QED BY <1>1, <1>2, <1>3, <1>4, <1>5, <1>6, <1>7, <1>8, <1>9 DEF JobStep

-----------------------------------------------------------------------------
(* What a purchase, an event and an execution keep true.                   *)

\* The row of a request was made from a client and an answer of VIES, and
\* the signature and the invoice were made from that row.
Deal(p) ==
  /\ request[p] \in {"stored", "signed"} =>
       /\ table[p].status # "none"
       /\ table[p].client \in Clients
       /\ [reverse |-> table[p].reverse, isUe |-> table[p].isUe] \in
            ViesAnswers(table[p].client)
  /\ request[p] = "signed" => signed[p] = SignedRate(table[p].client)
  /\ issued[p] > 0 => p \in Bought /\ ~table[p].client.own
  /\ IF table[p].status = "paid"
     THEN /\ [invoice |-> p, block |-> table[p].block] \in events
          /\ issued[p] > 0 \/ table[p].client.own
     ELSE table[p].block = 0

\* A purchase is mined once, after it was signed.
EventsSound ==
  /\ \A e \in events : request[e.invoice] = "signed" /\ e.block <= head
  /\ \A e, f \in events : e.invoice = f.invoice => e = f

\* Execution r holds a copy of the row of its current event, and takes the
\* events in the order of their blocks; it started from a paid block.
Holds(r, e) ==
  /\ e \in events
  /\ \A f \in run[r].todo : e.block <= f.block
  /\ run[r].row.client = table[e.invoice].client
  /\ run[r].row.reverse = table[e.invoice].reverse
  /\ run[r].row.isUe = table[e.invoice].isUe
  /\ run[r].phase = "issue" => ~run[r].row.client.own
  /\ run[r].phase = "save" => issued[e.invoice] > 0 \/ run[r].row.client.own

RunSound(r) ==
  /\ run[r].todo \subseteq events
  /\ \A e \in run[r].current : Holds(r, e)
  /\ \A e, f \in run[r].current : e = f
  /\ run[r].phase \in {"idle", "fetch", "next"} => run[r].current = {}
  /\ run[r].phase \in {"idle", "fetch"} => run[r].todo = {}
  /\ \E b \in Blocks : run[r].from <= b

IInv ==
  /\ Typed
  /\ \A p \in Purchases : Deal(p)
  /\ EventsSound
  /\ \A r \in Runs : RunSound(r)

\* Pending events that execution r went past.
Held(r) == run[r].todo \cup run[r].current

PassedOver(r) ==
  {e \in events : /\ table[e.invoice].status = "pending"
                  /\ e.block >= run[r].from
                  /\ e \notin Held(r)
                  /\ \E f \in Held(r) : e.block < f.block}

Missed == Behind \cup UNION {PassedOver(r) : r \in Runs}

MissedExplained == IsFiniteSet(Missed) /\ Cardinality(Missed) <= faults

Issuing(p) == {r \in Runs : /\ run[r].phase = "issue"
                            /\ \E e \in run[r].current : e.invoice = p}
Saving(p) == {r \in Runs : /\ run[r].phase = "save"
                           /\ \E e \in run[r].current : e.invoice = p}

CopiesCounted(p) ==
  IF table[p].status = "paid"
  THEN issued[p] + Cardinality(Issuing(p)) <= Cardinality(Runs) + faults
  ELSE issued[p] <= Cardinality(Saving(p)) + faults

-----------------------------------------------------------------------------
(* The invariant is kept.                                                  *)

LEMMA StepRun ==
  ASSUME NEW r \in Runs, NEW l, TypeOK, Step(r, l)
  PROVE  run'[r] = l /\ \A s \in Runs \ {r} : run'[s] = run[s]
BY DEF TypeOK, Step

\* What events and copies rely on only goes forward.
Forward ==
  /\ events \subseteq events'
  /\ \A e \in events :
       /\ table'[e.invoice].client = table[e.invoice].client
       /\ table'[e.invoice].reverse = table[e.invoice].reverse
       /\ table'[e.invoice].isUe = table[e.invoice].isUe
       /\ issued[e.invoice] > 0 => issued'[e.invoice] > 0
  /\ \A p \in Purchases : table[p].block <= table'[p].block

LEMMA BlocksForward ==
  ASSUME TypeOK, TypeOK', Forward,
         NEW a \in Nat, \E b \in Blocks : a <= b
  PROVE  \E b \in Blocks' : a <= b
<1>1. CASE a <= 0
  BY <1>1 DEF Blocks
<1>2. CASE \E p \in Purchases : a <= table[p].block
  <2>1. PICK p \in Purchases : a <= table[p].block
    BY <1>2
  <2>2. table[p].block <= table'[p].block
    BY DEF Forward
  <2>3. table[p].block \in Nat /\ table'[p].block \in Nat
    BY BoundsAssumption DEF TypeOK, Row
  <2>4. a <= table'[p].block
    BY <2>1, <2>2, <2>3
  <2> QED BY <2>4 DEF Blocks
<1> QED BY <1>1, <1>2 DEF Blocks

LEMMA RunKept ==
  ASSUME NEW s \in Runs, IInv, TypeOK', Forward, run'[s] = run[s]
  PROVE  RunSound(s)'
<1>1. RunSound(s)
  BY DEF IInv
<1>2. ASSUME NEW e \in run'[s].current PROVE Holds(s, e)'
  <2>1. Holds(s, e)
    BY <1>1, <1>2 DEF RunSound
  <2> QED BY <2>1 DEF Holds, Forward
<1>3. run[s].from \in Nat
  BY BoundsAssumption DEF IInv, Typed, TypeOK, Run
<1>4. \E b \in Blocks' : run[s].from <= b
  BY <1>1, <1>3, BlocksForward DEF IInv, Typed, RunSound
<1> QED BY <1>1, <1>2, <1>4 DEF RunSound, Forward

LEMMA QuietKept ==
  ASSUME IInv, NEW r \in Runs, TypeOK',
         UNCHANGED <<request, table, signed, head, events, issued>>,
         \A s \in Runs \ {r} : run'[s] = run[s],
         RunSound(r)'
  PROVE  IInv'
<1>1. Forward
  BY BoundsAssumption DEF Forward, IInv, Typed, TypeOK, Row
<1>2. \A s \in Runs : RunSound(s)'
  BY <1>1, RunKept
<1>3. NewestExists'
  BY DEF IInv, Typed, NewestExists, Blocks
<1>4. \A p \in Purchases : Deal(p)'
  BY DEF IInv, Deal, Bought
<1>5. EventsSound'
  BY DEF IInv, EventsSound
<1> QED BY <1>2, <1>3, <1>4, <1>5 DEF IInv, Typed

LEMMA InitSound == Init => IInv
<1> SUFFICES ASSUME Init PROVE IInv
  OBVIOUS
<1>1. Typed
  BY TypeInit
<1>2. ASSUME NEW p \in Purchases PROVE Deal(p)
  BY DEF Init, Deal, NoRow
<1>3. EventsSound
  BY DEF Init, EventsSound
<1>4. ASSUME NEW r \in Runs PROVE RunSound(r)
  BY DEF Init, RunSound, Idle, Blocks
<1> QED BY <1>1, <1>2, <1>3, <1>4 DEF IInv

LEMMA InBought ==
  ASSUME NEW p, NEW b, [invoice |-> p, block |-> b] \in events
  PROVE  p \in Bought
<1>1. [invoice |-> p, block |-> b].invoice = p
  OBVIOUS
<1> QED BY <1>1 DEF Bought

LEMMA BuySound ==
  ASSUME NEW p \in Purchases, IInv, Buy(p)
  PROVE  IInv'
<1>1. TypeOK /\ TypeOK'
  BY BuyType DEF IInv, Typed
<1>2. request[p] # "signed" /\ p \notin Bought
  <2>1. request[p] # "signed"
    BY DEF Buy, Refuse, CreateInvoice, Sign
  <2> QED BY <2>1 DEF IInv, EventsSound, Bought
<1>3. table[p].block = 0
  BY <1>2, InBought DEF IInv, Deal
<1>4. UNCHANGED <<head, events, issued, run, faults>>
  BY DEF Buy, Refuse, CreateInvoice, Sign
<1>5. \A q \in Purchases \ {p} :
        /\ request'[q] = request[q]
        /\ table'[q] = table[q]
        /\ signed'[q] = signed[q]
  BY <1>1 DEF Buy, Refuse, CreateInvoice, Sign, TypeOK
<1>6. Deal(p)' /\ table'[p].block = 0
  <2>1. Deal(p)
    BY DEF IInv
  <2>2. CASE Refuse(p)
    BY <1>1, <1>3, <2>1, <2>2 DEF Refuse, Deal, Bought, TypeOK
  <2>3. CASE CreateInvoice(p)
    <3>1. PICK c \in Clients : \E vies \in ViesAnswers(c) :
            table'[p] = [status |-> "pending", block |-> 0, client |-> c,
                         reverse |-> vies.reverse, isUe |-> vies.isUe]
      BY <1>1, <2>3 DEF CreateInvoice, TypeOK
    <3>2. PICK vies \in ViesAnswers(c) :
            table'[p] = [status |-> "pending", block |-> 0, client |-> c,
                         reverse |-> vies.reverse, isUe |-> vies.isUe]
      BY <3>1
    <3>3. [reverse |-> vies.reverse, isUe |-> vies.isUe] = vies
      BY ViesType
    <3>4. issued'[p] > 0 => FALSE
      BY <1>2, <1>4, <2>1 DEF Deal
    <3>5. request'[p] = "stored"
      BY <1>1, <2>3 DEF CreateInvoice, TypeOK
    <3> QED BY <3>2, <3>3, <3>4, <3>5 DEF Deal
  <2>4. CASE Sign(p)
    <3>1. /\ request[p] = "stored" /\ request'[p] = "signed"
          /\ signed'[p] = SignedRate(table[p].client) /\ table' = table
      BY <1>1, <2>4 DEF Sign, TypeOK
    <3> QED BY <1>3, <1>4, <2>1, <3>1 DEF Deal, Bought
  <2> QED BY <2>2, <2>3, <2>4 DEF Buy
<1>7. \A q \in Purchases : Deal(q)'
  <2>1. ASSUME NEW q \in Purchases \ {p} PROVE Deal(q)'
    BY <1>4, <1>5 DEF IInv, Deal, Bought
  <2> QED BY <1>6, <2>1
<1>8. EventsSound'
  BY <1>2, <1>4, <1>5, <1>1
     DEF IInv, EventsSound, Bought, TypeOK, Event
<1>9. Forward
  <2>1. \A e \in events : e.invoice \in Purchases \ {p}
    BY <1>1, <1>2 DEF TypeOK, Event, Bought
  <2>2. ASSUME NEW q \in Purchases PROVE table[q].block <= table'[q].block
    <3>1. table[q].block \in Nat
      BY <1>1, BoundsAssumption DEF TypeOK, Row
    <3> QED BY <1>3, <1>5, <1>6, <3>1
  <2> QED BY <1>4, <1>5, <2>1, <2>2 DEF Forward
<1>10. \A r \in Runs : RunSound(r)'
  BY <1>1, <1>4, <1>9, RunKept
<1>11. NewestExists'
  <2>1. table'[p] \in Row /\ table' = [table EXCEPT ![p] = table'[p]]
    BY <1>1, <1>5 DEF TypeOK
  <2>2. table[p].block <= table'[p].block
    BY <1>3, <1>6
  <2> QED BY <2>1, <2>2, NewestKept DEF IInv
<1> QED BY <1>1, <1>7, <1>8, <1>10, <1>11 DEF IInv, Typed

LEMMA MineSound ==
  ASSUME NEW S \in SUBSET {p \in Purchases \ Bought : request[p] = "signed"},
         IInv, MineBlock(S)
  PROVE  IInv'
<1>1. TypeOK /\ TypeOK'
  BY MineType DEF IInv, Typed
<1>2. UNCHANGED <<request, table, signed, issued, run, faults>>
  BY DEF MineBlock
<1>3. events \subseteq events'
  BY DEF MineBlock
<1>4. EventsSound'
  <2>1. head \in Nat /\ head' = head + 1
    BY <1>1, BoundsAssumption DEF MineBlock, TypeOK
  <2>2. \A e \in events' :
          \/ e \in events
          \/ /\ e.invoice \in S
             /\ e.block = head + 1
             /\ e = [invoice |-> e.invoice, block |-> head + 1]
    BY DEF MineBlock
  <2>3. \A e \in events : e.block \in Nat /\ e.invoice \notin S
    BY <1>1 DEF TypeOK, Event, Bought
  <2>4. \A e \in events' : request[e.invoice] = "signed" /\ e.block <= head'
    BY <2>1, <2>2, <2>3 DEF IInv, EventsSound
  <2>5. ASSUME NEW e \in events', NEW f \in events', e.invoice = f.invoice
        PROVE  e = f
    BY <2>2, <2>3, <2>5 DEF IInv, EventsSound
  <2> QED BY <1>2, <2>4, <2>5 DEF EventsSound
<1>5. Forward
  BY <1>1, <1>2, <1>3, BoundsAssumption DEF Forward, TypeOK, Row
<1>6. \A r \in Runs : RunSound(r)'
  BY <1>1, <1>2, <1>5, RunKept
<1>7. ASSUME NEW p \in Purchases PROVE Deal(p)'
  BY <1>2, <1>3 DEF IInv, Deal, Bought
<1>8. NewestExists'
  BY <1>2 DEF IInv, Typed, NewestExists, Blocks
<1> QED BY <1>1, <1>4, <1>6, <1>7, <1>8 DEF IInv, Typed

\* Back to the next event, or to nothing.
LEMMA ContinueRun ==
  ASSUME NEW r \in Runs, TypeOK, Continue(r, run[r])
  PROVE  /\ run'[r].phase = "next"
         /\ run'[r].from = run[r].from
         /\ run'[r].todo = run[r].todo
         /\ run'[r].current = {}
         /\ \A s \in Runs \ {r} : run'[s] = run[s]
<1>1. run[r] \in Run
  BY DEF TypeOK
<1>2. /\ run'[r] = [run[r] EXCEPT !.phase = "next", !.current = {},
                                  !.row = NoRow]
      /\ \A s \in Runs \ {r} : run'[s] = run[s]
  BY StepRun DEF Continue
<1> QED BY <1>1, <1>2 DEF Run

\* The locals of an execution that only ever holds fewer events.
LEMMA FewerSound ==
  ASSUME NEW r \in Runs, IInv, TypeOK', Forward,
         run'[r].current = {}, run'[r].from = run[r].from,
         run'[r].todo \subseteq run[r].todo,
         run'[r].phase \in {"idle", "fetch"} => run'[r].todo = {}
  PROVE  RunSound(r)'
<1>1. RunSound(r)
  BY DEF IInv
<1>2. run[r].from \in Nat
  BY BoundsAssumption DEF IInv, Typed, TypeOK, Run
<1>3. \E b \in Blocks' : run[r].from <= b
  BY <1>1, <1>2, BlocksForward DEF IInv, Typed, RunSound
<1> QED BY <1>1, <1>3 DEF RunSound, Forward

LEMMA QuietForward ==
  ASSUME TypeOK, UNCHANGED <<table, events, issued>>
  PROVE  Forward
BY BoundsAssumption DEF Forward, TypeOK, Row

\* Start, Fail and End make a run begin afresh.
LEMMA FreshSound ==
  ASSUME NEW r \in Runs, IInv, TypeOK', UNCHANGED table,
         run'[r].current = {}, run'[r].todo = {},
         run'[r].from = 0 \/ run'[r].from = LatestBlock
  PROVE  RunSound(r)'
<1>1. LatestBlock \in Blocks /\ LatestBlock \in Nat /\ 0 \in Blocks
  BY LatestType, BoundsAssumption DEF IInv, Blocks
<1>2. Blocks' = Blocks
  BY DEF Blocks
<1> QED BY <1>1, <1>2 DEF RunSound

LEMMA StartSound ==
  ASSUME NEW r \in Runs, IInv, Start(r) \/ End(r) \/ Fail(r)
  PROVE  IInv'
<1>1. TypeOK /\ TypeOK'
  BY JobType DEF IInv, Typed, JobStep
<1>2. UNCHANGED <<request, table, signed, head, events, issued>>
  BY DEF Start, End, Fail
<1>3. /\ run'[r].current = {} /\ run'[r].todo = {}
      /\ run'[r].from = 0 \/ run'[r].from = LatestBlock
      /\ \A s \in Runs \ {r} : run'[s] = run[s]
  <2>1. CASE Step(r, Idle)
    BY <1>1, <2>1, StepRun DEF Idle
  <2>2. CASE Step(r, [Idle EXCEPT !.phase = "fetch"])
    BY <1>1, <2>2, StepRun DEF Idle
  <2>3. CASE Step(r, [Idle EXCEPT !.phase = "fetch", !.from = LatestBlock])
    <3> DEFINE l == [Idle EXCEPT !.phase = "fetch", !.from = LatestBlock]
    <3>1. l.current = {} /\ l.todo = {} /\ l.from = LatestBlock
      BY DEF Idle
    <3>2. Step(r, l)
      BY <2>3
    <3> HIDE DEF l
    <3>3. run'[r] = l /\ \A s \in Runs \ {r} : run'[s] = run[s]
      BY <1>1, <3>2, StepRun
    <3> QED BY <3>1, <3>3
  <2> QED BY <2>1, <2>2, <2>3 DEF Start, End, Fail
<1>4. RunSound(r)'
  BY <1>1, <1>2, <1>3, FreshSound
<1> QED BY <1>1, <1>2, <1>3, <1>4, QuietKept

LEMMA FetchSound ==
  ASSUME NEW r \in Runs, IInv, FetchEvents(r)
  PROVE  IInv'
<1>1. TypeOK /\ TypeOK'
  BY JobType DEF IInv, Typed, JobStep
<1>2. UNCHANGED <<request, table, signed, head, events, issued>>
  BY DEF FetchEvents
<1>3. run[r] \in Run
  BY <1>1 DEF TypeOK
<1>4. /\ run'[r] = [run[r] EXCEPT !.phase = "next",
                      !.todo = {e \in events : e.block >= run[r].from}]
      /\ \A s \in Runs \ {r} : run'[s] = run[s]
  BY <1>1, StepRun DEF FetchEvents
<1>5. RunSound(r)'
  <2>1. run[r].current = {} /\ \E b \in Blocks : run[r].from <= b
    BY DEF IInv, RunSound, FetchEvents
  <2>2. /\ run'[r].phase = "next" /\ run'[r].current = {}
        /\ run'[r].from = run[r].from /\ run'[r].todo \subseteq events
    BY <1>3, <1>4, <2>1 DEF Run
  <2>3. Blocks' = Blocks
    BY <1>2 DEF Blocks
  <2> QED BY <1>2, <2>1, <2>2, <2>3 DEF RunSound
<1> QED BY <1>1, <1>2, <1>4, <1>5, QuietKept

\* Copying the row of e makes e the current event.
LEMMA HoldSound ==
  ASSUME NEW r \in Runs, IInv, TypeOK',
         UNCHANGED <<request, table, signed, head, events, issued>>,
         NEW e \in run[r].todo, IsFirst(e, run[r].todo),
         run'[r].todo = run[r].todo \ {e}, run'[r].current = {e},
         run'[r].from = run[r].from, run'[r].row = table[e.invoice],
         run'[r].phase = IF table[e.invoice].client.own
                         THEN "save" ELSE "issue"
  PROVE  RunSound(r)'
<1>1. RunSound(r)
  BY DEF IInv
<1>2. Blocks' = Blocks
  BY DEF Blocks
<1>3. Holds(r, e)'
  BY <1>1 DEF RunSound, Holds, IsFirst
<1> QED BY <1>1, <1>2, <1>3 DEF RunSound

LEMMA TakeSound ==
  ASSUME NEW r \in Runs, IInv, TakeEvent(r)
  PROVE  IInv'
<1>1. TypeOK /\ TypeOK'
  BY JobType DEF IInv, Typed, JobStep
<1>2. UNCHANGED <<request, table, signed, head, events, issued>>
  BY DEF TakeEvent
<1>3. run[r] \in Run
  BY <1>1 DEF TypeOK
<1>4. PICK e \in run[r].todo :
        /\ IsFirst(e, run[r].todo)
        /\ \/ Step(r, [run[r] EXCEPT !.todo = @ \ {e}])
           \/ Step(r, [[run[r] EXCEPT !.todo = @ \ {e}] EXCEPT
                         !.current = {e}, !.row = table[e.invoice],
                         !.phase = IF table[e.invoice].client.own
                                   THEN "save" ELSE "issue"])
  BY DEF TakeEvent
<1>5. CASE Step(r, [run[r] EXCEPT !.todo = @ \ {e}])
  <2>1. /\ run'[r] = [run[r] EXCEPT !.todo = @ \ {e}]
        /\ \A s \in Runs \ {r} : run'[s] = run[s]
    BY <1>1, <1>5, StepRun
  <2>2. run[r].phase = "next" /\ run[r].current = {}
    BY DEF TakeEvent, IInv, RunSound
  <2>3. /\ run'[r].phase = "next" /\ run'[r].current = {}
        /\ run'[r].from = run[r].from /\ run'[r].todo \subseteq run[r].todo
    BY <1>3, <2>1, <2>2 DEF Run
  <2>4. RunSound(r)'
    BY <1>1, <1>2, <2>3, FewerSound, QuietForward
  <2> QED BY <1>1, <1>2, <2>1, <2>4, QuietKept
<1>6. CASE Step(r, [[run[r] EXCEPT !.todo = @ \ {e}] EXCEPT
                      !.current = {e}, !.row = table[e.invoice],
                      !.phase = IF table[e.invoice].client.own
                                THEN "save" ELSE "issue"])
  <2>1. /\ run'[r] = [[run[r] EXCEPT !.todo = @ \ {e}] EXCEPT
                        !.current = {e}, !.row = table[e.invoice],
                        !.phase = IF table[e.invoice].client.own
                                  THEN "save" ELSE "issue"]
        /\ \A s \in Runs \ {r} : run'[s] = run[s]
    BY <1>1, <1>6, StepRun
  <2>2. /\ run'[r].todo = run[r].todo \ {e} /\ run'[r].current = {e}
        /\ run'[r].from = run[r].from /\ run'[r].row = table[e.invoice]
        /\ run'[r].phase = IF table[e.invoice].client.own
                           THEN "save" ELSE "issue"
    BY <1>3, <2>1 DEF Run
  <2>3. RunSound(r)'
    BY <1>1, <1>2, <1>4, <2>2, HoldSound
  <2> QED BY <1>1, <1>2, <2>1, <2>3, QuietKept
<1> QED BY <1>4, <1>5, <1>6

LEMMA SkipSound ==
  ASSUME NEW r \in Runs, IInv, SkipEvent(r)
  PROVE  IInv'
<1>1. TypeOK /\ TypeOK'
  BY JobType DEF IInv, Typed
<1>2. UNCHANGED <<request, table, signed, head, events, issued>>
  BY DEF SkipEvent
<1>3. run[r] \in Run
  BY <1>1 DEF TypeOK
<1>4. PICK e \in run[r].todo : Step(r, [run[r] EXCEPT !.todo = @ \ {e}])
  BY DEF SkipEvent
<1>5. /\ run'[r] = [run[r] EXCEPT !.todo = @ \ {e}]
      /\ \A s \in Runs \ {r} : run'[s] = run[s]
  BY <1>1, <1>4, StepRun
<1>6. run[r].phase = "next" /\ run[r].current = {}
  BY DEF SkipEvent, IInv, RunSound
<1>7. /\ run'[r].phase = "next" /\ run'[r].current = {}
      /\ run'[r].from = run[r].from /\ run'[r].todo \subseteq run[r].todo
  BY <1>3, <1>5, <1>6 DEF Run
<1>8. RunSound(r)'
  BY <1>1, <1>2, <1>7, FewerSound, QuietForward
<1> QED BY <1>1, <1>2, <1>5, <1>8, QuietKept

\* One more invoice, or none, for an event whose row is not the company's.
LEMMA IssueKept ==
  ASSUME NEW r \in Runs, IInv, TypeOK',
         UNCHANGED <<request, table, signed, head, events>>,
         NEW e \in run[r].current, NEW n \in 0..1, run[r].phase = "issue",
         issued' = [issued EXCEPT ![e.invoice] = @ + n],
         \A s \in Runs \ {r} : run'[s] = run[s],
         Forward => RunSound(r)'
  PROVE  IInv'
<1>1. TypeOK
  BY DEF IInv, Typed
<1>2. e \in events /\ ~table[e.invoice].client.own /\ e.invoice \in Purchases
  BY <1>1 DEF IInv, RunSound, Holds, TypeOK, Event
<1>3. \A p \in Purchases : issued'[p] = IF p = e.invoice THEN issued[p] + n
                                                         ELSE issued[p]
  BY <1>1, <1>2 DEF TypeOK
<1>4. \A p \in Purchases : issued[p] \in Nat
  BY <1>1 DEF TypeOK
<1>5. Forward
  <2>1. \A p \in Purchases : table[p].block <= table'[p].block
    BY <1>1, BoundsAssumption DEF TypeOK, Row
  <2>2. \A f \in events : issued[f.invoice] > 0 => issued'[f.invoice] > 0
    BY <1>1, <1>3, <1>4 DEF TypeOK, Event
  <2> QED BY <2>1, <2>2 DEF Forward
<1>6. \A s \in Runs : RunSound(s)'
  BY <1>5, RunKept
<1>7. ASSUME NEW p \in Purchases PROVE Deal(p)'
  <2>1. Deal(p) /\ Bought' = Bought
    BY DEF IInv, Bought
  <2>2. e.invoice \in Bought
    BY <1>2 DEF Bought
  <2>3. issued[p] > 0 => issued'[p] > 0
    BY <1>3, <1>4
  <2>4. issued'[p] > 0 => p \in Bought /\ ~table[p].client.own
    BY <1>2, <1>3, <2>1, <2>2 DEF Deal
  <2> QED BY <2>1, <2>3, <2>4 DEF Deal
<1>8. NewestExists' /\ EventsSound'
  BY DEF IInv, Typed, NewestExists, Blocks, EventsSound
<1> QED BY <1>6, <1>7, <1>8 DEF IInv, Typed

LEMMA MakeSound ==
  ASSUME NEW r \in Runs, IInv, MakeInvoice(r)
  PROVE  IInv'
<1>1. TypeOK /\ TypeOK'
  BY JobType DEF IInv, Typed, JobStep
<1>2. PICK e \in run[r].current :
        issued' = [issued EXCEPT ![e.invoice] = @ + 1]
  BY DEF MakeInvoice
<1>3. run[r] \in Run
  BY <1>1 DEF TypeOK
<1>4. /\ run'[r] = [run[r] EXCEPT !.phase = "save"]
      /\ \A s \in Runs \ {r} : run'[s] = run[s]
  BY <1>1, StepRun DEF MakeInvoice
<1>5. /\ run'[r].phase = "save" /\ run'[r].from = run[r].from
      /\ run'[r].todo = run[r].todo /\ run'[r].current = run[r].current
      /\ run'[r].row = run[r].row
  BY <1>3, <1>4 DEF Run
<1>6. ASSUME Forward PROVE RunSound(r)'
  <2>1. RunSound(r)
    BY DEF IInv
  <2>2. run[r].from \in Nat
    BY <1>3, BoundsAssumption DEF Run
  <2>3. \E b \in Blocks' : run'[r].from <= b
    BY <1>1, <1>5, <1>6, <2>1, <2>2, BlocksForward DEF RunSound
  <2>4. ASSUME NEW f \in run'[r].current PROVE Holds(r, f)'
    <3>1. Holds(r, f) /\ f = e
      BY <1>5, <2>1, <2>4 DEF RunSound
    <3>2. issued'[e.invoice] > 0
      BY <1>1, <1>2, <3>1 DEF TypeOK, Holds, Event
    <3> QED BY <1>5, <3>1, <3>2 DEF Holds, MakeInvoice
  <2> QED BY <1>5, <2>1, <2>3, <2>4 DEF RunSound, MakeInvoice
<1>7. UNCHANGED <<request, table, signed, head, events>>
  BY DEF MakeInvoice
<1>8. run[r].phase = "issue"
  BY DEF MakeInvoice
<1>9. 1 \in 0..1
  OBVIOUS
<1> QED BY <1>1, <1>2, <1>4, <1>6, <1>7, <1>8, <1>9, IssueKept

LEMMA PassSound ==
  ASSUME NEW r \in Runs, IInv, PassOver(r)
  PROVE  IInv'
<1>1. TypeOK /\ TypeOK'
  BY JobType DEF IInv, Typed
<1>2. PICK e \in run[r].current : \E n \in 0..1 :
        issued' = [issued EXCEPT ![e.invoice] = @ + n]
  BY DEF PassOver
<1>3. PICK n \in 0..1 : issued' = [issued EXCEPT ![e.invoice] = @ + n]
  BY <1>2
<1>4. /\ run'[r].phase = "next" /\ run'[r].from = run[r].from
      /\ run'[r].todo = run[r].todo /\ run'[r].current = {}
      /\ \A s \in Runs \ {r} : run'[s] = run[s]
  BY <1>1, ContinueRun DEF PassOver
<1>5. ASSUME Forward PROVE RunSound(r)'
  BY <1>1, <1>4, <1>5, FewerSound
<1>6. UNCHANGED <<request, table, signed, head, events>>
  BY DEF PassOver
<1>7. run[r].phase = "issue"
  BY DEF PassOver
<1> QED BY <1>1, <1>3, <1>4, <1>5, <1>6, <1>7, IssueKept

\* The row that is paid is the event's own, and only goes forward.
LEMMA PaidKept ==
  ASSUME NEW r \in Runs, IInv, TypeOK',
         UNCHANGED <<request, signed, head, events, issued>>,
         NEW e \in run[r].current, run[r].phase = "save",
         table' = [table EXCEPT ![e.invoice] = Paid(r, e)],
         \A s \in Runs \ {r} : run'[s] = run[s],
         Forward => RunSound(r)'
  PROVE  IInv' /\ Forward
<1>1. TypeOK /\ Holds(r, e)
  BY DEF IInv, Typed, RunSound
<1>2. e \in events /\ e \in Event /\ e.invoice \in Purchases
  BY <1>1 DEF Holds, TypeOK, Event
<1>3. e.block \in Nat /\ e = [invoice |-> e.invoice, block |-> e.block]
  BY <1>2, BoundsAssumption DEF Event
<1> DEFINE p == e.invoice
           row == Paid(r, e)
<1>4. run[r].row \in Row
  BY <1>1 DEF TypeOK, Run
<1>5. /\ row.status = "paid" /\ row.block = e.block
      /\ row.client = table[p].client /\ row.reverse = table[p].reverse
      /\ row.isUe = table[p].isUe
  BY <1>1, <1>4 DEF Paid, Row, Holds
<1> HIDE DEF row
<1>6. table'[p] = row /\ \A q \in Purchases \ {p} : table'[q] = table[q]
  BY <1>1, <1>2 DEF TypeOK, row
<1>7. table[p].block <= e.block
  <2>1. Deal(p)
    BY <1>2 DEF IInv
  <2>2. CASE table[p].status = "paid"
    <3>1. [invoice |-> p, block |-> table[p].block] \in events
      BY <2>1, <2>2 DEF Deal
    <3>2. [invoice |-> p, block |-> table[p].block] = e
      BY <1>2, <3>1 DEF IInv, EventsSound
    <3>3. table[p].block = e.block
      BY <3>2
    <3> QED BY <1>3, <3>3
  <2>3. CASE table[p].status # "paid"
    BY <1>3, <2>1, <2>3 DEF Deal
  <2> QED BY <2>2, <2>3
<1>8. Forward
  <2>1. ASSUME NEW q \in Purchases PROVE table[q].block <= table'[q].block
    <3>1. table[q].block \in Nat
      BY <1>1, BoundsAssumption DEF TypeOK, Row
    <3> QED BY <1>5, <1>6, <1>7, <3>1
  <2>2. \A f \in events : f.invoice \in Purchases
    BY <1>1 DEF TypeOK, Event
  <2> QED BY <1>5, <1>6, <2>1, <2>2 DEF Forward
<1>9. \A s \in Runs : RunSound(s)'
  BY <1>8, RunKept
<1>10. ASSUME NEW q \in Purchases PROVE Deal(q)'
  <2>1. Deal(q) /\ Bought' = Bought
    BY DEF IInv, Bought
  <2>2. CASE q # p
    BY <1>6, <2>1, <2>2 DEF Deal
  <2>3. CASE q = p
    <3>1. issued[p] > 0 \/ table[p].client.own
      BY <1>1 DEF Holds
    <3>2. [invoice |-> p, block |-> row.block] \in events
      BY <1>2, <1>3, <1>5
    <3> QED BY <1>5, <1>6, <2>1, <2>3, <3>1, <3>2 DEF Deal
  <2> QED BY <2>2, <2>3
<1>11. NewestExists'
  <2>1. row \in Row /\ table' = [table EXCEPT ![p] = row]
    BY <1>1, <1>2, <1>6 DEF TypeOK, row
  <2> QED BY <1>2, <1>5, <1>7, <2>1, NewestKept DEF IInv
<1>12. EventsSound'
  BY DEF IInv, EventsSound
<1> QED BY <1>8, <1>9, <1>10, <1>11, <1>12 DEF IInv, Typed

LEMMA UpdateSound ==
  ASSUME NEW r \in Runs, IInv, UpdateInvoice(r)
  PROVE  IInv' /\ Forward
<1>1. TypeOK /\ TypeOK'
  BY JobType DEF IInv, Typed, JobStep
<1>2. UNCHANGED <<request, signed, head, events, issued>>
  BY DEF UpdateInvoice
<1>3. /\ run'[r].phase = "next" /\ run'[r].from = run[r].from
      /\ run'[r].todo = run[r].todo /\ run'[r].current = {}
      /\ \A s \in Runs \ {r} : run'[s] = run[s]
  BY <1>1, ContinueRun DEF UpdateInvoice
<1>4. ASSUME Forward PROVE RunSound(r)'
  BY <1>1, <1>3, <1>4, FewerSound
<1>5. run[r].phase = "save"
  BY DEF UpdateInvoice
<1>6. CASE UNCHANGED table
  BY <1>1, <1>2, <1>3, <1>4, <1>6, QuietForward, QuietKept
<1>7. ASSUME NEW e \in run[r].current,
             table' = [table EXCEPT ![e.invoice] = Paid(r, e)]
      PROVE  IInv' /\ Forward
  BY <1>1, <1>2, <1>3, <1>4, <1>5, <1>7, PaidKept
<1> QED BY <1>6, <1>7 DEF UpdateInvoice

LEMMA NextSound == IInv /\ [Next]_vars => IInv'
<1> SUFFICES ASSUME IInv, [Next]_vars PROVE IInv'
  OBVIOUS
<1>1. CASE UNCHANGED vars
  <2>1. TypeOK /\ TypeOK' /\ NewestExists'
    BY <1>1 DEF vars, IInv, Typed, TypeOK, NewestExists, Blocks
  <2>2. \A r \in Runs : RunSound(r)'
    BY <1>1, <2>1, QuietForward, RunKept DEF vars
  <2>3. (\A p \in Purchases : Deal(p)') /\ EventsSound'
    BY <1>1 DEF vars, IInv, Deal, Bought, EventsSound
  <2> QED BY <2>1, <2>2, <2>3 DEF IInv, Typed
<1>2. ASSUME NEW r \in Runs, JobStep(r) PROVE IInv'
  BY <1>2, FetchSound, TakeSound, MakeSound, UpdateSound, StartSound
     DEF JobStep
<1> QED BY <1>1, <1>2, BuySound, MineSound, StartSound, PassSound, SkipSound
        DEF Next

(***************************************************************************)
(* A copy of a row and an event that an execution holds stay true to the   *)
(* table and the chain until it writes (oblioService.go:44-81).            *)
(***************************************************************************)
THEOREM HeldSound == Spec => []IInv
BY InitSound, NextSound, PTL DEF Spec

(***************************************************************************)
(* Every variable keeps its type, and the block that the next execution    *)
(* starts from is a block of table invoices (invoiceStorer.go:8-24).       *)
(***************************************************************************)
THEOREM TypeCorrect == Spec => []TypeOK
BY HeldSound, PTL DEF IInv, Typed

(***************************************************************************)
(* A paid row has its purchase, in the block it says, and an invoice at    *)
(* Oblio unless it is the company's own (oblioService.go:61-78).           *)
(***************************************************************************)
THEOREM PaidInvoiced == Spec => []PaidRowsInvoiced
<1>1. IInv => PaidRowsInvoiced
  <2> SUFFICES ASSUME IInv, NEW p \in Purchases, table[p].status = "paid"
               PROVE  /\ [invoice |-> p, block |-> table[p].block] \in events
                      /\ (issued[p] = 0) <=> table[p].client.own
    BY DEF PaidRowsInvoiced
  <2>1. Deal(p)
    BY DEF IInv
  <2>2. issued[p] \in Nat
    BY DEF IInv, Typed, TypeOK
  <2> QED BY <2>1, <2>2 DEF Deal
<1> QED BY <1>1, HeldSound, PTL

(***************************************************************************)
(* The rate that is invoiced is the rate that was signed, except for the   *)
(* companies in the EU that VIES did not confirm, for any clients          *)
(* (license.go:255-268, oblioService.go:201-225).                          *)
(***************************************************************************)
THEOREM RatesExplained == Spec => []RatesDifferExplained
<1>1. IInv => RatesDifferExplained
  <2> SUFFICES ASSUME IInv, NEW p \in Purchases, issued[p] > 0
               PROVE  InvoicedRate(table[p]) # signed[p]
                        <=> Unconfirmed(table[p])
    BY DEF RatesDifferExplained
  <2>1. PICK e \in events : e.invoice = p
    BY DEF IInv, Deal, Bought
  <2>2. Deal(p) /\ request[p] = "signed"
    BY <2>1 DEF IInv, EventsSound
  <2> DEFINE row == table[p]
             c == table[p].client
  <2>3. /\ signed[p] = SignedRate(c) /\ ~c.own /\ c \in Client
        /\ [reverse |-> row.reverse, isUe |-> row.isUe] \in ViesAnswers(c)
    BY <2>2, ClientsAssumption DEF Deal
  <2>4. row.reverse \in BOOLEAN /\ row.isUe \in BOOLEAN
    BY DEF IInv, Typed, TypeOK, Row
  <2>5. /\ c.company \in BOOLEAN /\ c.country \in {"rou", "eu", "other"}
    BY <2>3 DEF Client
  <2>6. CASE ~c.company \/ c.country = "rou"
    <3>1. [reverse |-> row.reverse, isUe |-> row.isUe] =
            [reverse |-> FALSE, isUe |-> FALSE]
      BY <2>3, <2>6 DEF ViesAnswers
    <3>2. ~row.reverse /\ ~row.isUe
      BY <2>4, <3>1
    <3> QED BY <2>3, <2>6, <3>2
            DEF InvoicedRate, SignedRate, CountryRate, Unconfirmed
  <2>7. CASE c.company /\ c.country = "other"
    <3>1. [reverse |-> row.reverse, isUe |-> row.isUe] =
            [reverse |-> FALSE, isUe |-> FALSE]
      BY <2>3, <2>7 DEF ViesAnswers
    <3>2. ~row.reverse /\ ~row.isUe
      BY <2>4, <3>1
    <3> QED BY <2>3, <2>7, <3>2 DEF InvoicedRate, SignedRate, Unconfirmed
  <2>8. CASE c.company /\ c.country = "eu"
    <3>1. [reverse |-> row.reverse, isUe |-> row.isUe] \in
            [reverse : BOOLEAN, isUe : {TRUE}]
      BY <2>3, <2>8 DEF ViesAnswers
    <3>2. row.isUe
      BY <2>4, <3>1
    <3> QED BY <2>3, <2>8, <3>2 DEF InvoicedRate, SignedRate, Unconfirmed
  <2> QED BY <2>5, <2>6, <2>7, <2>8
<1> QED BY <1>1, HeldSound, PTL

-----------------------------------------------------------------------------
(* Copies of an invoice.                                                   *)

LEMMA HoldersStep ==
  ASSUME NEW X \in SUBSET Runs, NEW Y \in SUBSET Runs, NEW r \in Runs,
         X \ {r} = Y \ {r}
  PROVE  /\ Cardinality(X) \in Nat /\ Cardinality(Y) \in Nat
         /\ r \in X /\ r \notin Y => Cardinality(X) = Cardinality(Y) + 1
         /\ r \notin X /\ r \in Y => Cardinality(Y) = Cardinality(X) + 1
         /\ (r \in X <=> r \in Y) => Y = X
<1>1. IsFiniteSet(X) /\ IsFiniteSet(Y)
  BY RunsAssumption, FS_Subset
<1>2. Cardinality(X) \in Nat /\ Cardinality(Y) \in Nat
  BY <1>1, FS_CardinalityType
<1>3. ASSUME r \in X, r \notin Y
      PROVE  Cardinality(X) = Cardinality(Y) + 1
  <2>1. Y = X \ {r}
    BY <1>3
  <2>2. Cardinality(Y) = Cardinality(X) - 1
    BY <1>1, <1>3, <2>1, FS_RemoveElement
  <2> QED BY <1>2, <2>2
<1>4. ASSUME r \notin X, r \in Y
      PROVE  Cardinality(Y) = Cardinality(X) + 1
  <2>1. X = Y \ {r}
    BY <1>4
  <2>2. Cardinality(X) = Cardinality(Y) - 1
    BY <1>1, <1>4, <2>1, FS_RemoveElement
  <2> QED BY <1>2, <2>2
<1>5. (r \in X <=> r \in Y) => Y = X
  OBVIOUS
<1> QED BY <1>2, <1>3, <1>4, <1>5

\* An execution is about one purchase at a time, so those that issue it and
\* those that save it are different ones.
LEMMA HoldersBounded ==
  ASSUME NEW p
  PROVE  /\ Cardinality(Issuing(p)) \in Nat /\ Cardinality(Saving(p)) \in Nat
         /\ Cardinality(Issuing(p)) + Cardinality(Saving(p))
              <= Cardinality(Runs)
<1>1. /\ IsFiniteSet(Issuing(p)) /\ IsFiniteSet(Saving(p))
      /\ Issuing(p) \cup Saving(p) \in SUBSET Runs
      /\ Issuing(p) \cap Saving(p) = {}
  BY RunsAssumption, FS_Subset DEF Issuing, Saving
<1>2. /\ Cardinality(Issuing(p)) \in Nat /\ Cardinality(Saving(p)) \in Nat
      /\ Cardinality(Runs) \in Nat
  BY <1>1, RunsAssumption, FS_CardinalityType
<1>3. Cardinality(Issuing(p) \cup Saving(p)) =
        Cardinality(Issuing(p)) + Cardinality(Saving(p))
          - Cardinality(Issuing(p) \cap Saving(p))
  BY <1>1, FS_Union
<1>4. Cardinality(Issuing(p) \cap Saving(p)) = 0
  BY <1>1, FS_EmptySet
<1>5. Cardinality(Issuing(p) \cup Saving(p)) <= Cardinality(Runs)
  BY <1>1, RunsAssumption, FS_Subset
<1> QED BY <1>2, <1>3, <1>4, <1>5

\* A step of execution r changes only whether r issues or saves p.
LEMMA HoldersOf ==
  ASSUME NEW r \in Runs, NEW p,
         \A s \in Runs \ {r} : run'[s] = run[s]
  PROVE  /\ Issuing(p) \in SUBSET Runs /\ Issuing(p)' \in SUBSET Runs
         /\ Saving(p) \in SUBSET Runs /\ Saving(p)' \in SUBSET Runs
         /\ Issuing(p) \ {r} = Issuing(p)' \ {r}
         /\ Saving(p) \ {r} = Saving(p)' \ {r}
BY DEF Issuing, Saving

LEMMA CopiesTypes ==
  ASSUME TypeOK
  PROVE  /\ issued \in [Purchases -> Nat] /\ faults \in Nat
         /\ Cardinality(Runs) \in Nat
BY BoundsAssumption, RunsAssumption, FS_CardinalityType DEF TypeOK

\* An execution that gives up its event had none or met an error.
LEMMA LetGo ==
  ASSUME NEW r \in Runs, NEW p \in Purchases, IInv, TypeOK',
         CopiesCounted(p), \A s \in Runs \ {r} : run'[s] = run[s],
         run'[r].current = {}, UNCHANGED <<table, issued>>,
         \/ faults' = faults + 1
         \/ run[r].current = {} /\ UNCHANGED faults
  PROVE  CopiesCounted(p)'
<1> DEFINE I == Issuing(p)
           J == Issuing(p)'
           S == Saving(p)
           T == Saving(p)'
<1>1. /\ I \in SUBSET Runs /\ J \in SUBSET Runs /\ I \ {r} = J \ {r}
      /\ S \in SUBSET Runs /\ T \in SUBSET Runs /\ S \ {r} = T \ {r}
  BY HoldersOf
<1>2. r \notin J /\ r \notin T
  BY DEF Issuing, Saving
<1>3. run[r].current = {} => r \notin I /\ r \notin S
  BY DEF Issuing, Saving
<1>4. /\ issued[p] \in Nat /\ faults \in Nat /\ Cardinality(Runs) \in Nat
  BY CopiesTypes DEF IInv, Typed
<1>5. /\ CopiesCounted(p) <=>
           IF table[p].status = "paid"
           THEN issued[p] + Cardinality(I) <= Cardinality(Runs) + faults
           ELSE issued[p] <= Cardinality(S) + faults
      /\ CopiesCounted(p)' <=>
           IF table[p].status = "paid"
           THEN issued[p] + Cardinality(J) <= Cardinality(Runs) + faults'
           ELSE issued[p] <= Cardinality(T) + faults'
  BY DEF CopiesCounted
<1> HIDE DEF I, J, S, T
<1>6. /\ Cardinality(I) \in Nat /\ Cardinality(J) \in Nat
      /\ Cardinality(J) <= Cardinality(I)
      /\ r \notin I => J = I
  BY <1>1, <1>2, HoldersStep
<1>7. /\ Cardinality(S) \in Nat /\ Cardinality(T) \in Nat
      /\ Cardinality(S) <= Cardinality(T) + 1
      /\ r \notin S => S = T
  BY <1>1, <1>2, HoldersStep
<1>8. CASE faults' = faults + 1
  BY <1>4, <1>5, <1>6, <1>7, <1>8
<1>9. CASE run[r].current = {} /\ UNCHANGED faults
  BY <1>3, <1>5, <1>6, <1>7, <1>9
<1> QED BY <1>8, <1>9

LEMMA TakeCopies ==
  ASSUME NEW r \in Runs, NEW p \in Purchases, IInv, TakeEvent(r),
         CopiesCounted(p)
  PROVE  CopiesCounted(p)'
<1>1. TypeOK /\ TypeOK'
  BY JobType DEF IInv, Typed, JobStep
<1>2. UNCHANGED <<table, issued, faults>> /\ run[r].current = {}
  BY DEF TakeEvent, IInv, RunSound
<1>3. run[r] \in Run
  BY <1>1 DEF TypeOK
<1>4. PICK e \in run[r].todo :
        \/ Step(r, [run[r] EXCEPT !.todo = @ \ {e}])
        \/ /\ table[e.invoice].status = "pending"
           /\ Step(r, [[run[r] EXCEPT !.todo = @ \ {e}] EXCEPT
                         !.current = {e}, !.row = table[e.invoice],
                         !.phase = IF table[e.invoice].client.own
                                   THEN "save" ELSE "issue"])
  BY DEF TakeEvent
<1>5. CASE Step(r, [run[r] EXCEPT !.todo = @ \ {e}])
  <2>1. run'[r] = [run[r] EXCEPT !.todo = @ \ {e}]
        /\ \A s \in Runs \ {r} : run'[s] = run[s]
    BY <1>1, <1>5, StepRun
  <2>2. run'[r].current = {}
    BY <1>2, <1>3, <2>1 DEF Run
  <2> QED BY <1>1, <1>2, <2>1, <2>2, LetGo
<1>6. CASE /\ table[e.invoice].status = "pending"
           /\ Step(r, [[run[r] EXCEPT !.todo = @ \ {e}] EXCEPT
                         !.current = {e}, !.row = table[e.invoice],
                         !.phase = IF table[e.invoice].client.own
                                   THEN "save" ELSE "issue"])
  <2>1. /\ run'[r] = [[run[r] EXCEPT !.todo = @ \ {e}] EXCEPT
                        !.current = {e}, !.row = table[e.invoice],
                        !.phase = IF table[e.invoice].client.own
                                  THEN "save" ELSE "issue"]
        /\ \A s \in Runs \ {r} : run'[s] = run[s]
    BY <1>1, <1>6, StepRun
  <2>2. run'[r].current = {e}
    BY <1>3, <2>1 DEF Run
  <2>3. CASE table[p].status = "paid"
    <3>1. Issuing(p)' = Issuing(p)
      <4>1. r \notin Issuing(p) /\ r \notin Issuing(p)'
        BY <1>2, <1>6, <2>2, <2>3 DEF Issuing
      <4> QED BY <2>1, <4>1, HoldersOf
    <3> QED BY <1>2, <2>3, <3>1 DEF CopiesCounted
  <2>4. CASE table[p].status # "paid"
    <3>1. r \notin Saving(p)
      BY <1>2 DEF Saving
    <3>2. /\ Saving(p) \in SUBSET Runs /\ Saving(p)' \in SUBSET Runs
          /\ Saving(p) \ {r} = Saving(p)' \ {r}
      BY <2>1, HoldersOf
    <3>3. /\ Cardinality(Saving(p)) \in Nat /\ Cardinality(Saving(p)') \in Nat
          /\ Cardinality(Saving(p)) <= Cardinality(Saving(p)')
      <4> DEFINE X == Saving(p)
                 Y == Saving(p)'
      <4>1. r \notin X /\ X \ {r} = Y \ {r} /\ X \in SUBSET Runs
            /\ Y \in SUBSET Runs
        BY <3>1, <3>2
      <4> HIDE DEF X, Y
      <4>2. /\ Cardinality(X) \in Nat /\ Cardinality(Y) \in Nat
            /\ Cardinality(X) <= Cardinality(Y)
        BY <4>1, HoldersStep
      <4> QED BY <4>2 DEF X, Y
    <3>4. issued[p] \in Nat /\ faults \in Nat
      BY <1>1, CopiesTypes
    <3>5. issued[p] <= Cardinality(Saving(p)) + faults
      BY <2>4 DEF CopiesCounted
    <3>6. issued[p] <= Cardinality(Saving(p)') + faults
      BY <3>3, <3>4, <3>5
    <3>7. table'[p].status # "paid" /\ issued'[p] = issued[p]
          /\ faults' = faults
      BY <1>2, <2>4
    <3> QED BY <3>6, <3>7 DEF CopiesCounted
  <2> QED BY <2>3, <2>4
<1> QED BY <1>4, <1>5, <1>6

LEMMA MakeCopies ==
  ASSUME NEW r \in Runs, NEW p \in Purchases, IInv, MakeInvoice(r),
         CopiesCounted(p)
  PROVE  CopiesCounted(p)'
<1>1. TypeOK
  BY DEF IInv, Typed
<1>2. run[r] \in Run
  BY <1>1 DEF TypeOK
<1>3. /\ run'[r] = [run[r] EXCEPT !.phase = "save"]
      /\ \A s \in Runs \ {r} : run'[s] = run[s]
  BY <1>1, StepRun DEF MakeInvoice
<1>4. run'[r].phase = "save" /\ run'[r].current = run[r].current
  BY <1>2, <1>3 DEF Run
<1>5. PICK e \in run[r].current :
        issued' = [issued EXCEPT ![e.invoice] = @ + 1]
  BY DEF MakeInvoice
<1>6. /\ UNCHANGED <<table, faults>> /\ run[r].phase = "issue"
      /\ \A f \in run[r].current : f = e
  BY DEF MakeInvoice, IInv, RunSound
<1> DEFINE I == Issuing(p)
           J == Issuing(p)'
           S == Saving(p)
           T == Saving(p)'
<1>7. /\ I \in SUBSET Runs /\ J \in SUBSET Runs /\ I \ {r} = J \ {r}
      /\ S \in SUBSET Runs /\ T \in SUBSET Runs /\ S \ {r} = T \ {r}
  BY <1>3, HoldersOf
<1>8. /\ r \notin J /\ r \notin S
      /\ r \in I <=> e.invoice = p
      /\ r \in T <=> e.invoice = p
  BY <1>4, <1>5, <1>6 DEF Issuing, Saving
<1>9. /\ issued[p] \in Nat /\ faults \in Nat /\ Cardinality(Runs) \in Nat
      /\ issued'[p] = IF e.invoice = p THEN issued[p] + 1 ELSE issued[p]
  BY <1>1, <1>5, CopiesTypes
<1>10. /\ CopiesCounted(p) <=>
            IF table[p].status = "paid"
            THEN issued[p] + Cardinality(I) <= Cardinality(Runs) + faults
            ELSE issued[p] <= Cardinality(S) + faults
       /\ CopiesCounted(p)' <=>
            IF table[p].status = "paid"
            THEN issued'[p] + Cardinality(J) <= Cardinality(Runs) + faults
            ELSE issued'[p] <= Cardinality(T) + faults
  BY <1>6 DEF CopiesCounted
<1> HIDE DEF I, J, S, T
<1>11. /\ Cardinality(I) \in Nat /\ Cardinality(J) \in Nat
       /\ r \in I => Cardinality(I) = Cardinality(J) + 1
       /\ r \notin I => I = J
  BY <1>7, <1>8, HoldersStep
<1>12. /\ Cardinality(S) \in Nat /\ Cardinality(T) \in Nat
       /\ r \in T => Cardinality(T) = Cardinality(S) + 1
       /\ r \notin T => S = T
  <2>1. S \in SUBSET Runs /\ T \in SUBSET Runs /\ S \ {r} = T \ {r}
    BY <1>7
  <2>2. r \notin S
    BY <1>8
  <2> QED BY <2>1, <2>2, HoldersStep
<1>13. CASE e.invoice = p
  BY <1>8, <1>9, <1>10, <1>11, <1>12, <1>13
<1>14. CASE e.invoice # p
  BY <1>8, <1>9, <1>10, <1>11, <1>12, <1>14
<1> QED BY <1>13, <1>14

LEMMA PassCopies ==
  ASSUME NEW r \in Runs, NEW p \in Purchases, IInv, PassOver(r),
         CopiesCounted(p)
  PROVE  CopiesCounted(p)'
<1>1. TypeOK
  BY DEF IInv, Typed
<1>2. run'[r].current = {} /\ \A s \in Runs \ {r} : run'[s] = run[s]
  BY <1>1, ContinueRun DEF PassOver
<1>3. PICK e \in run[r].current : \E n \in 0..1 :
        issued' = [issued EXCEPT ![e.invoice] = @ + n]
  BY DEF PassOver
<1>4. PICK n \in 0..1 : issued' = [issued EXCEPT ![e.invoice] = @ + n]
  BY <1>3
<1>5. /\ UNCHANGED table /\ faults' = faults + 1 /\ run[r].phase = "issue"
      /\ \A f \in run[r].current : f = e
  BY DEF PassOver, Faulty, IInv, RunSound
<1> DEFINE I == Issuing(p)
           J == Issuing(p)'
           S == Saving(p)
           T == Saving(p)'
<1>6. /\ I \in SUBSET Runs /\ J \in SUBSET Runs /\ I \ {r} = J \ {r}
      /\ S \in SUBSET Runs /\ T \in SUBSET Runs /\ S \ {r} = T \ {r}
  BY <1>2, HoldersOf
<1>7. /\ r \notin J /\ r \notin S /\ r \notin T
      /\ r \in I <=> e.invoice = p
  BY <1>2, <1>3, <1>5 DEF Issuing, Saving
<1>8. /\ issued[p] \in Nat /\ faults \in Nat /\ Cardinality(Runs) \in Nat
      /\ issued'[p] = IF e.invoice = p THEN issued[p] + n ELSE issued[p]
  BY <1>1, <1>4, CopiesTypes
<1>9. /\ CopiesCounted(p) <=>
           IF table[p].status = "paid"
           THEN issued[p] + Cardinality(I) <= Cardinality(Runs) + faults
           ELSE issued[p] <= Cardinality(S) + faults
      /\ CopiesCounted(p)' <=>
           IF table[p].status = "paid"
           THEN issued'[p] + Cardinality(J) <= Cardinality(Runs) + faults'
           ELSE issued'[p] <= Cardinality(T) + faults'
  BY <1>5 DEF CopiesCounted
<1> HIDE DEF I, J, S, T
<1>10. /\ Cardinality(I) \in Nat /\ Cardinality(J) \in Nat
       /\ r \in I => Cardinality(I) = Cardinality(J) + 1
       /\ r \notin I => I = J
  <2>1. I \in SUBSET Runs /\ J \in SUBSET Runs /\ I \ {r} = J \ {r}
    BY <1>6
  <2>2. r \notin J
    BY <1>7
  <2> QED BY <2>1, <2>2, HoldersStep
<1>11. S = T /\ Cardinality(S) \in Nat
  BY <1>6, <1>7, HoldersStep
<1>12. CASE e.invoice = p
  BY <1>5, <1>7, <1>8, <1>9, <1>10, <1>11, <1>12
<1>13. CASE e.invoice # p
  BY <1>5, <1>7, <1>8, <1>9, <1>10, <1>11, <1>13
<1> QED BY <1>12, <1>13

\* Those that issue p when its row becomes paid can still make one each.
LEMMA UpdateCopies ==
  ASSUME NEW r \in Runs, NEW p \in Purchases, IInv, UpdateInvoice(r),
         CopiesCounted(p)
  PROVE  CopiesCounted(p)'
<1>1. TypeOK /\ TypeOK'
  BY UpdateSound DEF IInv, Typed
<1>2. run'[r].current = {} /\ \A s \in Runs \ {r} : run'[s] = run[s]
  BY <1>1, ContinueRun DEF UpdateInvoice
<1>3. CASE UNCHANGED table /\ Faulty
  BY <1>1, <1>2, <1>3, LetGo DEF UpdateInvoice, Faulty
<1>4. ASSUME NEW e \in run[r].current, UNCHANGED faults,
             table' = [table EXCEPT ![e.invoice] = Paid(r, e)]
      PROVE  CopiesCounted(p)'
  <2>1. /\ UNCHANGED issued /\ run[r].phase = "save"
        /\ \A f \in run[r].current : f = e
    BY DEF UpdateInvoice, IInv, RunSound
  <2>2. r \notin Issuing(p) /\ r \notin Issuing(p)' /\ r \notin Saving(p)'
    BY <1>2, <2>1 DEF Issuing, Saving
  <2>3. Issuing(p)' = Issuing(p)
    <3>1. Issuing(p) \ {r} = Issuing(p)' \ {r}
      BY <1>2, HoldersOf
    <3> QED BY <2>2, <3>1
  <2>4. CASE e.invoice # p
    <3>1. r \notin Saving(p)
      BY <2>1, <2>4 DEF Saving
    <3>2. Saving(p)' = Saving(p)
      BY <1>2, <2>2, <3>1, HoldersOf
    <3>3. table'[p] = table[p]
      BY <1>1, <1>4, <2>4 DEF TypeOK
    <3> QED BY <1>4, <2>1, <2>3, <3>2, <3>3 DEF CopiesCounted
  <2>5. CASE e.invoice = p
    <3>1. table'[p].status = "paid"
      <4>1. run[r].row \in Row
        BY <1>1 DEF TypeOK, Run
      <4>2. Paid(r, e).status = "paid"
        BY <4>1 DEF Paid, Row
      <4> QED BY <1>1, <1>4, <2>5, <4>2 DEF TypeOK
    <3>2. /\ issued[p] \in Nat /\ faults \in Nat
          /\ Cardinality(Runs) \in Nat
      BY <1>1, CopiesTypes
    <3>3. issued[p] + Cardinality(Issuing(p)) <= Cardinality(Runs) + faults
      <4>1. CASE table[p].status = "paid"
        BY <4>1 DEF CopiesCounted
      <4>2. CASE table[p].status # "paid"
        <5>1. issued[p] <= Cardinality(Saving(p)) + faults
          BY <4>2 DEF CopiesCounted
        <5> QED BY <3>2, <5>1, HoldersBounded
      <4> QED BY <4>1, <4>2
    <3> QED BY <1>4, <2>1, <2>3, <3>1, <3>3 DEF CopiesCounted
  <2> QED BY <2>4, <2>5
<1> QED BY <1>3, <1>4 DEF UpdateInvoice

\* What buyers and the chain do leaves executions and invoices alone.
LEMMA OutsideCopies ==
  ASSUME NEW p \in Purchases, IInv, CopiesCounted(p),
         \/ \E q \in Purchases : Buy(q)
         \/ \E S \in SUBSET Purchases : MineBlock(S)
         \/ UNCHANGED vars
  PROVE  CopiesCounted(p)'
<1>1. UNCHANGED <<issued, run, faults>>
  BY DEF Buy, Refuse, CreateInvoice, Sign, MineBlock, vars
<1>2. table'[p].status = "paid" <=> table[p].status = "paid"
  <2>1. CASE UNCHANGED table
    BY <2>1
  <2>2. ASSUME NEW q \in Purchases, CreateInvoice(q)
        PROVE  table'[p].status = "paid" <=> table[p].status = "paid"
    <3>1. CASE p = q
      <4>1. request[p] = "new"
        BY <2>2, <3>1 DEF CreateInvoice
      <4>2. p \notin Bought
        BY <4>1 DEF IInv, EventsSound, Bought
      <4>3. table[p].status # "paid"
        BY <4>2, InBought DEF IInv, Deal
      <4>4. table'[p].status = "pending"
        BY <2>2, <3>1 DEF CreateInvoice, IInv, Typed, TypeOK
      <4> QED BY <4>3, <4>4
    <3>2. CASE p # q
      BY <2>2, <3>2 DEF CreateInvoice, IInv, Typed, TypeOK
    <3> QED BY <3>1, <3>2
  <2> QED BY <2>1, <2>2 DEF Buy, Refuse, Sign, MineBlock, vars
<1>3. Issuing(p)' = Issuing(p) /\ Saving(p)' = Saving(p)
  BY <1>1 DEF Issuing, Saving
<1> QED BY <1>1, <1>2, <1>3 DEF CopiesCounted

LEMMA RestCopies ==
  ASSUME NEW r \in Runs, NEW p \in Purchases, IInv, CopiesCounted(p),
         \/ Start(r) \/ FetchEvents(r) \/ End(r) \/ SkipEvent(r) \/ Fail(r)
  PROVE  CopiesCounted(p)'
<1>1. TypeOK /\ TypeOK'
  BY JobType DEF IInv, Typed, JobStep
<1>2. UNCHANGED <<table, issued>>
  BY DEF Start, FetchEvents, End, SkipEvent, Fail
<1>3. \/ faults' = faults + 1
      \/ run[r].current = {} /\ UNCHANGED faults
  BY DEF Start, FetchEvents, End, SkipEvent, Fail, Faulty, IInv, RunSound
<1>4. run'[r].current = {} /\ \A s \in Runs \ {r} : run'[s] = run[s]
  <2>1. run[r] \in Run
    BY <1>1 DEF TypeOK
  <2>2. CASE Start(r)
    <3> DEFINE l == [Idle EXCEPT !.phase = "fetch"]
               m == [Idle EXCEPT !.phase = "fetch", !.from = LatestBlock]
    <3>1. (Step(r, l) \/ Step(r, m)) /\ l.current = {} /\ m.current = {}
      BY <2>2 DEF Start, Idle
    <3> HIDE DEF l, m
    <3> QED BY <1>1, <3>1, StepRun
  <2>3. CASE FetchEvents(r) \/ SkipEvent(r)
    <3>1. run[r].current = {}
      BY <2>3 DEF FetchEvents, SkipEvent, IInv, RunSound
    <3>2. \E S : Step(r, [run[r] EXCEPT !.todo = S])
                 \/ Step(r, [run[r] EXCEPT !.phase = "next", !.todo = S])
      BY <2>1, <2>3 DEF FetchEvents, SkipEvent
    <3>3. PICK S : Step(r, [run[r] EXCEPT !.todo = S])
                   \/ Step(r, [run[r] EXCEPT !.phase = "next", !.todo = S])
      BY <3>2
    <3>4. /\ [run[r] EXCEPT !.todo = S].current = {}
          /\ [run[r] EXCEPT !.phase = "next", !.todo = S].current = {}
      BY <2>1, <3>1 DEF Run
    <3>5. CASE Step(r, [run[r] EXCEPT !.todo = S])
      BY <1>1, <3>4, <3>5, StepRun
    <3>6. CASE Step(r, [run[r] EXCEPT !.phase = "next", !.todo = S])
      BY <1>1, <3>4, <3>6, StepRun
    <3> QED BY <3>3, <3>5, <3>6
  <2>4. CASE End(r) \/ Fail(r)
    BY <1>1, <2>4, StepRun DEF End, Fail, Idle
  <2> QED BY <2>2, <2>3, <2>4
<1> QED BY <1>1, <1>2, <1>3, <1>4, LetGo

(***************************************************************************)
(* Oblio makes at most one invoice of a purchase for each execution in     *)
(* progress and one for each error, for any number of executions: an       *)
(* invoice that is not behind a paid row is owed to an execution that has  *)
(* still to save it, or to an error (oblioService.go:56-81).               *)
(***************************************************************************)
THEOREM CopiesBounded == Spec => []CopiesExplained
<1> DEFINE Counted == \A p \in Purchases : CopiesCounted(p)
<1>1. Init => Counted
  <2> SUFFICES ASSUME Init, NEW p \in Purchases PROVE CopiesCounted(p)
    OBVIOUS
  <2>1. Saving(p) = {}
    BY DEF Init, Saving, Idle
  <2>2. Cardinality(Saving(p)) = 0
    BY <2>1, FS_EmptySet
  <2> QED BY <2>2 DEF Init, NoRow, CopiesCounted
<1>2. IInv /\ Counted /\ [Next]_vars => Counted'
  <2> SUFFICES ASSUME IInv, Counted, [Next]_vars, NEW p \in Purchases
               PROVE  CopiesCounted(p)'
    OBVIOUS
  <2>1. CopiesCounted(p)
    OBVIOUS
  <2> HIDE DEF Counted
  <2>2. ASSUME NEW r \in Runs, JobStep(r) PROVE CopiesCounted(p)'
    BY <2>1, <2>2, TakeCopies, MakeCopies, UpdateCopies, RestCopies
       DEF JobStep
  <2> QED BY <2>1, <2>2, OutsideCopies, PassCopies, RestCopies DEF Next
<1>3. IInv /\ Counted => CopiesExplained
  <2> SUFFICES ASSUME IInv, Counted, NEW p \in Purchases
               PROVE  issued[p] <= Cardinality(Runs) + faults
    BY DEF CopiesExplained
  <2>1. CopiesCounted(p)
    OBVIOUS
  <2>2. issued[p] \in Nat /\ faults \in Nat /\ Cardinality(Runs) \in Nat
    BY CopiesTypes DEF IInv, Typed
  <2> QED BY <2>1, <2>2, HoldersBounded DEF CopiesCounted
<1> QED BY <1>1, <1>2, <1>3, HeldSound, PTL DEF Spec

-----------------------------------------------------------------------------
(* Events that fall behind.                                                *)

\* At most one event is missed for an error.
LEMMA MissedStep ==
  ASSUME TypeOK, TypeOK', MissedExplained,
         \/ Missed' \subseteq Missed /\ faults' \in {faults, faults + 1}
         \/ \E e : Missed' \subseteq Missed \cup {e} /\ faults' = faults + 1
  PROVE  MissedExplained'
<1> DEFINE M == Missed
           N == Missed'
<1>1. IsFiniteSet(M) /\ Cardinality(M) <= faults
  BY DEF MissedExplained
<1>2. Cardinality(M) \in Nat /\ faults \in Nat
  BY <1>1, FS_CardinalityType, BoundsAssumption DEF TypeOK
<1>3. MissedExplained' <=> IsFiniteSet(N) /\ Cardinality(N) <= faults'
  BY DEF MissedExplained
<1>4. \/ N \subseteq M /\ faults' \in {faults, faults + 1}
      \/ \E e : N \subseteq M \cup {e} /\ faults' = faults + 1
  OBVIOUS
<1> HIDE DEF M, N
<1>5. CASE N \subseteq M /\ faults' \in {faults, faults + 1}
  <2>1. IsFiniteSet(N) /\ Cardinality(N) <= Cardinality(M)
    BY <1>1, <1>5, FS_Subset
  <2>2. Cardinality(N) \in Nat
    BY <2>1, FS_CardinalityType
  <2> QED BY <1>1, <1>2, <1>3, <1>5, <2>1, <2>2
<1>6. ASSUME NEW e, N \subseteq M \cup {e}, faults' = faults + 1
      PROVE  MissedExplained'
  <2>1. /\ IsFiniteSet(M \cup {e})
        /\ Cardinality(M \cup {e}) <= Cardinality(M) + 1
    BY <1>1, <1>2, FS_AddElement
  <2>2. /\ IsFiniteSet(N) /\ Cardinality(N) <= Cardinality(M \cup {e})
        /\ Cardinality(N) \in Nat /\ Cardinality(M \cup {e}) \in Nat
    BY <1>6, <2>1, FS_Subset, FS_CardinalityType
  <2> QED BY <1>1, <1>2, <1>3, <1>6, <2>1, <2>2
<1> QED BY <1>4, <1>5, <1>6

\* Only execution r moves on, past the events in X.
LEMMA MovesOn ==
  ASSUME NEW r \in Runs, NEW X,
         UNCHANGED <<table, events>>,
         \A s \in Runs \ {r} : run'[s] = run[s],
         PassedOver(r)' \subseteq PassedOver(r) \cup X
  PROVE  Missed' \subseteq Missed \cup X
<1>1. Behind' = Behind
  BY DEF Behind
<1>2. \A s \in Runs \ {r} : PassedOver(s)' = PassedOver(s)
  BY DEF PassedOver, Held
<1> QED BY <1>1, <1>2 DEF Missed

LEMMA HoldsLess ==
  ASSUME NEW r \in Runs, NEW X,
         UNCHANGED <<table, events>>, run'[r].from = run[r].from,
         Held(r)' \subseteq Held(r), Held(r) \ Held(r)' \subseteq X
  PROVE  PassedOver(r)' \subseteq PassedOver(r) \cup X
BY DEF PassedOver

LEMMA StartMissed ==
  ASSUME NEW r \in Runs, IInv, Start(r) \/ End(r) \/ Fail(r),
         MissedExplained
  PROVE  MissedExplained'
<1>1. TypeOK /\ TypeOK'
  BY JobType DEF IInv, Typed, JobStep
<1>2. UNCHANGED <<table, events>> /\ faults' \in {faults, faults + 1}
  BY DEF Start, End, Fail, Faulty
<1>3. /\ run'[r].current = {} /\ run'[r].todo = {}
      /\ \A s \in Runs \ {r} : run'[s] = run[s]
  <2> DEFINE l == [Idle EXCEPT !.phase = "fetch"]
             m == [Idle EXCEPT !.phase = "fetch", !.from = LatestBlock]
  <2>1. /\ l.current = {} /\ l.todo = {}
        /\ m.current = {} /\ m.todo = {}
        /\ Idle.current = {} /\ Idle.todo = {}
    BY DEF Idle
  <2>2. Step(r, l) \/ Step(r, m) \/ Step(r, Idle)
    BY DEF Start, End, Fail
  <2> HIDE DEF l, m
  <2> QED BY <1>1, <2>1, <2>2, StepRun
<1>4. PassedOver(r)' \subseteq PassedOver(r) \cup {}
  BY <1>3 DEF PassedOver, Held
<1>5. Missed' \subseteq Missed
  BY <1>2, <1>3, <1>4, MovesOn
<1> QED BY <1>1, <1>2, <1>5, MissedStep

LEMMA FetchMissed ==
  ASSUME NEW r \in Runs, IInv, FetchEvents(r), MissedExplained
  PROVE  MissedExplained'
<1>1. TypeOK /\ TypeOK'
  BY JobType DEF IInv, Typed, JobStep
<1>2. UNCHANGED <<table, events, faults>>
  BY DEF FetchEvents
<1>3. /\ run'[r] = [run[r] EXCEPT !.phase = "next",
                      !.todo = {e \in events : e.block >= run[r].from}]
      /\ \A s \in Runs \ {r} : run'[s] = run[s]
  BY <1>1, StepRun DEF FetchEvents
<1>4. run[r] \in Run
  BY <1>1 DEF TypeOK
<1>5. /\ run'[r].from = run[r].from
      /\ run'[r].todo = {e \in events : e.block >= run[r].from}
  BY <1>3, <1>4 DEF Run
<1>6. PassedOver(r)' \subseteq PassedOver(r) \cup {}
  BY <1>2, <1>5 DEF PassedOver, Held
<1>7. Missed' \subseteq Missed
  BY <1>2, <1>3, <1>6, MovesOn
<1> QED BY <1>1, <1>2, <1>7, MissedStep

LEMMA TakeMissed ==
  ASSUME NEW r \in Runs, IInv, TakeEvent(r), MissedExplained
  PROVE  MissedExplained'
<1>1. TypeOK /\ TypeOK'
  BY JobType DEF IInv, Typed, JobStep
<1>2. UNCHANGED <<table, events, faults>> /\ run[r].current = {}
  BY DEF TakeEvent, IInv, RunSound
<1>3. run[r] \in Run
  BY <1>1 DEF TypeOK
<1>4. PICK e \in run[r].todo :
        \/ /\ table[e.invoice].status # "pending"
           /\ Step(r, [run[r] EXCEPT !.todo = @ \ {e}])
        \/ Step(r, [[run[r] EXCEPT !.todo = @ \ {e}] EXCEPT
                      !.current = {e}, !.row = table[e.invoice],
                      !.phase = IF table[e.invoice].client.own
                                THEN "save" ELSE "issue"])
  BY DEF TakeEvent
<1>5. CASE /\ table[e.invoice].status # "pending"
           /\ Step(r, [run[r] EXCEPT !.todo = @ \ {e}])
  <2>1. /\ run'[r] = [run[r] EXCEPT !.todo = @ \ {e}]
        /\ \A s \in Runs \ {r} : run'[s] = run[s]
    BY <1>1, <1>5, StepRun
  <2>2. /\ run'[r].from = run[r].from /\ run'[r].todo = run[r].todo \ {e}
        /\ run'[r].current = {}
    BY <1>2, <1>3, <2>1 DEF Run
  <2>3. PassedOver(r)' \subseteq PassedOver(r) \cup {}
    BY <1>2, <1>5, <2>2 DEF PassedOver, Held
  <2>4. Missed' \subseteq Missed
    BY <1>2, <2>1, <2>3, MovesOn
  <2> QED BY <1>1, <1>2, <2>4, MissedStep
<1>6. CASE Step(r, [[run[r] EXCEPT !.todo = @ \ {e}] EXCEPT
                      !.current = {e}, !.row = table[e.invoice],
                      !.phase = IF table[e.invoice].client.own
                                THEN "save" ELSE "issue"])
  <2>1. /\ run'[r] = [[run[r] EXCEPT !.todo = @ \ {e}] EXCEPT
                        !.current = {e}, !.row = table[e.invoice],
                        !.phase = IF table[e.invoice].client.own
                                  THEN "save" ELSE "issue"]
        /\ \A s \in Runs \ {r} : run'[s] = run[s]
    BY <1>1, <1>6, StepRun
  <2>2. /\ run'[r].from = run[r].from /\ run'[r].todo = run[r].todo \ {e}
        /\ run'[r].current = {e}
    BY <1>3, <2>1 DEF Run
  <2>3. Held(r)' = Held(r)
    BY <1>2, <2>2 DEF Held
  <2>4. PassedOver(r)' \subseteq PassedOver(r) \cup {}
    BY <1>2, <2>2, <2>3, HoldsLess
  <2>5. Missed' \subseteq Missed
    BY <1>2, <2>1, <2>4, MovesOn
  <2> QED BY <1>1, <1>2, <2>5, MissedStep
<1> QED BY <1>4, <1>5, <1>6

LEMMA MakeMissed ==
  ASSUME NEW r \in Runs, IInv, MakeInvoice(r), MissedExplained
  PROVE  MissedExplained'
<1>1. TypeOK /\ TypeOK'
  BY JobType DEF IInv, Typed, JobStep
<1>2. UNCHANGED <<table, events, faults>>
  BY DEF MakeInvoice
<1>3. /\ run'[r] = [run[r] EXCEPT !.phase = "save"]
      /\ \A s \in Runs \ {r} : run'[s] = run[s]
  BY <1>1, StepRun DEF MakeInvoice
<1>4. run[r] \in Run
  BY <1>1 DEF TypeOK
<1>5. run'[r].from = run[r].from /\ Held(r)' = Held(r)
  BY <1>3, <1>4 DEF Run, Held
<1>6. PassedOver(r)' \subseteq PassedOver(r) \cup {}
  BY <1>2, <1>5, HoldsLess
<1>7. Missed' \subseteq Missed
  BY <1>2, <1>3, <1>6, MovesOn
<1> QED BY <1>1, <1>2, <1>7, MissedStep

\* An event that is given up is the one that the error costs.
LEMMA GivenUp ==
  ASSUME NEW r \in Runs, IInv, TypeOK', MissedExplained,
         UNCHANGED <<table, events>>, faults' = faults + 1,
         \A s \in Runs \ {r} : run'[s] = run[s],
         run'[r].from = run[r].from, Held(r)' \subseteq Held(r),
         \A e, f \in Held(r) \ Held(r)' : e = f
  PROVE  MissedExplained'
<1>1. \E e : Held(r) \ Held(r)' \subseteq {e}
  OBVIOUS
<1>2. PICK e : Held(r) \ Held(r)' \subseteq {e}
  BY <1>1
<1>3. PassedOver(r)' \subseteq PassedOver(r) \cup {e}
  BY <1>2, HoldsLess
<1>4. Missed' \subseteq Missed \cup {e}
  BY <1>3, MovesOn
<1> QED BY <1>4, MissedStep DEF IInv, Typed

LEMMA PassMissed ==
  ASSUME NEW r \in Runs, IInv, MissedExplained,
         \/ PassOver(r)
         \/ SkipEvent(r)
         \/ UpdateInvoice(r) /\ Faulty /\ UNCHANGED table
  PROVE  MissedExplained'
<1>1. TypeOK /\ TypeOK'
  BY JobType DEF IInv, Typed, JobStep
<1>2. UNCHANGED <<table, events>> /\ faults' = faults + 1
  BY DEF PassOver, SkipEvent, UpdateInvoice, Faulty
<1>3. RunSound(r)
  BY DEF IInv
<1>4. CASE Continue(r, run[r])
  <2>1. /\ run'[r].from = run[r].from /\ run'[r].todo = run[r].todo
        /\ run'[r].current = {} /\ \A s \in Runs \ {r} : run'[s] = run[s]
    BY <1>1, <1>4, ContinueRun
  <2>2. /\ Held(r)' \subseteq Held(r)
        /\ Held(r) \ Held(r)' \subseteq run[r].current
    BY <2>1 DEF Held
  <2>3. \A e, f \in Held(r) \ Held(r)' : e = f
    BY <1>3, <2>2 DEF RunSound
  <2> QED BY <1>1, <1>2, <2>1, <2>2, <2>3, GivenUp
<1>5. CASE SkipEvent(r)
  <2>1. PICK e \in run[r].todo : Step(r, [run[r] EXCEPT !.todo = @ \ {e}])
    BY <1>5 DEF SkipEvent
  <2>2. /\ run'[r] = [run[r] EXCEPT !.todo = @ \ {e}]
        /\ \A s \in Runs \ {r} : run'[s] = run[s]
    BY <1>1, <2>1, StepRun
  <2>3. run[r] \in Run
    BY <1>1 DEF TypeOK
  <2>4. /\ run'[r].from = run[r].from /\ run'[r].todo = run[r].todo \ {e}
        /\ run'[r].current = run[r].current
    BY <2>2, <2>3 DEF Run
  <2>5. Held(r)' \subseteq Held(r) /\ Held(r) \ Held(r)' \subseteq {e}
    BY <2>4 DEF Held
  <2>6. \A f, g \in Held(r) \ Held(r)' : f = g
    BY <2>5
  <2> QED BY <1>1, <1>2, <2>2, <2>4, <2>5, <2>6, GivenUp
<1> QED BY <1>4, <1>5 DEF PassOver, UpdateInvoice

\* An execution that pays its event has gone past every older one.
LEMMA PaidMissed ==
  ASSUME NEW r \in Runs, IInv, UpdateInvoice(r), NEW e \in run[r].current,
         table' = [table EXCEPT ![e.invoice] = Paid(r, e)]
  PROVE  Missed' \subseteq Missed
<1>1. TypeOK /\ TypeOK' /\ Forward /\ UNCHANGED events
  BY UpdateSound DEF IInv, Typed, UpdateInvoice
<1>2. RunSound(r) /\ Holds(r, e) /\ e \in events /\ e.invoice \in Purchases
  BY <1>1 DEF IInv, RunSound, Holds, TypeOK, Event
<1>3. /\ run'[r].from = run[r].from /\ run'[r].todo = run[r].todo
      /\ run'[r].current = {} /\ \A s \in Runs \ {r} : run'[s] = run[s]
  BY <1>1, ContinueRun DEF UpdateInvoice
<1>4. table'[e.invoice].status = "paid" /\ table'[e.invoice].block = e.block
  <2>1. run[r].row \in Row
    BY <1>1 DEF TypeOK, Run
  <2>2. Paid(r, e).status = "paid" /\ Paid(r, e).block = e.block
    BY <2>1 DEF Paid, Row
  <2> QED BY <1>1, <1>2, <2>2 DEF TypeOK
<1>5. \A p \in Purchases \ {e.invoice} : table'[p] = table[p]
  BY <1>1 DEF TypeOK
<1>6. \A f \in events : /\ f.invoice \in Purchases /\ f.block \in Nat
                        /\ f.block > 0
  BY <1>1, BoundsAssumption DEF TypeOK, Event
<1>7. \A p \in Purchases : table[p].block \in Nat
  BY <1>1, BoundsAssumption DEF TypeOK, Row
<1>8. ASSUME NEW f \in events, table'[f.invoice].status = "pending"
      PROVE  /\ f.invoice # e.invoice /\ f # e
             /\ table[f.invoice].status = "pending"
  BY <1>4, <1>5, <1>6, <1>8
<1>9. ASSUME NEW s \in Runs, NEW f \in PassedOver(s)'
      PROVE  f \in PassedOver(s)
  <2>1. f \in events /\ table'[f.invoice].status = "pending"
    BY <1>1, <1>9 DEF PassedOver
  <2>2. table[f.invoice].status = "pending" /\ f # e
    BY <1>8, <2>1
  <2>3. CASE s = r
    <3>1. Held(r)' = run[r].todo /\ Held(r) \subseteq run[r].todo \cup {e}
      BY <1>2, <1>3 DEF Held, RunSound
    <3>2. Held(r)' \subseteq Held(r)
      BY <3>1 DEF Held
    <3> QED BY <1>3, <1>9, <2>1, <2>2, <2>3, <3>1, <3>2 DEF PassedOver
  <2>4. CASE s # r
    BY <1>3, <1>9, <2>1, <2>2, <2>4 DEF PassedOver, Held
  <2> QED BY <2>3, <2>4
<1>10. ASSUME NEW f \in Behind', f \notin Behind
       PROVE  f \in PassedOver(r)
  <2>1. /\ f \in events /\ table'[f.invoice].status = "pending"
        /\ \E p \in Purchases : f.block < table'[p].block
    BY <1>1, <1>10 DEF Behind
  <2>2. table[f.invoice].status = "pending" /\ f # e
    BY <1>8, <2>1
  <2>3. \A p \in Purchases : ~(f.block < table[p].block)
    BY <1>10, <2>1, <2>2 DEF Behind
  <2>4. f.block < e.block
    BY <1>4, <1>5, <2>1, <2>3
  <2>5. f.block >= run[r].from
    <3>1. PICK b \in Blocks : run[r].from <= b
      BY <1>2 DEF RunSound
    <3>2. run[r].from \in Nat
      BY <1>1, BoundsAssumption DEF TypeOK, Run
    <3>3. b \in Nat /\ ~(f.block < b)
      BY <1>6, <1>7, <2>1, <2>3 DEF Blocks
    <3>4. f.block \in Nat
      BY <1>6, <2>1
    <3> QED BY <3>1, <3>2, <3>3, <3>4
  <2>6. f \notin Held(r) /\ e \in Held(r)
    <3>1. \A g \in run[r].todo : e.block <= g.block
      BY <1>2 DEF Holds
    <3>2. e.block \in Nat /\ f.block \in Nat
      BY <1>2, <1>6, <2>1
    <3>3. f \notin run[r].todo
      BY <2>4, <3>1, <3>2
    <3>4. f \notin run[r].current
      BY <1>2, <2>2 DEF RunSound
    <3> QED BY <3>3, <3>4 DEF Held
  <2> QED BY <2>1, <2>2, <2>4, <2>5, <2>6 DEF PassedOver
<1> QED BY <1>9, <1>10 DEF Missed

LEMMA UpdateMissed ==
  ASSUME NEW r \in Runs, IInv, UpdateInvoice(r), MissedExplained
  PROVE  MissedExplained'
<1>1. TypeOK /\ TypeOK'
  BY UpdateSound DEF IInv, Typed
<1>2. CASE Faulty /\ UNCHANGED table
  BY <1>2, PassMissed
<1>3. ASSUME NEW e \in run[r].current, UNCHANGED faults,
             table' = [table EXCEPT ![e.invoice] = Paid(r, e)]
      PROVE  MissedExplained'
  <2>1. Missed' \subseteq Missed
    BY <1>3, PaidMissed
  <2> QED BY <1>1, <1>3, <2>1, MissedStep
<1> QED BY <1>2, <1>3 DEF UpdateInvoice

\* A new row is not paid for yet.
LEMMA BuyMissed ==
  ASSUME NEW p \in Purchases, IInv, Buy(p), MissedExplained
  PROVE  MissedExplained'
<1>1. TypeOK /\ TypeOK'
  BY BuyType DEF IInv, Typed
<1>2. UNCHANGED <<events, run, faults>>
  BY DEF Buy, Refuse, CreateInvoice, Sign
<1>3. /\ p \notin Bought /\ table[p].block = 0 /\ table'[p].block = 0
      /\ \A q \in Purchases \ {p} : table'[q] = table[q]
  <2>1. request[p] # "signed"
    BY DEF Buy, Refuse, CreateInvoice, Sign
  <2>2. p \notin Bought
    BY <2>1 DEF IInv, EventsSound, Bought
  <2>3. table[p].block = 0
    BY <2>2, InBought DEF IInv, Deal
  <2>4. CASE UNCHANGED table
    BY <2>2, <2>3, <2>4
  <2>5. CASE CreateInvoice(p)
    <3>1. PICK c \in Clients : \E vies \in ViesAnswers(c) :
            table' = [table EXCEPT ![p] =
                       [status |-> "pending", block |-> 0, client |-> c,
                        reverse |-> vies.reverse, isUe |-> vies.isUe]]
      BY <2>5 DEF CreateInvoice
    <3> QED BY <1>1, <2>2, <2>3, <3>1 DEF TypeOK
  <2> QED BY <2>4, <2>5 DEF Buy, Refuse, Sign
<1>4. \A e \in events : table'[e.invoice] = table[e.invoice]
  BY <1>1, <1>3 DEF TypeOK, Event, Bought
<1>5. \A q \in Purchases : table'[q].block = table[q].block
  BY <1>3
<1>6. Behind' = Behind
  BY <1>2, <1>4, <1>5 DEF Behind
<1>7. \A s \in Runs : PassedOver(s)' = PassedOver(s)
  BY <1>2, <1>4 DEF PassedOver, Held
<1>8. Missed' \subseteq Missed
  BY <1>6, <1>7 DEF Missed
<1> QED BY <1>1, <1>2, <1>8, MissedStep

\* A new block is newer than every paid one and every fetched one.
LEMMA MineMissed ==
  ASSUME NEW S \in SUBSET Purchases, IInv, MineBlock(S), MissedExplained
  PROVE  MissedExplained'
<1>1. TypeOK /\ TypeOK'
  BY MineType DEF IInv, Typed
<1>2. UNCHANGED <<table, run, faults>> /\ head \in Nat
  BY <1>1, BoundsAssumption DEF MineBlock, TypeOK
<1>3. \A e \in events' : e \in events \/ e.block = head + 1
  BY DEF MineBlock
<1>4. \A e \in events : e.block \in Nat /\ e.block <= head
  BY <1>1, BoundsAssumption DEF IInv, EventsSound, TypeOK, Event
<1>5. \A p \in Purchases : table[p].block \in Nat /\ table[p].block <= head
  <2> SUFFICES ASSUME NEW p \in Purchases
               PROVE  table[p].block \in Nat /\ table[p].block <= head
    OBVIOUS
  <2>1. Deal(p) /\ table[p].block \in Nat
    BY <1>1, BoundsAssumption DEF IInv, TypeOK, Row
  <2>2. CASE table[p].status = "paid"
    <3>1. [invoice |-> p, block |-> table[p].block] \in events
      BY <2>1, <2>2 DEF Deal
    <3>2. [invoice |-> p, block |-> table[p].block].block <= head
      BY <1>4, <3>1
    <3> QED BY <2>1, <3>2
  <2>3. CASE table[p].status # "paid"
    BY <1>2, <2>1, <2>3 DEF Deal
  <2> QED BY <2>2, <2>3
<1>6. \A s \in Runs : Held(s) \subseteq events /\ Held(s)' = Held(s)
  BY <1>2 DEF Held, IInv, RunSound, Holds
<1>7. Behind' \subseteq Behind
  BY <1>2, <1>3, <1>5 DEF Behind
<1>8. ASSUME NEW s \in Runs PROVE PassedOver(s)' \subseteq PassedOver(s)
  <2> SUFFICES ASSUME NEW e \in PassedOver(s)' PROVE e \in PassedOver(s)
    OBVIOUS
  <2>1. e \in events' /\ \E f \in Held(s) : e.block < f.block
    BY <1>6 DEF PassedOver
  <2>2. e \in events
    BY <1>2, <1>3, <1>4, <1>6, <2>1
  <2> QED BY <1>2, <1>6, <2>2 DEF PassedOver
<1>9. Missed' \subseteq Missed
  BY <1>7, <1>8 DEF Missed
<1> QED BY <1>1, <1>2, <1>9, MissedStep

(***************************************************************************)
(* Every event that fell behind the newest paid block while it was still   *)
(* pending cost an error or a crash of its own, for any number of          *)
(* executions at once: whoever pays a later event has gone past it, and    *)
(* events are gone past only in the order of blocks                        *)
(* (oblioService.go:27-33, :44-81).                                        *)
(***************************************************************************)
THEOREM BehindBounded == Spec => []EventsBehindExplained
<1>1. Init => MissedExplained
  <2> SUFFICES ASSUME Init PROVE MissedExplained
    OBVIOUS
  <2>1. Missed = {} /\ faults = 0
    BY DEF Init, Missed, Behind, PassedOver
  <2> QED BY <2>1, FS_EmptySet DEF MissedExplained
<1>2. IInv /\ MissedExplained /\ [Next]_vars => MissedExplained'
  <2> SUFFICES ASSUME IInv, MissedExplained, [Next]_vars
               PROVE  MissedExplained'
    OBVIOUS
  <2>1. CASE UNCHANGED vars
    BY <2>1 DEF vars, MissedExplained, Missed, Behind, PassedOver, Held
  <2>2. ASSUME NEW r \in Runs, JobStep(r) PROVE MissedExplained'
    BY <2>2, FetchMissed, TakeMissed, MakeMissed, UpdateMissed, StartMissed
       DEF JobStep
  <2>3. ASSUME NEW S \in SUBSET {p \in Purchases \ Bought :
                                    request[p] = "signed"},
               MineBlock(S)
        PROVE  MissedExplained'
    <3>1. S \in SUBSET Purchases
      OBVIOUS
    <3> QED BY <2>3, <3>1, MineMissed
  <2>4. ASSUME NEW r \in Runs, PassOver(r) \/ SkipEvent(r)
        PROVE  MissedExplained'
    BY <2>4, PassMissed
  <2>5. ASSUME NEW r \in Runs, Start(r) \/ Fail(r)
        PROVE  MissedExplained'
    BY <2>5, StartMissed
  <2> QED BY <2>1, <2>2, <2>3, <2>4, <2>5, BuyMissed DEF Next
<1>3. IInv /\ MissedExplained => EventsBehindExplained
  <2> SUFFICES ASSUME IInv, MissedExplained
               PROVE  Cardinality(Behind) <= faults
    BY DEF EventsBehindExplained
  <2>1. IsFiniteSet(Missed) /\ Cardinality(Missed) <= faults
    BY DEF MissedExplained
  <2>2. Behind \in SUBSET Missed
    BY DEF Missed
  <2>3. IsFiniteSet(Behind) /\ Cardinality(Behind) <= Cardinality(Missed)
    BY <2>1, <2>2, FS_Subset
  <2>4. Cardinality(Behind) \in Nat /\ Cardinality(Missed) \in Nat
        /\ faults \in Nat
    BY <2>1, <2>3, FS_CardinalityType, BoundsAssumption
       DEF IInv, Typed, TypeOK
  <2> QED BY <2>1, <2>3, <2>4
<1> QED BY <1>1, <1>2, <1>3, HeldSound, PTL DEF Spec
=============================================================================
