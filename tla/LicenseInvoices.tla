-------------------------- MODULE LicenseInvoices --------------------------
(***************************************************************************)
(* Buying a licence and getting the invoice for it.                        *)
(*                                                                         *)
(* buyLicense (proxy/handlers/license.go) checks the buyer, stores a       *)
(* pending row in table invoices and signs the purchase; the buyer takes   *)
(* the signature to the contract, which emits LicensesCreated.             *)
(* ElaborateInvoices (service/oblioService.go), hourly on every server and *)
(* also while an earlier execution still runs, fetches those events from   *)
(* the newest block that a paid row has, has Oblio make an invoice for     *)
(* each, and marks its row paid.  Between Oblio's answer and the row there *)
(* is no transaction, and an event that fails is passed over.              *)
(***************************************************************************)
EXTENDS Naturals, FiniteSets

CONSTANTS
  Runs,        \* executions of ElaborateInvoices in progress at once
  Purchases,   \* requests to buyLicense, each with a fresh invoice id
  Clients,     \* who may buy
  MaxBlock,    \* bound: blocks with purchases in them
  MaxFaults    \* bound: errors and crashes

\* own is the company that runs the service, which gets no invoice.
Client == [company : BOOLEAN, country : {"rou", "eu", "other"},
           own : BOOLEAN]

ASSUME ClientsAssumption == Clients \subseteq Client
ASSUME BoundsAssumption == MaxBlock \in Nat /\ MaxFaults \in Nat
ASSUME RunsAssumption == IsFiniteSet(Runs)

VARIABLES
  request,     \* how far each request to buyLicense has come
  table,       \* table invoices, by uuid
  signed,      \* the rate of VAT in each purchase's signature
  head,        \* the last block
  events,      \* LicensesCreated events
  issued,      \* invoices made at Oblio for each purchase
  run,         \* the executions, with their local variables
  faults       \* errors and crashes so far

vars == <<request, table, signed, head, events, issued, run, faults>>

Rates == {"rou", "country", "zero"}

Event == [invoice : Purchases, block : 1..MaxBlock]

\* block is 0 for NULL.
Row == [status : {"none", "pending", "paid"}, block : 0..MaxBlock,
        client : Client, reverse : BOOLEAN, isUe : BOOLEAN]

NoRow == [status |-> "none", block |-> 0, reverse |-> FALSE, isUe |-> FALSE,
          client |-> [company |-> FALSE, country |-> "rou", own |-> FALSE]]

Run == [phase : {"idle", "fetch", "next", "issue", "save"},
        from : 0..MaxBlock, todo : SUBSET Event, current : SUBSET Event,
        row : Row]

Idle == [phase |-> "idle", from |-> 0, todo |-> {}, current |-> {},
         row |-> NoRow]

TypeOK ==
  /\ request \in [Purchases -> {"new", "stored", "signed", "refused"}]
  /\ table \in [Purchases -> Row]
  /\ signed \in [Purchases -> Rates \cup {"none"}]
  /\ head \in 0..MaxBlock
  /\ events \subseteq Event
  /\ issued \in [Purchases -> Nat]
  /\ run \in [Runs -> Run]
  /\ faults \in 0..MaxFaults

Init ==
  /\ request = [p \in Purchases |-> "new"]
  /\ table = [p \in Purchases |-> NoRow]
  /\ signed = [p \in Purchases |-> "none"]
  /\ head = 0
  /\ events = {}
  /\ issued = [p \in Purchases |-> 0]
  /\ run = [r \in Runs |-> Idle]
  /\ faults = 0

-----------------------------------------------------------------------------
(* Value added tax.                                                        *)

\* IsCompanyRegisteredAndUE, asked for foreign companies only: registered
\* or not is the answer of VIES, and an error counts as no.
ViesAnswers(c) ==
  IF ~c.company \/ c.country = "rou" \/ c.own
  THEN {[reverse |-> FALSE, isUe |-> FALSE]}
  ELSE IF c.country = "other" THEN {[reverse |-> FALSE, isUe |-> FALSE]}
  ELSE [reverse : BOOLEAN, isUe : {TRUE}]

\* The rate that a person abroad pays.
CountryRate(c) == IF c.country = "eu" THEN "country" ELSE "zero"

\* buyLicense's rate for the signature.
SignedRate(c) ==
  IF c.own THEN "zero"
  ELSE IF c.country = "rou" THEN "rou"
  ELSE IF c.company THEN "zero" ELSE CountryRate(c)

\* Faulty variant of InvoicedRate: outside the EU is not looked at.
InvoicedRateReverseOnly(row) ==
  IF row.client.country = "rou" THEN "rou"
  ELSE IF ~row.client.company THEN CountryRate(row.client)
  ELSE IF row.reverse THEN "zero" ELSE "rou"

\* generateInvoice's rate for the product.
InvoicedRate(row) ==
  IF row.client.country = "rou" THEN "rou"
  ELSE IF ~row.client.company THEN CountryRate(row.client)
  ELSE IF row.reverse \/ ~row.isUe THEN "zero" ELSE "rou"

-----------------------------------------------------------------------------
(* buyLicense.                                                             *)

\* The account, its KYC state or its data do not allow it, or a call fails.
Refuse(p) ==
  /\ request[p] \in {"new", "stored"}
  /\ request' = [request EXCEPT ![p] = "refused"]
  /\ UNCHANGED <<table, signed, head, events, issued, run, faults>>

CreateInvoice(p) ==
  /\ request[p] = "new"
  /\ request' = [request EXCEPT ![p] = "stored"]
  /\ \E c \in Clients : \E vies \in ViesAnswers(c) :
       table' = [table EXCEPT ![p] =
                   [status |-> "pending", block |-> 0, client |-> c,
                    reverse |-> vies.reverse, isUe |-> vies.isUe]]
  /\ UNCHANGED <<signed, head, events, issued, run, faults>>

\* NewBuyLicenseTxTemplate.
Sign(p) ==
  /\ request[p] = "stored"
  /\ request' = [request EXCEPT ![p] = "signed"]
  /\ signed' = [signed EXCEPT ![p] = SignedRate(table[p].client)]
  /\ UNCHANGED <<table, head, events, issued, run, faults>>

-----------------------------------------------------------------------------
(* The contract: a signed purchase succeeds at most once.                  *)

Bought == {e.invoice : e \in events}

MineBlock(S) ==
  /\ head < MaxBlock
  /\ head' = head + 1
  /\ events' = events \cup {[invoice |-> p, block |-> head + 1] : p \in S}
  /\ UNCHANGED <<request, table, signed, issued, run, faults>>

-----------------------------------------------------------------------------
(* ElaborateInvoices.                                                      *)

Step(r, locals) == run' = [run EXCEPT ![r] = locals]

\* A step that an error makes go otherwise.
Faulty == faults < MaxFaults /\ faults' = faults + 1

Blocks == {0} \cup {table[p].block : p \in Purchases}

\* Faulty variant of LatestBlock: the block is taken as done with.
BlockAfterLatest == 1 + CHOOSE b \in Blocks : \A c \in Blocks : c <= b

\* GetLatestInvoiceBlock.
LatestBlock == CHOOSE b \in Blocks : \A c \in Blocks : c <= b

\* An error of the query is lost, and everything is fetched.
Start(r) ==
  /\ run[r].phase = "idle"
  /\ \/ /\ Step(r, [Idle EXCEPT !.phase = "fetch", !.from = LatestBlock])
        /\ UNCHANGED faults
     \/ /\ Step(r, [Idle EXCEPT !.phase = "fetch"])
        /\ Faulty
  /\ UNCHANGED <<request, table, signed, head, events, issued>>

FetchEvents(r) ==
  /\ run[r].phase = "fetch"
  /\ Step(r, [run[r] EXCEPT !.phase = "next",
                            !.todo = {e \in events : e.block >= run[r].from}])
  /\ UNCHANGED <<request, table, signed, head, events, issued, faults>>

\* Faulty variant of IsFirst: the logs come in any order.
IsAny(e, S) == e \in S

\* The event that comes first among S.
IsFirst(e, S) == e \in S /\ \A f \in S : e.block <= f.block

\* On with the next event.
Continue(r, locals) ==
  Step(r, [locals EXCEPT !.phase = "next", !.current = {}, !.row = NoRow])

\* The row of the next event is read; a paid one is passed over.
TakeEvent(r) ==
  /\ run[r].phase = "next"
  /\ \E e \in run[r].todo :
       /\ IsFirst(e, run[r].todo)
       /\ LET row == table[e.invoice]
              rest == [run[r] EXCEPT !.todo = @ \ {e}] IN
          \/ row.status # "pending" /\ Step(r, rest)
          \/ /\ row.status = "pending"
             /\ Step(r, [rest EXCEPT
                           !.current = {e}, !.row = row,
                           !.phase = IF row.client.own THEN "save" ELSE "issue"])
  /\ UNCHANGED <<request, table, signed, head, events, issued, faults>>

\* Faulty variant of MakeInvoice: Oblio is asked again after an answer.
MakeInvoiceTwice(r) ==
  /\ run[r].phase = "issue"
  /\ \E e \in run[r].current, n \in 1..2 :
       issued' = [issued EXCEPT ![e.invoice] = @ + n]
  /\ Step(r, [run[r] EXCEPT !.phase = "save"])
  /\ UNCHANGED <<request, table, signed, head, events, faults>>

\* generateInvoice.
MakeInvoice(r) ==
  /\ run[r].phase = "issue"
  /\ \E e \in run[r].current : issued' = [issued EXCEPT ![e.invoice] = @ + 1]
  /\ Step(r, [run[r] EXCEPT !.phase = "save"])
  /\ UNCHANGED <<request, table, signed, head, events, faults>>

\* Faulty variant of PassOver: the row is updated after the error.
PassOverToUpdate(r) ==
  /\ run[r].phase = "issue"
  /\ Faulty
  /\ Step(r, [run[r] EXCEPT !.phase = "save"])
  /\ UNCHANGED <<request, table, signed, head, events, issued>>

\* Oblio refuses, or its answer is lost after it made the invoice: the event
\* is passed over.
PassOver(r) ==
  /\ run[r].phase = "issue"
  /\ Faulty
  /\ \E e \in run[r].current, n \in 0..1 :
       issued' = [issued EXCEPT ![e.invoice] = @ + n]
  /\ Continue(r, run[r])
  /\ UNCHANGED <<request, table, signed, head, events>>

Paid(r, e) == [run[r].row EXCEPT !.status = "paid", !.block = e.block]

\* An error of the update is logged only.
UpdateInvoice(r) ==
  /\ run[r].phase = "save"
  /\ \/ /\ \E e \in run[r].current :
             table' = [table EXCEPT ![e.invoice] = Paid(r, e)]
        /\ UNCHANGED faults
     \/ Faulty /\ UNCHANGED table
  /\ Continue(r, run[r])
  /\ UNCHANGED <<request, signed, head, events, issued>>

End(r) ==
  /\ run[r].phase = "next"
  /\ run[r].todo = {}
  /\ Step(r, Idle)
  /\ UNCHANGED <<request, table, signed, head, events, issued, faults>>

\* A row cannot be read: its event is passed over.
SkipEvent(r) ==
  /\ run[r].phase = "next"
  /\ Faulty
  /\ \E e \in run[r].todo :
       /\ IsFirst(e, run[r].todo)
       /\ Step(r, [run[r] EXCEPT !.todo = @ \ {e}])
  /\ UNCHANGED <<request, table, signed, head, events, issued>>

\* The events or Oblio's token cannot be had, or the process dies.
Fail(r) ==
  /\ run[r].phase # "idle"
  /\ Faulty
  /\ Step(r, Idle)
  /\ UNCHANGED <<request, table, signed, head, events, issued>>

-----------------------------------------------------------------------------
Buy(p) == Refuse(p) \/ CreateInvoice(p) \/ Sign(p)

JobStep(r) ==
  \/ FetchEvents(r) \/ TakeEvent(r) \/ MakeInvoice(r) \/ UpdateInvoice(r)
  \/ End(r)

Next ==
  \/ \E p \in Purchases : Buy(p)
  \/ \E S \in SUBSET {p \in Purchases \ Bought : request[p] = "signed"} :
       S # {} /\ MineBlock(S)
  \/ \E r \in Runs : \/ Start(r) \/ JobStep(r)
                     \/ PassOver(r) \/ SkipEvent(r) \/ Fail(r)

Spec == Init /\ [][Next]_vars

\* The job is started again and again, and a run that meets no error goes
\* on.  Nothing is assumed of the buyers and of the chain.
FairSpec ==
  Spec /\ \A r \in Runs : WF_vars(Start(r)) /\ WF_vars(JobStep(r))

-----------------------------------------------------------------------------
(* Properties.                                                             *)

(***************************************************************************)
(* A row is paid only when its purchase happened, in the block it says,    *)
(* and has an invoice at Oblio, which the company itself never gets        *)
(* (oblioService.go:61-78).                                                *)
(***************************************************************************)
PaidRowsInvoiced ==
  \A p \in Purchases :
    table[p].status = "paid" =>
      /\ [invoice |-> p, block |-> table[p].block] \in events
      /\ (issued[p] = 0) <=> table[p].client.own

(***************************************************************************)
(* The next run starts from the newest paid block, so an older event that  *)
(* is still pending will not be seen again: each one of those cost an      *)
(* error or a crash, also when executions overlap (oblioService.go:27-33,  *)
(* storage/invoiceStorer.go:8-24).                                         *)
(***************************************************************************)
Behind == {e \in events : /\ table[e.invoice].status = "pending"
                          /\ \E p \in Purchases : e.block < table[p].block}

EventsBehindExplained == Cardinality(Behind) <= faults

(***************************************************************************)
(* Oblio makes at most one invoice of a purchase for each execution that   *)
(* had found it pending at the same time, and one more for each error or   *)
(* crash that kept its row from being paid (oblioService.go:56-81).        *)
(***************************************************************************)
CopiesExplained ==
  \A p \in Purchases : issued[p] <= Cardinality(Runs) + faults

(***************************************************************************)
(* The rate on the invoice is the rate the buyer paid by his signature,    *)
(* except for exactly the companies in the EU that VIES did not confirm,   *)
(* or could not be asked about: these sign for no VAT and are invoiced     *)
(* with it.  The two rates are computed apart (license.go:255-268,         *)
(* oblioService.go:201-225).                                               *)
(***************************************************************************)
Unconfirmed(row) == row.client.company /\ row.isUe /\ ~row.reverse

RatesDifferExplained ==
  \A p \in Purchases :
    issued[p] > 0 =>
      (InvoicedRate(table[p]) # signed[p] <=> Unconfirmed(table[p]))

(***************************************************************************)
(* A purchase gets its invoice and its row, unless it falls behind the     *)
(* newest paid block; an error or a crash is made up for by later runs     *)
(* (cmd/main.go:69-77).                                                    *)
(***************************************************************************)
PurchasesInvoiced ==
  \A p \in Purchases :
    p \in Bought ~> \/ table[p].status = "paid"
                   \/ \E e \in Behind : e.invoice = p
=============================================================================
