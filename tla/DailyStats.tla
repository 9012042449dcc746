----------------------------- MODULE DailyStats -----------------------------
(***************************************************************************)
(* The daily statistics job (service/statsService.go, DailyGetStats).      *)
(*                                                                         *)
(* Every backend server fires the job once an hour.  A run reads the       *)
(* latest row of the stats table, collects the allocation and burn events  *)
(* of the blocks mined since, and stores them, one row at a time and with  *)
(* no transaction around them, before it inserts the new stats row.  The   *)
(* servers share one database and nothing else: the only thing that keeps  *)
(* two of them from doing the same day twice is that the latest row is     *)
(* read again just before the first insert.                                *)
(*                                                                         *)
(* An event of the model is one escrow contract's allocation in one block, *)
(* together with the burn that the same transaction makes.  Amounts are    *)
(* one token per event, so that a total is a number of events.             *)
(***************************************************************************)
EXTENDS Naturals, FiniteSets

CONSTANTS
  Servers,     \* the backend servers, each with its own cron scheduler
  Csps,        \* the escrow contracts that may ever be deployed
  MaxBlock,    \* bound: blocks mined
  MaxDay,      \* bound: epochs of the Ratio1 network
  MaxFaults    \* bound: runs abandoned by an error or by a crash

ASSUME BoundsAssumption ==
  /\ MaxBlock \in Nat
  /\ MaxDay \in Nat \ {0}
  /\ MaxFaults \in Nat

ASSUME CspsAssumption == IsFiniteSet(Csps)

VARIABLES
  head,        \* number of the chain's last block
  day,         \* the current epoch, getEpoch(time.Now())
  csps,        \* escrow contracts deployed so far
  events,      \* events on the chain
  rows,        \* table stats
  allocations, \* table allocations, unique on (tx_hash, log_index)
  burns,       \* table burn_events: how many rows each event has
  mails,       \* batches of ending-job e-mails sent, by epoch
  clock,       \* source of creation timestamps
  run,         \* the run each server is executing, with its local variables
  faults       \* runs abandoned so far

chain == <<head, day, csps, events>>
database == <<rows, allocations, burns>>
vars == <<head, day, csps, events, rows, allocations, burns, mails, clock,
          run, faults>>

Event == [block : 1..MaxBlock, csp : Csps]

(***************************************************************************)
(* A row of the stats table.  burned stands for the totals taken from      *)
(* token transfers (TotalTokenBurn, TotalMinted), poai for those taken     *)
(* from the escrows' events (TotalPoaiTokenBurn, TotalPOAIRewards).  The   *)
(* fields from and known are not columns: they record the range and the    *)
(* escrows that the run which wrote the row looked at.                     *)
(***************************************************************************)
StatsRow == [stamp : Nat, day : 0..MaxDay, from : Nat, last : 0..MaxBlock,
             known : SUBSET Csps, burned : Nat, poai : Nat]

Genesis == [stamp |-> 0, day |-> 0, from |-> 0, last |-> 0,
            known |-> {}, burned |-> 0, poai |-> 0]

Phases == {"idle", "csps", "head", "totals", "recheck",
           "allocations", "burns", "stats", "mails"}

Run == [phase : Phases, base : StatsRow, known : SUBSET Csps, upto : 0..MaxBlock,
        batch : SUBSET Event, todo : SUBSET Event, row : StatsRow]

Idle == [phase |-> "idle", base |-> Genesis, known |-> {}, upto |-> 0,
         batch |-> {}, todo |-> {}, row |-> Genesis]

TypeOK ==
  /\ head \in 0..MaxBlock
  /\ day \in 1..MaxDay
  /\ csps \subseteq Csps
  /\ events \subseteq Event
  /\ rows \subseteq StatsRow
  /\ allocations \subseteq Event
  /\ burns \in [Event -> Nat]
  /\ mails \in [0..MaxDay -> Nat]
  /\ clock \in Nat
  /\ run \in [Servers -> Run]
  /\ faults \in 0..MaxFaults

Init ==
  /\ head = 0
  /\ day = 1
  /\ csps = {}
  /\ events = {}
  /\ rows = {Genesis}
  /\ allocations = {}
  /\ burns = [e \in Event |-> 0]
  /\ mails = [d \in 0..MaxDay |-> 0]
  /\ clock = 0
  /\ run = [s \in Servers |-> Idle]
  /\ faults = 0

-----------------------------------------------------------------------------
(* The chain and the calendar.                                             *)

\* A block in which the escrows of S allocate rewards.
MineBlock(S) ==
  /\ head < MaxBlock
  /\ head' = head + 1
  /\ events' = events \cup {[block |-> head + 1, csp |-> c] : c \in S}
  /\ UNCHANGED <<day, csps, database, mails, clock, run, faults>>

DeployEscrow(c) ==
  /\ csps' = csps \cup {c}
  /\ UNCHANGED <<head, day, events, database, mails, clock, run, faults>>

NextDay ==
  /\ day < MaxDay
  /\ day' = day + 1
  /\ UNCHANGED <<head, csps, events, database, mails, clock, run, faults>>

-----------------------------------------------------------------------------
(* The job.                                                                *)

\* getChainLastBlockNumber.
LastBlock == head

\* GetLatestStats: the row with the greatest creation timestamp.
IsLatest(r) == r \in rows /\ \A q \in rows : q.stamp <= r.stamp

\* Faulty variant of From: the last block is looked at again.
FromSameBlock(r) == r.last

\* The first block a run looks at when it continues from row r.
From(r) == IF r.last > 0 THEN r.last + 1 ELSE r.last

\* The events that escrows C emitted in blocks lo to hi.
EventsIn(C, lo, hi) ==
  {e \in events : e.csp \in C /\ lo <= e.block /\ e.block <= hi}

\* A run goes on with its local variables changed, or is over.
Step(s, r) == run' = [run EXCEPT ![s] = r]
End(s) == Step(s, Idle)

\* Faulty variant of Start: the run goes on only from yesterday's row.
StartFromYesterday(s) ==
  /\ run[s].phase = "idle"
  /\ \E r \in rows :
       /\ IsLatest(r)
       /\ \/ r.day + 1 # day /\ End(s)
          \/ r.day + 1 = day /\ Step(s, [Idle EXCEPT !.phase = "csps", !.base = r])
  /\ UNCHANGED <<chain, database, mails, clock, faults>>

\* Cron fires; the run is over at once when the latest row is of today.
Start(s) ==
  /\ run[s].phase = "idle"
  /\ \E r \in rows :
       /\ IsLatest(r)
       /\ \/ r.day = day /\ End(s)
          \/ r.day # day /\ Step(s, [Idle EXCEPT !.phase = "csps", !.base = r])
  /\ UNCHANGED <<chain, database, mails, clock, faults>>

FetchCsps(s) ==
  /\ run[s].phase = "csps"
  /\ Step(s, [run[s] EXCEPT !.phase = "head", !.known = csps])
  /\ UNCHANGED <<chain, database, mails, clock, faults>>

\* The last block is read and the logs up to it are fetched; with no
\* allocation among them the run is over.
FetchEvents(s) ==
  /\ run[s].phase = "head"
  /\ LET found == EventsIn(run[s].known, From(run[s].base), LastBlock) IN
     \/ /\ found = {}
        /\ End(s)
     \/ /\ found # {}
        /\ Step(s, [run[s] EXCEPT !.phase = "totals", !.upto = LastBlock,
                                  !.batch = found])
  /\ UNCHANGED <<chain, database, mails, clock, faults>>

ComputeStats(s) ==
  /\ run[s].phase = "totals"
  /\ clock' = clock + 1
  /\ LET r == run[s] IN
     Step(s, [r EXCEPT
       !.phase = "recheck",
       !.row = [stamp |-> clock + 1, day |-> day,
                from |-> From(r.base), last |-> r.upto, known |-> r.known,
                burned |-> r.base.burned
                  + Cardinality(EventsIn(Csps, From(r.base), r.upto)),
                poai |-> r.base.poai + Cardinality(r.batch)]])
  /\ UNCHANGED <<chain, database, mails, faults>>

\* "last check due to asynch calls, other server might have finished the
\* job first"
Recheck(s) ==
  /\ run[s].phase = "recheck"
  /\ \E r \in rows :
       /\ IsLatest(r)
       /\ \/ r.day = day /\ End(s)
          \/ r.day # day /\ Step(s, [run[s] EXCEPT !.phase = "allocations",
                                                   !.todo = run[s].batch])
  /\ UNCHANGED <<chain, database, mails, clock, faults>>

\* Faulty variant of StoreAllocation: an error is skipped, not returned.
StoreAllocationOrSkip(s) ==
  /\ run[s].phase = "allocations"
  /\ \E e \in run[s].todo :
       /\ allocations' \in {allocations, allocations \cup {e}}
       /\ Step(s, IF run[s].todo = {e}
                  THEN [run[s] EXCEPT !.phase = "burns", !.todo = run[s].batch]
                  ELSE [run[s] EXCEPT !.todo = @ \ {e}])
  /\ UNCHANGED <<chain, rows, burns, mails, clock, faults>>

\* One insert of generateAllocations; ON CONFLICT DO NOTHING makes a second
\* insert of the same event a success that changes nothing.
StoreAllocation(s) ==
  /\ run[s].phase = "allocations"
  /\ \E e \in run[s].todo :
       /\ allocations' = allocations \cup {e}
       /\ \/ /\ run[s].todo = {e}
             /\ Step(s, [run[s] EXCEPT !.phase = "burns",
                                       !.todo = run[s].batch])
          \/ /\ run[s].todo # {e}
             /\ Step(s, [run[s] EXCEPT !.todo = @ \ {e}])
  /\ UNCHANGED <<chain, rows, burns, mails, clock, faults>>

\* Faulty variant of StoreBurn: the insert may be repeated.
StoreBurnRepeated(s) ==
  /\ run[s].phase = "burns"
  /\ \E e \in run[s].todo :
       /\ burns' = [burns EXCEPT ![e] = @ + 1]
       /\ \/ UNCHANGED run
          \/ Step(s, IF run[s].todo = {e}
                     THEN [run[s] EXCEPT !.phase = "stats", !.todo = {}]
                     ELSE [run[s] EXCEPT !.todo = @ \ {e}])
  /\ UNCHANGED <<chain, rows, allocations, mails, clock, faults>>

\* One insert of generateBurns; the table has no unique index.
StoreBurn(s) ==
  /\ run[s].phase = "burns"
  /\ \E e \in run[s].todo :
       /\ burns' = [burns EXCEPT ![e] = @ + 1]
       /\ \/ /\ run[s].todo = {e}
             /\ Step(s, [run[s] EXCEPT !.phase = "stats", !.todo = {}])
          \/ /\ run[s].todo # {e}
             /\ Step(s, [run[s] EXCEPT !.todo = @ \ {e}])
  /\ UNCHANGED <<chain, rows, allocations, mails, clock, faults>>

\* Faulty variant of StoreStats: a failed insert does not end the run.
StoreStatsOrSkip(s) ==
  /\ run[s].phase = "stats"
  /\ rows' \in {rows, rows \cup {run[s].row}}
  /\ Step(s, [run[s] EXCEPT !.phase = "mails"])
  /\ UNCHANGED <<chain, allocations, burns, mails, clock, faults>>

StoreStats(s) ==
  /\ run[s].phase = "stats"
  /\ rows' = rows \cup {run[s].row}
  /\ Step(s, [run[s] EXCEPT !.phase = "mails"])
  /\ UNCHANGED <<chain, allocations, burns, mails, clock, faults>>

\* manageEndingJobsAndSendEmails; its result is ignored by the caller.
SendEndingJobMails(s) ==
  /\ run[s].phase = "mails"
  /\ \/ mails' = [mails EXCEPT ![run[s].row.day] = @ + 1]
     \/ UNCHANGED mails
  /\ End(s)
  /\ UNCHANGED <<chain, database, clock, faults>>

\* An RPC or a database call fails and the run returns, or the process dies
\* (a job with no details makes manageEndingJobsAndSendEmails panic).  What
\* has been stored stays; the locals are gone; cron starts over.
Abandon(s) ==
  /\ run[s].phase # "idle"
  /\ faults < MaxFaults
  /\ faults' = faults + 1
  /\ End(s)
  /\ UNCHANGED <<chain, database, mails, clock>>

-----------------------------------------------------------------------------
JobStep(s) ==
  \/ FetchCsps(s) \/ FetchEvents(s) \/ ComputeStats(s) \/ Recheck(s)
  \/ StoreAllocation(s) \/ StoreBurn(s) \/ StoreStats(s)
  \/ SendEndingJobMails(s)

Next ==
  \/ \E S \in SUBSET csps : MineBlock(S)
  \/ \E c \in Csps \ csps : DeployEscrow(c)
  \/ NextDay
  \/ \E s \in Servers : Start(s) \/ JobStep(s) \/ Abandon(s)

Spec == Init /\ [][Next]_vars

\* Cron fires again and again, and a run that meets no error goes on.
\* Nothing is assumed of the chain, the calendar or the faults.
FairSpec ==
  Spec /\ \A s \in Servers : WF_vars(Start(s)) /\ WF_vars(JobStep(s))

-----------------------------------------------------------------------------
(* Properties.                                                             *)

\* The events whose block row r counts for the first time, among those of
\* the escrows the run had been told of.
Covered(r) ==
  {e \in events : e.csp \in r.known /\ r.from <= e.block /\ e.block <= r.last}

(***************************************************************************)
(* Once a stats row is there, no later run looks at its blocks again, so   *)
(* every allocation and every burn it covers must already be stored,       *)
(* whoever crashed or overlapped (statsService.go:294-312: the row is      *)
(* inserted last).                                                         *)
(***************************************************************************)
CoveredEventsStored ==
  \A r \in rows : \A e \in Covered(r) : e \in allocations /\ burns[e] >= 1

(***************************************************************************)
(* The running totals taken from token transfers equal what the chain did  *)
(* up to the row's last block: a total is carried from row to row          *)
(* (statsService.go:274-278), and neither an abandoned run nor a second    *)
(* server may make it count a block twice or not at all.                   *)
(***************************************************************************)
TotalsMatchChain ==
  \A r \in rows :
    r.burned = Cardinality({e \in events : e.block <= r.last})

(***************************************************************************)
(* burn_events has no unique index, so an event may be stored more than    *)
(* once.  Every copy is accounted for by a stats row that covers the       *)
(* event, by a run still storing, or by a run that was abandoned           *)
(* (statsService.go:634-642).                                              *)
(***************************************************************************)
InFlight(e) ==
  {s \in Servers : /\ e \in run[s].batch \ run[s].todo
                   /\ run[s].phase \in {"burns", "stats"}}

BurnCopiesExplained ==
  \A e \in Event :
    burns[e] <= Cardinality({r \in rows : e \in Covered(r)})
                + Cardinality(InFlight(e)) + faults

(***************************************************************************)
(* The ending-job e-mails of an epoch go out at most once for each stats   *)
(* row of that epoch: a run that could not insert its row, or that found   *)
(* the day done, sends none (statsService.go:308-314).                     *)
(***************************************************************************)
MailsBoundedByRows ==
  \A d \in DOMAIN mails : mails[d] <= Cardinality({r \in rows : r.day = d})

(***************************************************************************)
(* Every event on the chain up to a row's last block is stored ("Fetch all *)
(* allocation events", statsService.go:62), whichever escrow it is of.     *)
(***************************************************************************)
AllEventsStored ==
  \A r \in rows : \A e \in events : e.block <= r.last => e \in allocations

(***************************************************************************)
(* A day with an event that no row accounts for does not stay so: unless   *)
(* it ends first, a row of the day, or a late row of the day before, takes *)
(* the event up, whichever server fails (cmd/main.go:79-88,                *)
(* statsService.go:41-44).                                                 *)
(***************************************************************************)
Unreported(d) ==
  /\ day = d
  /\ \A r \in rows : r.day # d
  /\ \E e \in events : \A r \in rows : r.last < e.block

UnreportedDayEnds == \A d \in 1..MaxDay : Unreported(d) ~> ~Unreported(d)

\* The job implements the ledger (StatsLedger).
Ledger == INSTANCE StatsLedger WITH stored <- allocations

LedgerSpec == Ledger!Spec
=============================================================================
