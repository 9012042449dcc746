--------------------------- MODULE DailyStatsProofs ---------------------------
(***************************************************************************)
(* Proofs about DailyStats: its type invariant, the two invariants that    *)
(* make the stats table trustworthy (CoveredEventsStored and               *)
(* TotalsMatchChain), and that the job implements StatsLedger, for any     *)
(* number of servers, escrows, blocks, days and faults.                    *)
(***************************************************************************)
EXTENDS DailyStats, FiniteSetTheorems, TLAPS

-----------------------------------------------------------------------------
(* The inductive invariant.                                                *)

Collected == {"totals", "recheck", "allocations", "burns", "stats"}
Computed == {"recheck", "allocations", "burns", "stats"}

\* Nothing on the chain lies beyond its head, and no row looks beyond it.
ChainInv ==
  /\ \A e \in events : e.block <= head
  /\ \A r \in rows : r.last <= head /\ r.stamp <= clock

\* What a run in progress knows of its base row and of the chain.
BaseInv(r) ==
  /\ r.phase \notin {"idle", "mails"} => r.base \in rows
  /\ r.known \subseteq csps
  /\ r.phase \in Collected =>
       /\ r.upto <= head
       /\ r.base.last < r.upto
       /\ r.batch # {}
       /\ r.batch = EventsIn(r.known, From(r.base), r.upto)

\* The row a run is about to insert.
RowInv(r) ==
  r.phase \in Computed =>
    /\ r.row.from = From(r.base)
    /\ r.row.last = r.upto
    /\ r.row.known = r.known
    /\ r.row.burned = r.base.burned
         + Cardinality(EventsIn(Csps, From(r.base), r.upto))
    /\ r.row.poai = r.base.poai + Cardinality(r.batch)
    /\ r.base.stamp < r.row.stamp
    /\ r.row.stamp <= clock
    /\ \A q \in rows : q.stamp # r.row.stamp

\* How far a run has come with its inserts.
StoredInv(r) ==
  /\ r.phase = "allocations" =>
       r.todo \subseteq r.batch /\ r.batch \ r.todo \subseteq allocations
  /\ r.phase \in {"burns", "stats"} => r.batch \subseteq allocations
  /\ r.phase = "burns" => r.todo \subseteq r.batch
  /\ r.phase = "burns" => \A e \in r.batch \ r.todo : burns[e] >= 1
  /\ r.phase = "stats" => \A e \in r.batch : burns[e] >= 1

\* Creation timestamps are unique.
StampInv ==
  \A s, t \in Servers :
    (s # t /\ run[s].phase \in Computed /\ run[t].phase \in Computed)
      => run[s].row.stamp # run[t].row.stamp

IInv ==
  /\ TypeOK
  /\ ChainInv
  /\ \A s \in Servers : BaseInv(run[s]) /\ RowInv(run[s]) /\ StoredInv(run[s])
  /\ StampInv
  /\ CoveredEventsStored
  /\ TotalsMatchChain

-----------------------------------------------------------------------------
(* Finite sets of events.                                                  *)

\* There are finitely many events, so any set of them has a size.
LEMMA EventsFinite ==
  ASSUME NEW E \in SUBSET Event
  PROVE  IsFiniteSet(E) /\ Cardinality(E) \in Nat
<1> DEFINE Pairs == (1..MaxBlock) \X Csps
           f == [p \in Pairs |-> [block |-> p[1], csp |-> p[2]]]
<1>1. IsFiniteSet(1..MaxBlock)
  BY BoundsAssumption, FS_Interval
<1>2. IsFiniteSet(Pairs)
  BY <1>1, CspsAssumption, FS_Product
<1>3. f \in Surjection(Pairs, Event)
  <2>1. f \in [Pairs -> Event]
    BY DEF Event
  <2>2. ASSUME NEW e \in Event PROVE \E p \in Pairs : f[p] = e
    <3>1. <<e.block, e.csp>> \in Pairs
      BY DEF Event
    <3>2. f[<<e.block, e.csp>>] = e
      BY <3>1 DEF Event
    <3> QED BY <3>1, <3>2
  <2> QED BY <2>1, <2>2 DEF Surjection
<1>4. IsFiniteSet(Event)
  BY <1>2, <1>3, FS_Surjection
<1> QED BY <1>4, FS_Subset, FS_CardinalityType

-----------------------------------------------------------------------------
(* Type correctness.                                                       *)

LEMMA InitTypeOK == Init => TypeOK
<1> SUFFICES ASSUME Init PROVE TypeOK OBVIOUS
<1>1. Genesis \in StatsRow
  BY BoundsAssumption DEF Genesis, StatsRow
<1>2. Idle \in Run
  BY <1>1, BoundsAssumption DEF Idle, Run, Phases
<1> QED BY <1>1, <1>2, BoundsAssumption DEF Init, TypeOK

LEMMA NextTypeOK == TypeOK /\ [Next]_vars => TypeOK'
<1> SUFFICES ASSUME TypeOK, [Next]_vars PROVE TypeOK' OBVIOUS
<1> USE DEF TypeOK
<1>0. Genesis \in StatsRow /\ Idle \in Run
  BY BoundsAssumption DEF Genesis, StatsRow, Idle, Run, Phases
<1>1. CASE UNCHANGED vars
  BY <1>1 DEF vars
<1>2. ASSUME NEW S \in SUBSET csps, MineBlock(S) PROVE TypeOK'
  <2>1. events' \subseteq Event /\ head' \in 0..MaxBlock
    BY <1>2, BoundsAssumption DEF MineBlock, Event
  <2> QED BY <1>2, <2>1 DEF MineBlock, database
<1>3. ASSUME NEW c \in Csps, DeployEscrow(c) PROVE TypeOK'
  BY <1>3 DEF DeployEscrow, database
<1>4. CASE NextDay
  BY <1>4, BoundsAssumption DEF NextDay, database
<1>5. ASSUME NEW s \in Servers, Start(s) PROVE TypeOK'
  <2>1. PICK r \in rows :
          \/ run' = [run EXCEPT ![s] = Idle]
          \/ run' = [run EXCEPT ![s] = [Idle EXCEPT !.phase = "csps", !.base = r]]
    BY <1>5 DEF Start, Step, End
  <2>2. [Idle EXCEPT !.phase = "csps", !.base = r] \in Run
    BY <1>0, <2>1 DEF Run, Phases
  <2> QED BY <1>0, <1>5, <2>1, <2>2 DEF Start, chain, database
<1>6. ASSUME NEW s \in Servers, FetchCsps(s) PROVE TypeOK'
  <2>1. [run[s] EXCEPT !.phase = "head", !.known = csps] \in Run
    BY DEF Run, Phases
  <2> QED BY <1>6, <2>1 DEF FetchCsps, Step, chain, database
<1>7. ASSUME NEW s \in Servers, FetchEvents(s) PROVE TypeOK'
  <2> DEFINE found == EventsIn(run[s].known, From(run[s].base), LastBlock)
  <2>1. found \subseteq Event
    BY DEF EventsIn
  <2>2. [run[s] EXCEPT !.phase = "totals", !.upto = LastBlock,
                       !.batch = found] \in Run
    BY <2>1 DEF Run, Phases, LastBlock
  <2> QED BY <1>0, <1>7, <2>2 DEF FetchEvents, Step, End, chain, database
<1>8. ASSUME NEW s \in Servers, ComputeStats(s) PROVE TypeOK'
  <2> DEFINE r == run[s]
             row == [stamp |-> clock + 1, day |-> day,
                     from |-> From(r.base), last |-> r.upto, known |-> r.known,
                     burned |-> r.base.burned
                       + Cardinality(EventsIn(Csps, From(r.base), r.upto)),
                     poai |-> r.base.poai + Cardinality(r.batch)]
  <2>1. r \in Run /\ r.base \in StatsRow /\ r.batch \in SUBSET Event
        /\ r.upto \in 0..MaxBlock /\ r.known \in SUBSET Csps
    BY DEF Run
  <2> HIDE DEF r
  <2>0. /\ r.base.last \in Nat
        /\ r.base.burned \in Nat
        /\ r.base.poai \in Nat
    BY <2>1, BoundsAssumption DEF StatsRow
  <2>2. Cardinality(EventsIn(Csps, From(r.base), r.upto)) \in Nat
    <3>1. EventsIn(Csps, From(r.base), r.upto) \in SUBSET Event
      BY DEF EventsIn
    <3> QED BY <3>1, EventsFinite
  <2>3. Cardinality(r.batch) \in Nat
    BY <2>1, EventsFinite
  <2>4. From(r.base) \in Nat
    BY <2>0 DEF From
  <2>5. row \in StatsRow
    <3>1. clock + 1 \in Nat /\ day \in 0..MaxDay
      BY BoundsAssumption
    <3>2. r.base.burned + Cardinality(EventsIn(Csps, From(r.base), r.upto)) \in Nat
      BY <2>0, <2>2
    <3>3. r.base.poai + Cardinality(r.batch) \in Nat
      BY <2>0, <2>3
    <3> QED BY <2>1, <2>4, <3>1, <3>2, <3>3 DEF StatsRow
  <2>6. [r EXCEPT !.phase = "recheck", !.row = row] \in Run
    BY <2>1, <2>5 DEF Run, Phases
  <2>7. run' = [run EXCEPT ![s] = [r EXCEPT !.phase = "recheck", !.row = row]]
    BY <1>8 DEF ComputeStats, Step, r
  <2>8. clock' \in Nat
    BY <1>8 DEF ComputeStats
  <2> QED BY <1>8, <2>6, <2>7, <2>8 DEF ComputeStats, chain, database
<1>9. ASSUME NEW s \in Servers, Recheck(s) PROVE TypeOK'
  <2>1. [run[s] EXCEPT !.phase = "allocations", !.todo = run[s].batch] \in Run
    BY DEF Run, Phases
  <2> QED BY <1>0, <1>9, <2>1 DEF Recheck, Step, End, chain, database
<1>10. ASSUME NEW s \in Servers, StoreAllocation(s) PROVE TypeOK'
  <2>1. PICK e \in run[s].todo :
          /\ allocations' = allocations \cup {e}
          /\ \/ run' = [run EXCEPT ![s] = [run[s] EXCEPT !.phase = "burns",
                                                         !.todo = run[s].batch]]
             \/ run' = [run EXCEPT ![s] = [run[s] EXCEPT !.todo = @ \ {e}]]
    BY <1>10 DEF StoreAllocation, Step
  <2>2. /\ [run[s] EXCEPT !.phase = "burns", !.todo = run[s].batch] \in Run
        /\ [run[s] EXCEPT !.todo = @ \ {e}] \in Run
    BY DEF Run, Phases
  <2>3. e \in Event
    BY DEF Run
  <2> QED BY <1>10, <2>1, <2>2, <2>3 DEF StoreAllocation, chain
<1>11. ASSUME NEW s \in Servers, StoreBurn(s) PROVE TypeOK'
  <2>1. PICK e \in run[s].todo :
          /\ burns' = [burns EXCEPT ![e] = @ + 1]
          /\ \/ run' = [run EXCEPT ![s] = [run[s] EXCEPT !.phase = "stats",
                                                         !.todo = {}]]
             \/ run' = [run EXCEPT ![s] = [run[s] EXCEPT !.todo = @ \ {e}]]
    BY <1>11 DEF StoreBurn, Step
  <2>2. /\ [run[s] EXCEPT !.phase = "stats", !.todo = {}] \in Run
        /\ [run[s] EXCEPT !.todo = @ \ {e}] \in Run
    BY DEF Run, Phases
  <2>3. e \in Event
    BY DEF Run
  <2>4. burns' \in [Event -> Nat]
    BY <2>1, <2>3
  <2>5. run' \in [Servers -> Run]
    BY <2>1, <2>2
  <2> QED BY <1>11, <2>4, <2>5 DEF StoreBurn, chain
<1>12. ASSUME NEW s \in Servers, StoreStats(s) PROVE TypeOK'
  <2>1. run[s].row \in StatsRow /\ [run[s] EXCEPT !.phase = "mails"] \in Run
    BY DEF Run, Phases
  <2> QED BY <1>12, <2>1 DEF StoreStats, Step, chain
<1>13. ASSUME NEW s \in Servers, SendEndingJobMails(s) PROVE TypeOK'
  <2>1. run[s].row.day \in 0..MaxDay
    BY DEF Run, StatsRow
  <2> QED BY <1>0, <1>13, <2>1
      DEF SendEndingJobMails, Step, End, chain, database
<1>14. ASSUME NEW s \in Servers, Abandon(s) PROVE TypeOK'
  BY <1>0, <1>14, BoundsAssumption DEF Abandon, Step, End, chain, database
<1> QED
  BY <1>1, <1>2, <1>3, <1>4, <1>5, <1>6, <1>7, <1>8, <1>9, <1>10, <1>11,
     <1>12, <1>13, <1>14 DEF Next, JobStep

(***************************************************************************)
(* Every variable keeps its type: in particular no run looks beyond the    *)
(* chain's last block and no table holds anything but events of the chain  *)
(* (service/statsService.go, DailyGetStats).                               *)
(***************************************************************************)
THEOREM TypeCorrect == Spec => []TypeOK
<1> QED BY InitTypeOK, NextTypeOK, PTL DEF Spec

-----------------------------------------------------------------------------
(* The pieces the inductive step is built from.                            *)

\* What the chain did up to block n is what it did up to row q's last block
\* plus the events a run that continues from q looks at.
LEMMA TotalsAdd ==
  ASSUME TypeOK, NEW q \in StatsRow, NEW n \in 0..MaxBlock, q.last < n
  PROVE  Cardinality({e \in events : e.block <= n})
           = Cardinality({e \in events : e.block <= q.last})
             + Cardinality(EventsIn(Csps, From(q), n))
<1> DEFINE Old == {e \in events : e.block <= q.last}
           New == EventsIn(Csps, From(q), n)
<1>1. /\ Old \in SUBSET Event
      /\ New \in SUBSET Event
  BY DEF TypeOK, EventsIn
<1>2. /\ q.last \in Nat /\ n \in Nat
      /\ \A e \in events : e.block \in Nat /\ e.block >= 1 /\ e.csp \in Csps
  BY BoundsAssumption DEF TypeOK, Event, StatsRow
<1>3. {e \in events : e.block <= n} = Old \cup New
  BY <1>2 DEF EventsIn, From
<1>4. Old \cap New = {}
  BY <1>2 DEF EventsIn, From
<1> HIDE DEF Old, New
<1>5. /\ IsFiniteSet(Old) /\ Cardinality(Old) \in Nat
      /\ IsFiniteSet(New) /\ Cardinality(New) \in Nat
  BY <1>1, EventsFinite
<1>6. Cardinality(Old \cup New)
        = Cardinality(Old) + Cardinality(New) - Cardinality(Old \cap New)
  BY <1>5, FS_Union
<1>7. Cardinality(Old \cap New) = 0
  BY <1>4, FS_EmptySet
<1>8. Cardinality(Old \cup New) = Cardinality(Old) + Cardinality(New)
  BY <1>5, <1>6, <1>7
<1> QED BY <1>3, <1>8 DEF Old, New

\* A server that runs nothing satisfies what is asked of a run.
LEMMA IdleRun ==
  ASSUME NEW s \in Servers, run'[s] = Idle
  PROVE  BaseInv(run[s])' /\ RowInv(run[s])' /\ StoredInv(run[s])'
BY DEF Idle, BaseInv, RowInv, StoredInv, Collected, Computed

\* A step of one server that leaves the chain and the stats table alone and
\* deletes nothing keeps the invariant, if that server's run satisfies it
\* afterwards and takes no timestamp that is in use.
LEMMA RunStep ==
  ASSUME IInv, TypeOK', NEW s \in Servers,
         UNCHANGED chain, UNCHANGED rows,
         clock' \in {clock, clock + 1},
         allocations \subseteq allocations',
         \A e \in Event : burns[e] >= 1 => burns'[e] >= 1,
         \A t \in Servers \ {s} : run'[t] = run[t],
         BaseInv(run[s])', RowInv(run[s])', StoredInv(run[s])',
         run'[s].phase \in Computed =>
           \/ run'[s].row.stamp = clock + 1
           \/ run[s].phase \in Computed /\ run'[s].row = run[s].row
  PROVE  IInv'
<1> USE DEF IInv
<1>1. /\ clock \in Nat /\ clock' \in Nat
      /\ \A r \in StatsRow : r.stamp \in Nat
      /\ \A t \in Servers : run[t].row \in StatsRow /\ run[t].batch \subseteq Event
      /\ \A r \in rows : r \in StatsRow
  BY DEF TypeOK, StatsRow, Run
<1>2. head' = head /\ csps' = csps /\ events' = events /\ rows' = rows
  BY DEF chain
<1>3. ChainInv'
  BY <1>1, <1>2 DEF ChainInv
<1>4. ASSUME NEW t \in Servers
      PROVE  BaseInv(run[t])' /\ RowInv(run[t])' /\ StoredInv(run[t])'
  <2>1. CASE t = s
    BY <2>1
  <2>2. CASE t # s
    <3>1. run'[t] = run[t]
      BY <2>2
    <3>2. BaseInv(run[t])'
      BY <1>2, <3>1 DEF BaseInv, EventsIn
    <3>3. RowInv(run[t])'
      <4>1. EventsIn(Csps, From(run[t].base), run[t].upto)'
              = EventsIn(Csps, From(run[t].base), run[t].upto)
        BY <1>2, <3>1 DEF EventsIn, From
      <4>2. run[t].row.stamp \in Nat
        BY <1>1
      <4>3. run[t].row.stamp <= clock => run[t].row.stamp <= clock'
        BY <1>1, <4>2
      <4> QED BY <1>2, <3>1, <4>1, <4>3 DEF RowInv, From
    <3>4. StoredInv(run[t])'
      BY <1>1, <3>1 DEF StoredInv
    <3> QED BY <3>2, <3>3, <3>4
  <2> QED BY <2>1, <2>2
<1>5. StampInv'
  <2>1. ASSUME NEW t \in Servers, run[t].phase \in Computed
        PROVE  run[t].row.stamp <= clock
    BY <2>1 DEF RowInv
  <2>2. \A t \in Servers : run[t].row.stamp \in Nat
    BY <1>1
  <2> QED BY <1>1, <2>1, <2>2 DEF StampInv
<1>6. CoveredEventsStored'
  <2>1. \A e \in events : e \in Event
    BY DEF TypeOK
  <2> QED BY <1>2, <2>1 DEF CoveredEventsStored, Covered
<1>7. TotalsMatchChain'
  BY <1>2 DEF TotalsMatchChain
<1> QED BY <1>3, <1>4, <1>5, <1>6, <1>7

-----------------------------------------------------------------------------
(* The invariant is inductive: the chain's steps, then the job's.          *)

LEMMA InitIInv == Init => IInv
<1> SUFFICES ASSUME Init PROVE IInv OBVIOUS
<1> USE DEF Init
<1>1. TypeOK
  BY InitTypeOK
<1>2. ChainInv
  BY DEF ChainInv, Genesis
<1>3. ASSUME NEW s \in Servers
      PROVE  BaseInv(run[s]) /\ RowInv(run[s]) /\ StoredInv(run[s])
  BY DEF Idle, BaseInv, RowInv, StoredInv, Collected, Computed
<1>4. StampInv
  BY DEF StampInv, Idle, Computed
<1>5. CoveredEventsStored
  BY DEF CoveredEventsStored, Covered
<1>6. TotalsMatchChain
  <2>1. {e \in events : e.block <= Genesis.last} = {}
    OBVIOUS
  <2> QED BY <2>1, FS_EmptySet DEF TotalsMatchChain, Genesis
<1> QED BY <1>1, <1>2, <1>3, <1>4, <1>5, <1>6 DEF IInv

\* A new block lies beyond every range a row or a run looks at.
LEMMA MineBlockIInv ==
  ASSUME IInv, TypeOK', NEW S \in SUBSET csps, MineBlock(S)
  PROVE  IInv'
<1> USE DEF IInv
<1>1. /\ head \in Nat /\ head' = head + 1
      /\ UNCHANGED <<rows, csps, allocations, burns, clock, run>>
      /\ \A r \in rows : r.last \in Nat /\ r.last <= head
      /\ \A t \in Servers : run[t].upto \in Nat
  BY BoundsAssumption
     DEF TypeOK, MineBlock, database, ChainInv, StatsRow, Run
<1>2. \A e : e \in events' => e \in events \/ e.block = head + 1
  BY DEF MineBlock
<1>3. \A e \in events : e \in events' /\ e.block \in Nat /\ e.block <= head
  BY DEF MineBlock, TypeOK, Event, ChainInv
<1>4. ChainInv'
  BY <1>1, <1>2, <1>3 DEF ChainInv
<1>5. ASSUME NEW t \in Servers
      PROVE  BaseInv(run[t])' /\ RowInv(run[t])' /\ StoredInv(run[t])'
  <2>1. ASSUME run[t].phase \in Collected
        PROVE  \A C, lo : {e \in events' : e.csp \in C /\ lo <= e.block
                                           /\ e.block <= run[t].upto}
                        = {e \in events : e.csp \in C /\ lo <= e.block
                                           /\ e.block <= run[t].upto}
    <3>1. run[t].upto <= head
      BY <2>1 DEF BaseInv
    <3> QED BY <1>1, <1>2, <1>3, <3>1
  <2>2. BaseInv(run[t])'
    BY <1>1, <2>1 DEF BaseInv, EventsIn, From
  <2>3. RowInv(run[t])'
    <3>1. ASSUME run[t].phase \in Computed
          PROVE  EventsIn(Csps, From(run[t].base), run[t].upto)'
                   = EventsIn(Csps, From(run[t].base), run[t].upto)
      BY <1>1, <2>1, <3>1 DEF EventsIn, From, Computed, Collected
    <3> QED BY <1>1, <3>1 DEF RowInv, From
  <2>4. StoredInv(run[t])'
    BY <1>1 DEF StoredInv
  <2> QED BY <2>2, <2>3, <2>4
<1>6. StampInv'
  BY <1>1 DEF StampInv
<1>7. CoveredEventsStored'
  BY <1>1, <1>2, <1>3 DEF CoveredEventsStored, Covered
<1>8. TotalsMatchChain'
  <2>1. ASSUME NEW r \in rows
        PROVE  {e \in events' : e.block <= r.last}
                 = {e \in events : e.block <= r.last}
    BY <1>1, <1>2, <1>3
  <2> QED BY <1>1, <2>1 DEF TotalsMatchChain
<1> QED BY <1>4, <1>5, <1>6, <1>7, <1>8

\* Nothing the invariant speaks of depends on the day, or is disturbed by
\* one more escrow.
LEMMA CalendarIInv ==
  ASSUME IInv, TypeOK', csps \subseteq csps',
         UNCHANGED <<head, events, database, clock, run>>
  PROVE  IInv'
<1> USE DEF IInv
<1>1. ASSUME NEW t \in Servers
      PROVE  BaseInv(run[t])' /\ RowInv(run[t])' /\ StoredInv(run[t])'
  <2>1. BaseInv(run[t])'
    BY DEF BaseInv, EventsIn, database
  <2>2. RowInv(run[t])'
    BY DEF RowInv, EventsIn, From, database
  <2>3. StoredInv(run[t])'
    BY DEF StoredInv, database
  <2> QED BY <2>1, <2>2, <2>3
<1>2. ChainInv' /\ StampInv'
  BY DEF ChainInv, StampInv, database
<1>3. CoveredEventsStored' /\ TotalsMatchChain'
  BY DEF CoveredEventsStored, Covered, TotalsMatchChain, database
<1> QED BY <1>1, <1>2, <1>3

\* A run that is over, in whatever way, leaves the invariant as it was.
LEMMA EndIInv ==
  ASSUME IInv, TypeOK', NEW s \in Servers, End(s),
         UNCHANGED <<chain, database, clock>>
  PROVE  IInv'
<1>1. run'[s] = Idle /\ \A t \in Servers \ {s} : run'[t] = run[t]
  BY DEF End, Step, IInv, TypeOK
<1>2. run'[s].phase \notin Computed
  BY <1>1 DEF Idle, Computed
<1> QED BY <1>1, <1>2, IdleRun, RunStep DEF database

LEMMA StartIInv ==
  ASSUME IInv, TypeOK', NEW s \in Servers, Start(s)
  PROVE  IInv'
<1> USE DEF Start
<1>1. CASE End(s)
  BY <1>1, EndIInv
<1>2. ASSUME NEW r \in rows,
             Step(s, [Idle EXCEPT !.phase = "csps", !.base = r])
      PROVE  IInv'
  <2>1. \A t \in Servers \ {s} : run'[t] = run[t]
    BY <1>2 DEF Step, IInv, TypeOK
  <2>2. /\ run'[s].phase = "csps" /\ run'[s].base = r
        /\ run'[s].known = {}
    BY <1>2 DEF Step, IInv, TypeOK, Idle
  <2>3. BaseInv(run[s])' /\ RowInv(run[s])' /\ StoredInv(run[s])'
    BY <2>2 DEF BaseInv, RowInv, StoredInv, Collected, Computed, database
  <2>4. run'[s].phase \notin Computed
    BY <2>2 DEF Computed
  <2> QED BY <2>1, <2>3, <2>4, RunStep DEF database
<1> QED BY <1>1, <1>2

LEMMA FetchCspsIInv ==
  ASSUME IInv, TypeOK', NEW s \in Servers, FetchCsps(s)
  PROVE  IInv'
<1> USE DEF FetchCsps
<1>1. /\ run[s] \in Run
      /\ \A t \in Servers \ {s} : run'[t] = run[t]
  BY DEF Step, IInv, TypeOK
<1>2. /\ run'[s].phase = "head" /\ run'[s].base = run[s].base
      /\ run'[s].known = csps
  BY <1>1 DEF Step, IInv, TypeOK, Run
<1>3. BaseInv(run[s])' /\ RowInv(run[s])' /\ StoredInv(run[s])'
  BY <1>2 DEF IInv, BaseInv, RowInv, StoredInv, Collected, Computed, chain,
              database
<1>4. run'[s].phase \notin Computed
  BY <1>2 DEF Computed
<1> QED BY <1>1, <1>3, <1>4, RunStep DEF database

\* A run that found an event goes on with a range that is not empty.
LEMMA FetchEventsIInv ==
  ASSUME IInv, TypeOK', NEW s \in Servers, FetchEvents(s)
  PROVE  IInv'
<1> DEFINE found == EventsIn(run[s].known, From(run[s].base), head)
<1>1. CASE End(s)
  BY <1>1, EndIInv DEF FetchEvents
<1>2. CASE /\ found # {}
           /\ Step(s, [run[s] EXCEPT !.phase = "totals", !.upto = head,
                                     !.batch = found])
  <2>1. /\ run[s] \in Run /\ run[s].base \in StatsRow
        /\ run[s].base.last \in Nat /\ head \in Nat
        /\ \A t \in Servers \ {s} : run'[t] = run[t]
    <3>1. run[s] \in Run /\ run[s].base \in StatsRow /\ head \in Nat
      BY BoundsAssumption DEF IInv, TypeOK, Run
    <3>2. run[s].base.last \in Nat
      BY <3>1, BoundsAssumption DEF StatsRow
    <3>3. \A t \in Servers \ {s} : run'[t] = run[t]
      BY <1>2 DEF Step, IInv, TypeOK
    <3> QED BY <3>1, <3>2, <3>3
  <2>2. run[s].phase = "head"
        /\ UNCHANGED <<chain, database, mails, clock, faults>>
    BY DEF FetchEvents
  <2>3. /\ run'[s].phase = "totals" /\ run'[s].base = run[s].base
        /\ run'[s].known = run[s].known /\ run'[s].upto = head
        /\ run'[s].batch = found
    BY <1>2, <2>1 DEF Step, IInv, TypeOK, Run
  <2>4. run[s].base.last < head
    <3>1. PICK e \in events : From(run[s].base) <= e.block /\ e.block <= head
      BY <1>2 DEF EventsIn
    <3>2. e.block \in Nat /\ e.block >= 1
      BY BoundsAssumption DEF IInv, TypeOK, Event
    <3> QED BY <2>1, <3>1, <3>2 DEF From
  <2>5. BaseInv(run[s])'
    <3>1. run[s].base \in rows /\ run[s].known \subseteq csps
      BY <2>2 DEF IInv, BaseInv
    <3>2. EventsIn(run[s].known, From(run[s].base), run[s].upto)' = found
      BY <2>2, <2>3 DEF EventsIn, From, chain
    <3>3. head' = head /\ csps' = csps /\ rows' = rows
      BY <2>2 DEF chain, database
    <3> HIDE DEF found
    <3> QED BY <1>2, <2>1, <2>3, <2>4, <3>1, <3>2, <3>3
            DEF BaseInv, Collected, From
  <2>6. RowInv(run[s])' /\ StoredInv(run[s])'
    BY <2>3 DEF RowInv, StoredInv, Computed
  <2>7. run'[s].phase \notin Computed
    BY <2>3 DEF Computed
  <2> QED BY <2>1, <2>2, <2>5, <2>6, <2>7, RunStep DEF database
<1> QED BY <1>1, <1>2 DEF FetchEvents, LastBlock

\* The row's timestamp is newer than any other.
LEMMA ComputeStatsIInv ==
  ASSUME IInv, TypeOK', NEW s \in Servers, ComputeStats(s)
  PROVE  IInv'
<1> DEFINE covers == EventsIn(Csps, From(run[s].base), run[s].upto)
<1>1. /\ run[s] \in Run /\ clock \in Nat
      /\ \A t \in Servers \ {s} : run'[t] = run[t]
      /\ \A r \in rows : r.stamp \in Nat
  BY DEF ComputeStats, Step, IInv, TypeOK, StatsRow
<1>2. /\ run[s].phase = "totals" /\ clock' = clock + 1
      /\ UNCHANGED <<chain, database, mails, faults>>
  BY DEF ComputeStats
<1>3. /\ run'[s].phase = "recheck"
      /\ run'[s].base = run[s].base /\ run'[s].known = run[s].known
      /\ run'[s].upto = run[s].upto /\ run'[s].batch = run[s].batch
      /\ run'[s].row =
           [stamp |-> clock + 1, day |-> day, from |-> From(run[s].base),
            last |-> run[s].upto, known |-> run[s].known,
            burned |-> run[s].base.burned + Cardinality(covers),
            poai |-> run[s].base.poai + Cardinality(run[s].batch)]
  BY <1>1 DEF ComputeStats, Step, IInv, TypeOK, Run
<1>4. /\ EventsIn(run[s].known, From(run[s].base), run[s].upto)'
           = EventsIn(run[s].known, From(run[s].base), run[s].upto)
      /\ EventsIn(Csps, From(run[s].base), run[s].upto)' = covers
      /\ From(run[s].base)' = From(run[s].base)
      /\ head' = head /\ csps' = csps /\ rows' = rows
  BY <1>2, <1>3 DEF EventsIn, From, chain, database
<1> HIDE DEF covers
<1>5. BaseInv(run[s]) /\ run[s].phase \in Collected
  BY <1>2 DEF IInv, Collected
<1>6. BaseInv(run[s])'
  BY <1>3, <1>4, <1>5 DEF BaseInv, Collected, From
<1>7. \A r \in rows : r.stamp < clock + 1
  BY <1>1 DEF IInv, ChainInv
<1>8. run[s].base \in rows
  BY <1>2, <1>5 DEF BaseInv
<1>9. RowInv(run[s])'
  BY <1>1, <1>2, <1>3, <1>4, <1>7, <1>8 DEF RowInv, From
<1>10. StoredInv(run[s])'
  BY <1>3 DEF StoredInv
<1> QED BY <1>1, <1>2, <1>3, <1>6, <1>9, <1>10, RunStep DEF database

\* Storing changes neither what a run read nor the row it computed.
LEMMA SameRange ==
  ASSUME NEW s \in Servers, BaseInv(run[s]), RowInv(run[s]),
         run[s].phase \in Computed,
         UNCHANGED <<chain, rows, clock>>,
         run'[s].phase \in Computed,
         run'[s].base = run[s].base, run'[s].known = run[s].known,
         run'[s].upto = run[s].upto, run'[s].batch = run[s].batch,
         run'[s].row = run[s].row
  PROVE  BaseInv(run[s])' /\ RowInv(run[s])'
<1>1. run[s].phase \in Collected /\ run[s].phase \notin {"idle", "mails"}
  BY DEF Computed, Collected
<1>2. BaseInv(run[s])'
  BY <1>1 DEF BaseInv, EventsIn, From, chain
<1>3. RowInv(run[s])'
  BY DEF RowInv, EventsIn, From, chain
<1> QED BY <1>2, <1>3

LEMMA RecheckIInv ==
  ASSUME IInv, TypeOK', NEW s \in Servers, Recheck(s)
  PROVE  IInv'
<1>1. /\ run[s].phase = "recheck"
      /\ UNCHANGED <<chain, database, mails, clock, faults>>
  BY DEF Recheck
<1>2. CASE End(s)
  BY <1>1, <1>2, EndIInv
<1>3. CASE Step(s, [run[s] EXCEPT !.phase = "allocations",
                                  !.todo = run[s].batch])
  <2>1. run[s] \in Run /\ \A t \in Servers \ {s} : run'[t] = run[t]
    BY <1>3 DEF Step, IInv, TypeOK
  <2>2. /\ run'[s].phase = "allocations"
        /\ run'[s].base = run[s].base /\ run'[s].known = run[s].known
        /\ run'[s].upto = run[s].upto /\ run'[s].batch = run[s].batch
        /\ run'[s].row = run[s].row /\ run'[s].todo = run[s].batch
    BY <1>3, <2>1 DEF Step, IInv, TypeOK, Run
  <2>3. BaseInv(run[s])' /\ RowInv(run[s])'
    BY <1>1, <2>2, SameRange DEF IInv, Computed, database
  <2>4. StoredInv(run[s])'
    BY <2>2 DEF StoredInv
  <2> QED BY <1>1, <2>1, <2>2, <2>3, <2>4, RunStep DEF database, Computed
<1> QED BY <1>2, <1>3 DEF Recheck

LEMMA StoreAllocationIInv ==
  ASSUME IInv, TypeOK', NEW s \in Servers, StoreAllocation(s)
  PROVE  IInv'
<1>1. /\ run[s].phase = "allocations"
      /\ UNCHANGED <<chain, rows, burns, mails, clock, faults>>
  BY DEF StoreAllocation
<1>2. PICK e \in run[s].todo :
        /\ allocations' = allocations \cup {e}
        /\ \/ /\ run[s].todo = {e}
              /\ Step(s, [run[s] EXCEPT !.phase = "burns",
                                        !.todo = run[s].batch])
           \/ /\ run[s].todo # {e}
              /\ Step(s, [run[s] EXCEPT !.todo = @ \ {e}])
  BY DEF StoreAllocation
<1>3. run[s] \in Run /\ \A t \in Servers \ {s} : run'[t] = run[t]
  BY <1>2 DEF Step, IInv, TypeOK
<1>4. \/ /\ run[s].todo = {e}
         /\ run'[s] = [run[s] EXCEPT !.phase = "burns", !.todo = run[s].batch]
      \/ run'[s] = [run[s] EXCEPT !.todo = @ \ {e}]
  BY <1>2 DEF Step, IInv, TypeOK
<1>5. /\ run'[s].base = run[s].base /\ run'[s].known = run[s].known
      /\ run'[s].upto = run[s].upto /\ run'[s].batch = run[s].batch
      /\ run'[s].row = run[s].row
      /\ run'[s].phase \in {"allocations", "burns"}
  BY <1>1, <1>3, <1>4 DEF Run
<1>6. BaseInv(run[s])' /\ RowInv(run[s])'
  BY <1>1, <1>5, SameRange DEF IInv, Collected, Computed
<1>7. /\ run[s].todo \subseteq run[s].batch
      /\ run[s].batch \ run[s].todo \subseteq allocations
  BY <1>1 DEF IInv, StoredInv
<1>8. StoredInv(run[s])'
  <2>1. CASE /\ run[s].todo = {e}
             /\ run'[s].phase = "burns" /\ run'[s].todo = run[s].batch
    BY <1>2, <1>5, <1>7, <2>1 DEF StoredInv
  <2>2. CASE /\ run'[s].phase = "allocations"
             /\ run'[s].todo = run[s].todo \ {e}
    BY <1>2, <1>5, <1>7, <2>2 DEF StoredInv
  <2> QED BY <1>1, <1>3, <1>4, <2>1, <2>2 DEF Run
<1>9. run[s].phase \in Computed
  BY <1>1 DEF Computed
<1> QED BY <1>1, <1>2, <1>3, <1>5, <1>6, <1>8, <1>9, RunStep

LEMMA StoreBurnIInv ==
  ASSUME IInv, TypeOK', NEW s \in Servers, StoreBurn(s)
  PROVE  IInv'
<1>1. /\ run[s].phase = "burns"
      /\ UNCHANGED <<chain, rows, allocations, mails, clock, faults>>
  BY DEF StoreBurn
<1>2. PICK e \in run[s].todo :
        /\ burns' = [burns EXCEPT ![e] = @ + 1]
        /\ \/ /\ run[s].todo = {e}
              /\ Step(s, [run[s] EXCEPT !.phase = "stats", !.todo = {}])
           \/ /\ run[s].todo # {e}
              /\ Step(s, [run[s] EXCEPT !.todo = @ \ {e}])
  BY DEF StoreBurn
<1>3. /\ run[s] \in Run /\ run[s].todo \subseteq Event
      /\ run[s].batch \subseteq Event
      /\ \A t \in Servers \ {s} : run'[t] = run[t]
  BY <1>2 DEF Step, IInv, TypeOK, Run
<1>4. \/ /\ run[s].todo = {e}
         /\ run'[s] = [run[s] EXCEPT !.phase = "stats", !.todo = {}]
      \/ run'[s] = [run[s] EXCEPT !.todo = @ \ {e}]
  BY <1>2 DEF Step, IInv, TypeOK
<1>5. /\ run'[s].base = run[s].base /\ run'[s].known = run[s].known
      /\ run'[s].upto = run[s].upto /\ run'[s].batch = run[s].batch
      /\ run'[s].row = run[s].row
      /\ run'[s].phase \in {"burns", "stats"}
  BY <1>1, <1>3, <1>4 DEF Run
<1>6. BaseInv(run[s])' /\ RowInv(run[s])'
  BY <1>1, <1>5, SameRange DEF IInv, Collected, Computed
<1>7. /\ run[s].batch \subseteq allocations
      /\ run[s].todo \subseteq run[s].batch
      /\ \A x \in run[s].batch \ run[s].todo : burns[x] >= 1
  BY <1>1 DEF IInv, StoredInv
<1>8. \A x \in Event : /\ burns[x] >= 1 => burns'[x] >= 1
                       /\ x = e => burns'[x] >= 1
  <2>1. \A x \in Event : burns[x] \in Nat
    BY DEF IInv, TypeOK
  <2>2. \A x \in Event : burns'[x] = IF x = e THEN burns[x] + 1 ELSE burns[x]
    BY <1>2 DEF IInv, TypeOK
  <2> QED BY <2>1, <2>2
<1>9. StoredInv(run[s])'
  <2>1. CASE /\ run[s].todo = {e}
             /\ run'[s].phase = "stats" /\ run'[s].todo = {}
    BY <1>1, <1>3, <1>5, <1>7, <1>8, <2>1 DEF StoredInv
  <2>2. CASE /\ run'[s].phase = "burns"
             /\ run'[s].todo = run[s].todo \ {e}
    BY <1>1, <1>3, <1>5, <1>7, <1>8, <2>2 DEF StoredInv
  <2> QED BY <1>1, <1>3, <1>4, <2>1, <2>2 DEF Run
<1>10. run[s].phase \in Computed
  BY <1>1 DEF Computed
<1> QED BY <1>1, <1>3, <1>5, <1>6, <1>8, <1>9, <1>10, RunStep

\* The new row extends the run's base row; every event it covers is stored.
LEMMA StoreStatsIInv ==
  ASSUME IInv, TypeOK', NEW s \in Servers, StoreStats(s)
  PROVE  IInv'
<1> DEFINE row == run[s].row
<1>1. /\ run[s].phase = "stats" /\ rows' = rows \cup {row}
      /\ UNCHANGED <<chain, allocations, burns, mails, clock, faults>>
  BY DEF StoreStats
<1>2. /\ run[s] \in Run /\ row \in StatsRow /\ run[s].base \in StatsRow
      /\ run[s].upto \in 0..MaxBlock /\ run[s].batch \subseteq Event
      /\ \A t \in Servers \ {s} : run'[t] = run[t]
      /\ run'[s] = [run[s] EXCEPT !.phase = "mails"]
  BY DEF StoreStats, Step, IInv, TypeOK, Run
<1>3. run'[s].phase = "mails" /\ run'[s].known = run[s].known
  BY <1>2 DEF Run
<1>4. /\ BaseInv(run[s]) /\ RowInv(run[s]) /\ StoredInv(run[s])
      /\ run[s].phase \in Collected /\ run[s].phase \in Computed
      /\ run[s].phase \notin {"idle", "mails"}
  BY <1>1 DEF IInv, Collected, Computed
<1>5. /\ row.last = run[s].upto /\ row.last <= head /\ row.stamp <= clock
      /\ row.from = From(run[s].base) /\ row.known = run[s].known
      /\ row.burned = run[s].base.burned
           + Cardinality(EventsIn(Csps, From(run[s].base), run[s].upto))
      /\ run[s].base \in rows /\ run[s].base.last < run[s].upto
      /\ run[s].batch = EventsIn(run[s].known, From(run[s].base), run[s].upto)
  BY <1>4 DEF BaseInv, RowInv
<1>6. ChainInv'
  BY <1>1, <1>5 DEF IInv, ChainInv, chain
<1>7. ASSUME NEW t \in Servers
      PROVE  BaseInv(run[t])' /\ RowInv(run[t])' /\ StoredInv(run[t])'
  <2>1. CASE t = s
    BY <1>1, <1>3, <1>4, <2>1
       DEF BaseInv, RowInv, StoredInv, Collected, Computed, chain
  <2>2. CASE t # s
    <3>1. run'[t] = run[t]
      BY <1>2, <2>2
    <3>2. BaseInv(run[t])'
      BY <1>1, <3>1 DEF IInv, BaseInv, EventsIn, From, chain
    <3>3. StoredInv(run[t])'
      BY <1>1, <3>1 DEF IInv, StoredInv
    <3>4. run[t].phase \in Computed => row.stamp # run[t].row.stamp
      BY <1>4, <2>2 DEF IInv, StampInv
    <3>5. EventsIn(Csps, From(run[t].base), run[t].upto)'
            = EventsIn(Csps, From(run[t].base), run[t].upto)
      BY <1>1, <3>1 DEF EventsIn, From, chain
    <3>6. RowInv(run[t])'
      BY <1>1, <3>1, <3>4, <3>5 DEF IInv, RowInv, From
    <3> QED BY <3>2, <3>3, <3>6
  <2> QED BY <2>1, <2>2
<1>8. StampInv'
  <2>1. \A t \in Servers : run'[t].phase \in Computed => run'[t] = run[t]
    BY <1>2, <1>3 DEF Computed
  <2> QED BY <2>1 DEF IInv, StampInv
<1>9. CoveredEventsStored'
  <2>1. Covered(row) = run[s].batch
    BY <1>5 DEF Covered, EventsIn
  <2>2. \A e \in Covered(row) : e \in allocations /\ burns[e] >= 1
    BY <1>1, <1>4, <2>1 DEF StoredInv
  <2> QED BY <1>1, <2>2 DEF IInv, CoveredEventsStored, Covered, chain
<1>10. TotalsMatchChain'
  <2>1. run[s].base.burned
          = Cardinality({e \in events : e.block <= run[s].base.last})
    BY <1>5 DEF IInv, TotalsMatchChain
  <2>2. row.burned = Cardinality({e \in events : e.block <= row.last})
    BY <1>2, <1>5, <2>1, TotalsAdd DEF IInv
  <2>3. events' = events /\ \A r \in rows' : r \in rows \/ r = row
    BY <1>1 DEF chain
  <2> HIDE DEF row
  <2> QED BY <2>2, <2>3 DEF IInv, TotalsMatchChain
<1> QED BY <1>6, <1>7, <1>8, <1>9, <1>10 DEF IInv

LEMMA NextIInv == IInv /\ [Next]_vars => IInv'
<1> SUFFICES ASSUME IInv, [Next]_vars PROVE IInv' OBVIOUS
<1>1. TypeOK'
  BY NextTypeOK DEF IInv
<1>2. CASE UNCHANGED vars
  BY <1>1, <1>2, CalendarIInv DEF vars, database
<1>3. ASSUME NEW S \in SUBSET csps, MineBlock(S) PROVE IInv'
  BY <1>1, <1>3, MineBlockIInv
<1>4. ASSUME NEW c \in Csps, DeployEscrow(c) PROVE IInv'
  BY <1>1, <1>4, CalendarIInv DEF DeployEscrow
<1>5. CASE NextDay
  BY <1>1, <1>5, CalendarIInv DEF NextDay
<1>6. ASSUME NEW s \in Servers, Start(s) \/ JobStep(s) \/ Abandon(s)
      PROVE  IInv'
  <2>1. CASE Start(s)
    BY <1>1, <2>1, StartIInv
  <2>2. CASE FetchCsps(s)
    BY <1>1, <2>2, FetchCspsIInv
  <2>3. CASE FetchEvents(s)
    BY <1>1, <2>3, FetchEventsIInv
  <2>4. CASE ComputeStats(s)
    BY <1>1, <2>4, ComputeStatsIInv
  <2>5. CASE Recheck(s)
    BY <1>1, <2>5, RecheckIInv
  <2>6. CASE StoreAllocation(s)
    BY <1>1, <2>6, StoreAllocationIInv
  <2>7. CASE StoreBurn(s)
    BY <1>1, <2>7, StoreBurnIInv
  <2>8. CASE StoreStats(s)
    BY <1>1, <2>8, StoreStatsIInv
  <2>9. CASE SendEndingJobMails(s)
    BY <1>1, <2>9, EndIInv DEF SendEndingJobMails
  <2>10. CASE Abandon(s)
    BY <1>1, <2>10, EndIInv DEF Abandon
  <2> QED
    BY <1>6, <2>1, <2>2, <2>3, <2>4, <2>5, <2>6, <2>7, <2>8, <2>9, <2>10
       DEF JobStep
<1> QED BY <1>2, <1>3, <1>4, <1>5, <1>6 DEF Next

(***************************************************************************)
(* The inductive invariant holds throughout.                               *)
(***************************************************************************)
THEOREM Inductive == Spec => []IInv
<1> QED BY InitIInv, NextIInv, PTL DEF Spec

(***************************************************************************)
(* Whatever server crashes or overlaps with another, a stats row is only   *)
(* there once every allocation and burn it covers is stored                *)
(* (statsService.go:294-312).                                              *)
(***************************************************************************)
THEOREM CoveredStored == Spec => []CoveredEventsStored
<1>1. IInv => CoveredEventsStored
  BY DEF IInv
<1> QED BY <1>1, Inductive, PTL

(***************************************************************************)
(* Each row's running total is the chain's total up to the row's last      *)
(* block: no block is counted twice or left out (statsService.go:274-278). *)
(***************************************************************************)
THEOREM TotalsCorrect == Spec => []TotalsMatchChain
<1>1. IInv => TotalsMatchChain
  BY DEF IInv
<1> QED BY <1>1, Inductive, PTL

-----------------------------------------------------------------------------
(* Copies of burns and e-mails are counted by runs and rows.               *)

Covering(e) == {r \in rows : e \in Covered(r)}
RowsOf(d) == {r \in rows : r.day = d}

\* The runs that have inserted a row of day d and have its e-mails to send.
Mailing(d) == {s \in Servers : run[s].phase = "mails" /\ run[s].row.day = d}

\* BurnCopiesExplained, with the sets it counts known to be finite.
CopiesInv(e) ==
  /\ IsFiniteSet(InFlight(e))
  /\ burns[e] <= Cardinality(Covering(e)) + Cardinality(InFlight(e)) + faults

\* A run that may still send the e-mails of a day has a row of its own.
MailsInv(d) ==
  /\ IsFiniteSet(Mailing(d))
  /\ mails[d] + Cardinality(Mailing(d)) <= Cardinality(RowsOf(d))

CountInv ==
  /\ IsFiniteSet(rows)
  /\ \A e \in Event : CopiesInv(e)
  /\ \A d \in 0..MaxDay : MailsInv(d)

\* Any selection of a finite table's rows has a size.
LEMMA SelectionFinite ==
  ASSUME IsFiniteSet(rows), NEW R \in SUBSET rows
  PROVE  IsFiniteSet(R) /\ Cardinality(R) \in Nat
BY FS_Subset, FS_CardinalityType

LEMMA SelectionsFinite ==
  ASSUME IsFiniteSet(rows)
  PROVE  /\ \A e : IsFiniteSet(Covering(e)) /\ Cardinality(Covering(e)) \in Nat
         /\ \A d : IsFiniteSet(RowsOf(d)) /\ Cardinality(RowsOf(d)) \in Nat
<1>1. /\ \A e : Covering(e) \in SUBSET rows
      /\ \A d : RowsOf(d) \in SUBSET rows
  BY DEF Covering, RowsOf
<1> QED BY <1>1, SelectionFinite

LEMMA RemoveOne ==
  ASSUME NEW S, NEW x, IsFiniteSet(S)
  PROVE  /\ IsFiniteSet(S \ {x})
         /\ Cardinality(S) \in Nat /\ Cardinality(S \ {x}) \in Nat
         /\ Cardinality(S \ {x}) <= Cardinality(S)
         /\ Cardinality(S) <= Cardinality(S \ {x}) + 1
<1>1. /\ IsFiniteSet(S \ {x})
      /\ \/ Cardinality(S \ {x}) = Cardinality(S) - 1
         \/ Cardinality(S \ {x}) = Cardinality(S)
  BY FS_RemoveElement
<1>2. Cardinality(S) \in Nat /\ Cardinality(S \ {x}) \in Nat
  BY <1>1, FS_CardinalityType
<1> QED BY <1>1, <1>2

LEMMA InitCountInv == Init => CountInv
<1> SUFFICES ASSUME Init PROVE CountInv OBVIOUS
<1> USE DEF Init
<1>1. IsFiniteSet(rows)
  BY FS_Singleton
<1>2. ASSUME NEW e \in Event PROVE CopiesInv(e)
  <2>1. InFlight(e) = {}
    BY DEF InFlight, Idle
  <2>2. burns[e] = 0 /\ faults = 0
    OBVIOUS
  <2>3. Cardinality(Covering(e)) \in Nat
    BY <1>1, SelectionsFinite
  <2> QED BY <2>1, <2>2, <2>3, FS_EmptySet DEF CopiesInv
<1>3. ASSUME NEW d \in 0..MaxDay PROVE MailsInv(d)
  <2>1. Mailing(d) = {}
    BY DEF Mailing, Idle
  <2>2. mails[d] = 0
    BY <1>3
  <2>3. Cardinality(RowsOf(d)) \in Nat
    BY <1>1, SelectionsFinite
  <2> QED BY <2>1, <2>2, <2>3, FS_EmptySet DEF MailsInv
<1> QED BY <1>1, <1>2, <1>3 DEF CountInv

\* The copies of an event, after a step that adds none without a run to show
\* for it and that takes no run away without a row or a fault.
LEMMA SameCopies ==
  ASSUME CountInv, TypeOK, NEW e \in Event,
         Covering(e)' = Covering(e), InFlight(e)' = InFlight(e),
         burns'[e] = burns[e], faults' = faults
  PROVE  CopiesInv(e)'
<1>1. CopiesInv(e)
  BY DEF CountInv
<1> QED BY <1>1 DEF CopiesInv

LEMMA SameMails ==
  ASSUME CountInv, TypeOK, NEW d \in 0..MaxDay,
         RowsOf(d)' = RowsOf(d), Mailing(d)' = Mailing(d), mails'[d] = mails[d]
  PROVE  MailsInv(d)'
<1>1. MailsInv(d)
  BY DEF CountInv
<1> QED BY <1>1 DEF MailsInv

\* A step of one server that inserts nothing and neither is, nor becomes, a
\* step of storing burns or of sending e-mails.
LEMMA QuietRunStep ==
  ASSUME CountInv, TypeOK, NEW s \in Servers,
         UNCHANGED <<events, rows, burns, mails, faults>>,
         \A t \in Servers \ {s} : run'[t] = run[t],
         run[s].phase \notin {"burns", "stats", "mails"},
         \/ run'[s].phase \notin {"burns", "stats", "mails"}
         \/ run'[s].phase = "burns" /\ run'[s].todo = run'[s].batch
  PROVE  CountInv'
<1>1. ASSUME NEW e \in Event PROVE CopiesInv(e)'
  <2>1. Covering(e)' = Covering(e)
    BY DEF Covering, Covered
  <2>2. InFlight(e)' = InFlight(e)
    BY DEF InFlight
  <2> QED BY <2>1, <2>2, SameCopies
<1>2. ASSUME NEW d \in 0..MaxDay PROVE MailsInv(d)'
  <2>1. RowsOf(d)' = RowsOf(d)
    BY DEF RowsOf
  <2>2. Mailing(d)' = Mailing(d)
    BY DEF Mailing
  <2> QED BY <2>1, <2>2, SameMails
<1> QED BY <1>1, <1>2 DEF CountInv

\* What other servers do is as it was when s takes a step.
LEMMA OthersStay ==
  ASSUME TypeOK, NEW s \in Servers, NEW r, Step(s, r)
  PROVE  run'[s] = r /\ \A t \in Servers \ {s} : run'[t] = run[t]
BY DEF TypeOK, Step

\* A new block lies beyond every row, so it is covered by none.
LEMMA MineBlockCounts ==
  ASSUME IInv, CountInv, NEW S \in SUBSET csps, MineBlock(S)
  PROVE  CountInv'
<1>1. /\ head \in Nat
      /\ UNCHANGED <<rows, burns, mails, run, faults>>
      /\ \A r \in rows : r.last \in Nat /\ r.last <= head
      /\ \A e : e \in events' <=> e \in events \/ (\E c \in S :
                                    e = [block |-> head + 1, csp |-> c])
  BY BoundsAssumption
     DEF IInv, TypeOK, MineBlock, database, ChainInv, StatsRow
<1>2. ASSUME NEW e \in Event PROVE CopiesInv(e)'
  <2>1. ASSUME NEW r \in rows PROVE (e \in Covered(r))' <=> e \in Covered(r)
    BY <1>1 DEF Covered
  <2>2. Covering(e)' = Covering(e)
    BY <1>1, <2>1 DEF Covering
  <2>3. InFlight(e)' = InFlight(e)
    BY <1>1 DEF InFlight
  <2> QED BY <1>1, <2>2, <2>3, SameCopies DEF IInv
<1>3. ASSUME NEW d \in 0..MaxDay PROVE MailsInv(d)'
  <2>1. RowsOf(d)' = RowsOf(d) /\ Mailing(d)' = Mailing(d)
    BY <1>1 DEF RowsOf, Mailing
  <2> QED BY <1>1, <2>1, SameMails DEF IInv
<1> QED BY <1>1, <1>2, <1>3 DEF CountInv

LEMMA QuietCounts ==
  ASSUME IInv, CountInv,
         UNCHANGED <<events, database, mails, run, faults>>
  PROVE  CountInv'
<1>1. \A e : Covering(e)' = Covering(e) /\ InFlight(e)' = InFlight(e)
  BY DEF Covering, Covered, InFlight, database
<1>2. \A d : RowsOf(d)' = RowsOf(d) /\ Mailing(d)' = Mailing(d)
  BY DEF RowsOf, Mailing, database
<1> QED BY <1>1, <1>2, SameCopies, SameMails DEF IInv, CountInv, database

\* The steps before the first burn is stored.
LEMMA EarlyCounts ==
  ASSUME IInv, CountInv, NEW s \in Servers,
         \/ Start(s) \/ FetchCsps(s) \/ FetchEvents(s) \/ ComputeStats(s)
         \/ Recheck(s) \/ StoreAllocation(s)
  PROVE  CountInv'
<1>1. run[s] \in Run /\ TypeOK
  BY DEF IInv, TypeOK
<1>2. /\ UNCHANGED <<events, rows, burns, mails, faults>>
      /\ run[s].phase \notin {"burns", "stats", "mails"}
  BY DEF Start, FetchCsps, FetchEvents, ComputeStats, Recheck,
         StoreAllocation, chain, database
<1>3. /\ \A t \in Servers \ {s} : run'[t] = run[t]
      /\ \/ run'[s].phase \notin {"burns", "stats", "mails"}
         \/ run'[s].phase = "burns" /\ run'[s].todo = run'[s].batch
  <2>1. CASE Start(s)
    <3>1. PICK q : \/ Step(s, Idle)
                   \/ Step(s, [Idle EXCEPT !.phase = "csps", !.base = q])
      BY <2>1 DEF Start, End
    <3>2. /\ \A t \in Servers \ {s} : run'[t] = run[t]
          /\ \/ run'[s] = Idle
             \/ run'[s] = [Idle EXCEPT !.phase = "csps", !.base = q]
      <4>1. CASE Step(s, Idle)
        BY <1>1, <4>1, OthersStay
      <4>2. CASE Step(s, [Idle EXCEPT !.phase = "csps", !.base = q])
        BY <1>1, <4>2, OthersStay
      <4> QED BY <3>1, <4>1, <4>2
    <3>3. run'[s].phase \in {"idle", "csps"}
      <4>1. CASE run'[s] = Idle
        BY <4>1 DEF Idle
      <4>2. CASE run'[s] = [Idle EXCEPT !.phase = "csps", !.base = q]
        BY <4>2 DEF Idle
      <4> QED BY <3>2, <4>1, <4>2
    <3> QED BY <3>2, <3>3
  <2>2. CASE FetchCsps(s)
    <3>1. /\ \A t \in Servers \ {s} : run'[t] = run[t]
          /\ run'[s] = [run[s] EXCEPT !.phase = "head", !.known = csps]
      BY <1>1, <2>2, OthersStay DEF FetchCsps
    <3>2. run'[s].phase = "head"
      BY <1>1, <3>1 DEF Run
    <3> QED BY <3>1, <3>2
  <2>3. CASE FetchEvents(s)
    <3>1. PICK n, b : \/ Step(s, Idle)
                      \/ Step(s, [run[s] EXCEPT !.phase = "totals",
                                                !.upto = n, !.batch = b])
      BY <2>3 DEF FetchEvents, End
    <3>2. /\ \A t \in Servers \ {s} : run'[t] = run[t]
          /\ \/ run'[s] = Idle
             \/ run'[s] = [run[s] EXCEPT !.phase = "totals", !.upto = n,
                                         !.batch = b]
      <4>1. CASE Step(s, Idle)
        BY <1>1, <4>1, OthersStay
      <4>2. CASE Step(s, [run[s] EXCEPT !.phase = "totals", !.upto = n,
                                         !.batch = b])
        BY <1>1, <4>2, OthersStay
      <4> QED BY <3>1, <4>1, <4>2
    <3>3. run'[s].phase \in {"idle", "totals"}
      <4>1. CASE run'[s] = Idle
        BY <4>1 DEF Idle
      <4>2. CASE run'[s] = [run[s] EXCEPT !.phase = "totals", !.upto = n,
                                        !.batch = b]
        BY <1>1, <4>2 DEF Run
      <4> QED BY <3>2, <4>1, <4>2
    <3> QED BY <3>2, <3>3
  <2>4. CASE ComputeStats(s)
    <3>1. PICK q : Step(s, [run[s] EXCEPT !.phase = "recheck", !.row = q])
      BY <2>4 DEF ComputeStats
    <3>2. /\ \A t \in Servers \ {s} : run'[t] = run[t]
          /\ run'[s] = [run[s] EXCEPT !.phase = "recheck", !.row = q]
      BY <1>1, <3>1, OthersStay
    <3>3. run'[s].phase = "recheck"
      BY <1>1, <3>2 DEF Run
    <3> QED BY <3>2, <3>3
  <2>5. CASE Recheck(s)
    <3>1. \/ Step(s, Idle)
          \/ Step(s, [run[s] EXCEPT !.phase = "allocations",
                                    !.todo = run[s].batch])
      BY <2>5 DEF Recheck, End
    <3>2. /\ \A t \in Servers \ {s} : run'[t] = run[t]
          /\ \/ run'[s] = Idle
             \/ run'[s] = [run[s] EXCEPT !.phase = "allocations",
                                         !.todo = run[s].batch]
      <4>1. CASE Step(s, Idle)
        BY <1>1, <4>1, OthersStay
      <4>2. CASE Step(s, [run[s] EXCEPT !.phase = "allocations",
                                         !.todo = run[s].batch])
        BY <1>1, <4>2, OthersStay
      <4> QED BY <3>1, <4>1, <4>2
    <3>3. run'[s].phase \in {"idle", "allocations"}
      <4>1. CASE run'[s] = Idle
        BY <4>1 DEF Idle
      <4>2. CASE run'[s] = [run[s] EXCEPT !.phase = "allocations",
                                        !.todo = run[s].batch]
        BY <1>1, <4>2 DEF Run
      <4> QED BY <3>2, <4>1, <4>2
    <3> QED BY <3>2, <3>3
  <2>6. CASE StoreAllocation(s)
    <3>1. PICK e :
            \/ Step(s, [run[s] EXCEPT !.phase = "burns",
                                      !.todo = run[s].batch])
            \/ Step(s, [run[s] EXCEPT !.todo = @ \ {e}])
      BY <2>6 DEF StoreAllocation
    <3>2. /\ \A t \in Servers \ {s} : run'[t] = run[t]
          /\ \/ run'[s] = [run[s] EXCEPT !.phase = "burns",
                                         !.todo = run[s].batch]
             \/ run'[s] = [run[s] EXCEPT !.todo = @ \ {e}]
      BY <1>1, <3>1, OthersStay
    <3>3. \/ run'[s].phase = "burns" /\ run'[s].todo = run'[s].batch
          \/ run'[s].phase = run[s].phase
      BY <1>1, <3>2 DEF Run
    <3> QED BY <1>2, <3>2, <3>3
  <2> QED BY <2>1, <2>2, <2>3, <2>4, <2>5, <2>6
<1> QED BY <1>1, <1>2, <1>3, QuietRunStep

\* A copy is stored, and the run that stored it has the event behind it.
LEMMA StoreBurnCounts ==
  ASSUME IInv, CountInv, NEW s \in Servers, StoreBurn(s)
  PROVE  CountInv'
<1>1. /\ TypeOK /\ run[s] \in Run /\ run[s].phase = "burns"
      /\ UNCHANGED <<events, rows, mails, faults>>
  BY DEF IInv, TypeOK, StoreBurn, chain
<1>2. PICK e \in run[s].todo :
        /\ burns' = [burns EXCEPT ![e] = @ + 1]
        /\ \/ /\ run[s].todo = {e}
              /\ Step(s, [run[s] EXCEPT !.phase = "stats", !.todo = {}])
           \/ /\ run[s].todo # {e}
              /\ Step(s, [run[s] EXCEPT !.todo = @ \ {e}])
  BY DEF StoreBurn
<1>3. e \in run[s].batch /\ e \in Event
  BY <1>1, <1>2 DEF IInv, StoredInv, Run
<1>4. /\ \A t \in Servers \ {s} : run'[t] = run[t]
      /\ \/ /\ run[s].todo = {e}
            /\ run'[s] = [run[s] EXCEPT !.phase = "stats", !.todo = {}]
         \/ run'[s] = [run[s] EXCEPT !.todo = @ \ {e}]
  BY <1>1, <1>2, OthersStay
<1>5. /\ run'[s].batch = run[s].batch /\ run'[s].todo = run[s].todo \ {e}
      /\ run'[s].phase \in {"burns", "stats"}
  BY <1>1, <1>4 DEF Run
<1>6. \A x \in Event : Covering(x)' = Covering(x)
  BY <1>1 DEF Covering, Covered
<1>7. ASSUME NEW x \in Event, x # e PROVE CopiesInv(x)'
  <2>1. InFlight(x)' = InFlight(x)
    BY <1>1, <1>4, <1>5, <1>7 DEF InFlight
  <2>2. burns'[x] = burns[x]
    BY <1>2, <1>7 DEF IInv, TypeOK
  <2> QED BY <1>1, <1>6, <2>1, <2>2, SameCopies
<1>8. CopiesInv(e)'
  <2>1. CopiesInv(e)
    BY <1>3 DEF CountInv
  <2>2. InFlight(e)' = InFlight(e) \cup {s} /\ s \notin InFlight(e)
    BY <1>1, <1>2, <1>3, <1>4, <1>5 DEF InFlight
  <2>3. /\ IsFiniteSet(InFlight(e)')
        /\ Cardinality(InFlight(e)') = Cardinality(InFlight(e)) + 1
        /\ Cardinality(InFlight(e)) \in Nat
    BY <2>1, <2>2, FS_AddElement, FS_CardinalityType DEF CopiesInv
  <2>4. burns'[e] = burns[e] + 1 /\ burns[e] \in Nat /\ faults \in Nat
    BY <1>1, <1>2, <1>3 DEF TypeOK
  <2>5. Cardinality(Covering(e)) \in Nat
    BY SelectionsFinite DEF CountInv
  <2> QED BY <1>1, <1>3, <1>6, <2>1, <2>3, <2>4, <2>5 DEF CopiesInv
<1>9. ASSUME NEW d \in 0..MaxDay PROVE MailsInv(d)'
  <2>1. RowsOf(d)' = RowsOf(d)
    BY <1>1 DEF RowsOf
  <2>2. Mailing(d)' = Mailing(d)
    BY <1>1, <1>4, <1>5 DEF Mailing
  <2> QED BY <1>1, <2>1, <2>2, SameMails
<1> QED BY <1>1, <1>7, <1>8, <1>9 DEF CountInv

\* The new row takes over from its run: it covers what the run had stored,
\* and the run may send the e-mails of its day.
LEMMA StoreStatsCounts ==
  ASSUME IInv, CountInv, NEW s \in Servers, StoreStats(s)
  PROVE  CountInv'
<1> DEFINE row == run[s].row
<1>1. /\ TypeOK /\ run[s] \in Run /\ run[s].phase = "stats"
      /\ rows' = rows \cup {row}
      /\ UNCHANGED <<events, burns, mails, faults>>
  BY DEF IInv, TypeOK, StoreStats, chain
<1>2. /\ \A t \in Servers \ {s} : run'[t] = run[t]
      /\ run'[s] = [run[s] EXCEPT !.phase = "mails"]
  BY <1>1, OthersStay DEF StoreStats
<1>3. run'[s].phase = "mails" /\ run'[s].row = row
  BY <1>1, <1>2 DEF Run
<1>4. BaseInv(run[s]) /\ RowInv(run[s])
  BY DEF IInv
<1>5. row \notin rows
  BY <1>1, <1>4 DEF RowInv, Computed
<1>6. Covered(row) = run[s].batch
  BY <1>1, <1>4
     DEF BaseInv, RowInv, Covered, EventsIn, Computed, Collected
<1> HIDE DEF row
<1>7. IsFiniteSet(rows) /\ IsFiniteSet(rows')
  BY <1>1, FS_AddElement DEF CountInv
<1>8. ASSUME NEW e \in Event PROVE CopiesInv(e)'
  <2>0. /\ CopiesInv(e)
        /\ burns'[e] = burns[e] /\ burns[e] \in Nat
        /\ faults' = faults /\ faults \in Nat
        /\ Cardinality(Covering(e)) \in Nat /\ IsFiniteSet(Covering(e))
    BY <1>1, SelectionsFinite DEF CountInv, TypeOK
  <2>1. CASE e \in run[s].batch
    <3>1. Covering(e)' = Covering(e) \cup {row} /\ row \notin Covering(e)
      <4>1. \A r : Covered(r)' = Covered(r)
        BY <1>1 DEF Covered
      <4> QED BY <1>1, <1>5, <1>6, <2>1, <4>1 DEF Covering
    <3>2. InFlight(e)' = InFlight(e) \ {s}
      BY <1>2, <1>3 DEF InFlight
    <3>3. Cardinality(Covering(e)') = Cardinality(Covering(e)) + 1
      BY <2>0, <3>1, FS_AddElement
    <3>4. /\ IsFiniteSet(InFlight(e)')
          /\ Cardinality(InFlight(e)) <= Cardinality(InFlight(e)') + 1
          /\ Cardinality(InFlight(e)') \in Nat
          /\ Cardinality(InFlight(e)) \in Nat
      BY <2>0, <3>2, RemoveOne DEF CopiesInv
    <3> QED BY <2>0, <3>3, <3>4 DEF CopiesInv
  <2>2. CASE e \notin run[s].batch
    <3>1. Covering(e)' = Covering(e)
      <4>1. \A r : Covered(r)' = Covered(r)
        BY <1>1 DEF Covered
      <4> QED BY <1>1, <1>6, <2>2, <4>1 DEF Covering
    <3>2. InFlight(e)' = InFlight(e)
      BY <1>2, <1>3, <2>2 DEF InFlight
    <3> QED BY <1>1, <2>0, <3>1, <3>2, SameCopies
  <2> QED BY <2>1, <2>2
<1>9. ASSUME NEW d \in 0..MaxDay PROVE MailsInv(d)'
  <2>1. CASE d = row.day
    <3>1. RowsOf(d)' = RowsOf(d) \cup {row} /\ row \notin RowsOf(d)
      BY <1>1, <1>5, <2>1 DEF RowsOf
    <3>2. Mailing(d)' = Mailing(d) \cup {s} /\ s \notin Mailing(d)
      BY <1>1, <1>2, <1>3, <2>1 DEF Mailing
    <3>3. /\ MailsInv(d) /\ mails'[d] = mails[d] /\ mails[d] \in Nat
          /\ IsFiniteSet(RowsOf(d)) /\ Cardinality(RowsOf(d)) \in Nat
      BY <1>1, SelectionsFinite DEF CountInv, TypeOK
    <3>4. Cardinality(RowsOf(d)') = Cardinality(RowsOf(d)) + 1
      BY <3>1, <3>3, FS_AddElement
    <3>5. /\ IsFiniteSet(Mailing(d)')
          /\ Cardinality(Mailing(d)') = Cardinality(Mailing(d)) + 1
          /\ Cardinality(Mailing(d)) \in Nat
      BY <3>2, <3>3, FS_AddElement, FS_CardinalityType DEF MailsInv
    <3> QED BY <3>3, <3>4, <3>5 DEF MailsInv
  <2>2. CASE d # row.day
    <3>1. RowsOf(d)' = RowsOf(d)
      BY <1>1, <2>2 DEF RowsOf
    <3>2. Mailing(d)' = Mailing(d)
      BY <1>1, <1>2, <1>3, <2>2 DEF Mailing
    <3> QED BY <1>1, <3>1, <3>2, SameMails
  <2> QED BY <2>1, <2>2
<1> QED BY <1>7, <1>8, <1>9 DEF CountInv

\* A batch of e-mails, or none, uses up the run that could send it.
LEMMA SendMailsCounts ==
  ASSUME IInv, CountInv, NEW s \in Servers, SendEndingJobMails(s)
  PROVE  CountInv'
<1>1. /\ TypeOK /\ run[s] \in Run /\ run[s].phase = "mails"
      /\ UNCHANGED <<events, rows, burns, faults>>
      /\ \/ mails' = [mails EXCEPT ![run[s].row.day] = @ + 1]
         \/ mails' = mails
  BY DEF IInv, TypeOK, SendEndingJobMails, chain, database
<1>2. /\ \A t \in Servers \ {s} : run'[t] = run[t]
      /\ run'[s].phase = "idle"
  BY <1>1, OthersStay DEF SendEndingJobMails, End, Idle
<1>3. ASSUME NEW e \in Event PROVE CopiesInv(e)'
  <2>1. Covering(e)' = Covering(e)
    BY <1>1 DEF Covering, Covered
  <2>2. InFlight(e)' = InFlight(e)
    BY <1>1, <1>2 DEF InFlight
  <2> QED BY <1>1, <2>1, <2>2, SameCopies
<1>4. ASSUME NEW d \in 0..MaxDay PROVE MailsInv(d)'
  <2>0. /\ MailsInv(d) /\ mails[d] \in Nat
        /\ RowsOf(d)' = RowsOf(d)
        /\ Cardinality(RowsOf(d)) \in Nat
    BY <1>1, SelectionsFinite DEF CountInv, TypeOK, RowsOf
  <2>1. CASE d = run[s].row.day
    <3>1. Mailing(d)' = Mailing(d) \ {s} /\ s \in Mailing(d)
      BY <1>1, <1>2, <2>1 DEF Mailing
    <3>2. /\ IsFiniteSet(Mailing(d)')
          /\ Cardinality(Mailing(d)') = Cardinality(Mailing(d)) - 1
          /\ Cardinality(Mailing(d)) \in Nat
      BY <2>0, <3>1, FS_RemoveElement, FS_CardinalityType DEF MailsInv
    <3>3. mails'[d] \in Nat /\ mails'[d] <= mails[d] + 1
      <4>1. mails \in [0..MaxDay -> Nat]
        BY <1>1 DEF TypeOK
      <4>2. mails'[d] \in {mails[d], mails[d] + 1}
        BY <1>1, <2>1, <4>1
      <4> QED BY <2>0, <4>2
    <3> QED BY <2>0, <3>2, <3>3 DEF MailsInv
  <2>2. CASE d # run[s].row.day
    <3>1. Mailing(d)' = Mailing(d)
      BY <1>1, <1>2, <2>2 DEF Mailing
    <3>2. mails'[d] = mails[d]
      BY <1>1, <2>2 DEF TypeOK
    <3> QED BY <1>1, <2>0, <3>1, <3>2, SameMails
  <2> QED BY <2>1, <2>2
<1> QED BY <1>1, <1>3, <1>4 DEF CountInv

\* What an abandoned run had stored is charged to its fault.
LEMMA AbandonCounts ==
  ASSUME IInv, CountInv, NEW s \in Servers, Abandon(s)
  PROVE  CountInv'
<1>1. /\ TypeOK /\ faults \in Nat /\ faults' = faults + 1
      /\ UNCHANGED <<events, rows, burns, mails>>
  BY BoundsAssumption DEF IInv, TypeOK, Abandon, chain, database
<1>2. /\ \A t \in Servers \ {s} : run'[t] = run[t]
      /\ run'[s].phase = "idle"
  BY <1>1, OthersStay DEF Abandon, End, Idle
<1>3. ASSUME NEW e \in Event PROVE CopiesInv(e)'
  <2>1. Covering(e)' = Covering(e)
    BY <1>1 DEF Covering, Covered
  <2>2. InFlight(e)' = InFlight(e) \ {s}
    BY <1>2 DEF InFlight
  <2>3. /\ CopiesInv(e) /\ burns[e] \in Nat
        /\ Cardinality(Covering(e)) \in Nat
    BY <1>1, SelectionsFinite DEF CountInv, TypeOK
  <2>4. /\ IsFiniteSet(InFlight(e)')
        /\ Cardinality(InFlight(e)) <= Cardinality(InFlight(e)') + 1
        /\ Cardinality(InFlight(e)') \in Nat
        /\ Cardinality(InFlight(e)) \in Nat
    BY <2>2, <2>3, RemoveOne DEF CopiesInv
  <2> QED BY <1>1, <2>1, <2>3, <2>4 DEF CopiesInv
<1>4. ASSUME NEW d \in 0..MaxDay PROVE MailsInv(d)'
  <2>1. RowsOf(d)' = RowsOf(d) /\ mails'[d] = mails[d]
    BY <1>1 DEF RowsOf
  <2>2. Mailing(d)' = Mailing(d) \ {s}
    BY <1>2 DEF Mailing
  <2>3. /\ MailsInv(d) /\ mails[d] \in Nat
        /\ Cardinality(RowsOf(d)) \in Nat
    BY <1>1, SelectionsFinite DEF CountInv, TypeOK
  <2>4. /\ IsFiniteSet(Mailing(d)')
        /\ Cardinality(Mailing(d)') <= Cardinality(Mailing(d))
        /\ Cardinality(Mailing(d)') \in Nat
        /\ Cardinality(Mailing(d)) \in Nat
    BY <2>2, <2>3, RemoveOne DEF MailsInv
  <2> QED BY <2>1, <2>3, <2>4 DEF MailsInv
<1> QED BY <1>1, <1>3, <1>4 DEF CountInv

LEMMA NextCountInv == IInv /\ CountInv /\ [Next]_vars => CountInv'
<1> SUFFICES ASSUME IInv, CountInv, [Next]_vars PROVE CountInv' OBVIOUS
<1>1. CASE UNCHANGED vars
  BY <1>1, QuietCounts DEF vars, database
<1>2. ASSUME NEW S \in SUBSET csps, MineBlock(S) PROVE CountInv'
  BY <1>2, MineBlockCounts
<1>3. ASSUME NEW c \in Csps, DeployEscrow(c) PROVE CountInv'
  BY <1>3, QuietCounts DEF DeployEscrow
<1>4. CASE NextDay
  BY <1>4, QuietCounts DEF NextDay
<1>5. ASSUME NEW s \in Servers, Start(s) \/ JobStep(s) \/ Abandon(s)
      PROVE  CountInv'
  <2>1. CASE \/ Start(s) \/ FetchCsps(s) \/ FetchEvents(s) \/ ComputeStats(s)
             \/ Recheck(s) \/ StoreAllocation(s)
    BY <2>1, EarlyCounts
  <2>2. CASE StoreBurn(s)
    BY <2>2, StoreBurnCounts
  <2>3. CASE StoreStats(s)
    BY <2>3, StoreStatsCounts
  <2>4. CASE SendEndingJobMails(s)
    BY <2>4, SendMailsCounts
  <2>5. CASE Abandon(s)
    BY <2>5, AbandonCounts
  <2> QED BY <1>5, <2>1, <2>2, <2>3, <2>4, <2>5 DEF JobStep
<1> QED BY <1>1, <1>2, <1>3, <1>4, <1>5 DEF Next

LEMMA CountsHold == Spec => []CountInv
<1> QED BY Inductive, InitCountInv, NextCountInv, PTL DEF Spec

(***************************************************************************)
(* Every copy of a burn is accounted for by a row that covers it, a run    *)
(* still storing, or a run that was abandoned: two servers that overlap    *)
(* leave no more copies than rows (statsService.go:634-642).               *)
(***************************************************************************)
THEOREM BurnCopiesBounded == Spec => []BurnCopiesExplained
<1>1. CountInv => BurnCopiesExplained
  BY DEF CountInv, CopiesInv, Covering, BurnCopiesExplained
<1> QED BY <1>1, CountsHold, PTL

(***************************************************************************)
(* An epoch's ending-job e-mails go out at most once for each stats row of *)
(* it (statsService.go:308-314).                                           *)
(***************************************************************************)
THEOREM MailsBounded == Spec => []MailsBoundedByRows
<1>1. TypeOK /\ CountInv => MailsBoundedByRows
  <2> SUFFICES ASSUME TypeOK, CountInv, NEW d \in DOMAIN mails
               PROVE  mails[d] <= Cardinality(RowsOf(d))
    BY DEF MailsBoundedByRows, RowsOf
  <2>1. d \in 0..MaxDay /\ mails[d] \in Nat
    BY DEF TypeOK
  <2>2. MailsInv(d) /\ Cardinality(RowsOf(d)) \in Nat
    BY <2>1, SelectionsFinite DEF CountInv
  <2>3. Cardinality(Mailing(d)) \in Nat
    BY <2>2, FS_CardinalityType DEF MailsInv
  <2> QED BY <2>1, <2>2, <2>3 DEF MailsInv
<1> QED BY <1>1, CountsHold, TypeCorrect, PTL

-----------------------------------------------------------------------------
(* The job implements the ledger.                                          *)

LEMMA LedgerInit == Init => Ledger!Init
BY DEF Init, Ledger!Init, Genesis, Ledger!Genesis

\* The size of a set is the same in both modules.
LEMMA LedgerCardinality ==
  ASSUME NEW S
  PROVE  Ledger!Cardinality(S) = Cardinality(S)
BY DEF Ledger!Cardinality, Cardinality

\* Inserting the stats row is the ledger's Close: the row extends the one
\* the run started from.
LEMMA LedgerClose ==
  ASSUME IInv, NEW s \in Servers, StoreStats(s)
  PROVE  Ledger!Close
<1> DEFINE row == run[s].row
           base == run[s].base
<1>1. /\ run[s].phase = "stats" /\ rows' = rows \cup {row}
      /\ UNCHANGED <<head, csps, events, allocations>>
  BY DEF StoreStats, chain
<1>2. /\ row \in StatsRow /\ base \in StatsRow /\ run[s].upto \in 0..MaxBlock
  BY DEF IInv, TypeOK, Run
<1>3. BaseInv(run[s]) /\ RowInv(run[s]) /\ StoredInv(run[s])
  BY DEF IInv
<1>4. /\ base \in rows /\ base.last < run[s].upto /\ run[s].upto <= head
      /\ run[s].known \subseteq csps /\ run[s].batch # {}
      /\ run[s].batch = EventsIn(run[s].known, From(base), run[s].upto)
  BY <1>1, <1>3 DEF BaseInv, Collected
<1>5. /\ row.from = From(base) /\ row.last = run[s].upto
      /\ row.known = run[s].known /\ base.stamp < row.stamp
      /\ row.burned = base.burned
           + Cardinality(EventsIn(Csps, From(base), run[s].upto))
      /\ row.poai = base.poai + Cardinality(run[s].batch)
      /\ \A q \in rows : q.stamp # row.stamp
  BY <1>1, <1>3 DEF RowInv, Computed
<1>6. run[s].batch \subseteq allocations
  BY <1>1, <1>3 DEF StoredInv
<1>7. base.last \in Nat /\ base.stamp \in Nat /\ row.stamp \in Nat
  BY <1>2, BoundsAssumption DEF StatsRow
<1>8. From(base) = IF base.last = 0 THEN 0 ELSE base.last + 1
  BY <1>7 DEF From
<1> HIDE DEF row, base
<1>9. Ledger!EventsIn(row.known, row.from, row.last) = run[s].batch
  BY <1>4, <1>5 DEF Ledger!EventsIn, EventsIn
<1>10. Ledger!EventsIn(Csps, row.from, row.last)
         = EventsIn(Csps, From(base), run[s].upto)
  BY <1>5 DEF Ledger!EventsIn, EventsIn
<1>11. Ledger!Extends(row, base)
  BY <1>4, <1>5, <1>6, <1>7, <1>8, <1>9, <1>10, LedgerCardinality
     DEF Ledger!Extends
<1>12. row \in rows' \ rows
  BY <1>1, <1>5 DEF row
<1>13. row \in Ledger!StatsRow
  BY <1>2 DEF row, StatsRow, Ledger!StatsRow
<1>14. rows' = rows \cup {row}
  BY <1>1 DEF row
<1> QED
  BY <1>1, <1>4, <1>5, <1>11, <1>12, <1>13, <1>14 DEF Ledger!Close

LEMMA LedgerStep == IInv /\ [Next]_vars => [Ledger!Next]_Ledger!vars
<1> SUFFICES ASSUME IInv, [Next]_vars PROVE [Ledger!Next]_Ledger!vars
  OBVIOUS
<1> USE DEF Ledger!vars
<1>1. CASE UNCHANGED vars
  BY <1>1 DEF vars
<1>2. ASSUME NEW S \in SUBSET csps, MineBlock(S) PROVE Ledger!Next
  BY <1>2 DEF MineBlock, database, Ledger!Next, Ledger!Grow
<1>3. ASSUME NEW c \in Csps, DeployEscrow(c) PROVE Ledger!Next
  BY <1>3 DEF DeployEscrow, database, Ledger!Next, Ledger!Deploy
<1>4. CASE NextDay
  BY <1>4 DEF NextDay, database
<1>5. ASSUME NEW s \in Servers, StoreAllocation(s) PROVE Ledger!Next
  <2>1. PICK e \in run[s].todo : allocations' = allocations \cup {e}
    BY <1>5 DEF StoreAllocation
  <2>2. e \in events
    BY <1>5, <2>1
       DEF StoreAllocation, IInv, BaseInv, StoredInv, Collected, EventsIn
  <2> QED
    BY <1>5, <2>1, <2>2 DEF StoreAllocation, chain, Ledger!Next, Ledger!Record
<1>6. ASSUME NEW s \in Servers, StoreStats(s) PROVE Ledger!Next
  BY <1>6, LedgerClose DEF Ledger!Next
<1>7. ASSUME NEW s \in Servers,
             \/ Start(s) \/ FetchCsps(s) \/ FetchEvents(s) \/ ComputeStats(s)
             \/ Recheck(s) \/ StoreBurn(s) \/ SendEndingJobMails(s)
             \/ Abandon(s)
      PROVE  UNCHANGED Ledger!vars
  BY <1>7 DEF Start, FetchCsps, FetchEvents, ComputeStats, Recheck, StoreBurn,
              SendEndingJobMails, Abandon, chain, database
<1> QED
  BY <1>1, <1>2, <1>3, <1>4, <1>5, <1>6, <1>7 DEF Next, JobStep

(***************************************************************************)
(* The daily job implements StatsLedger: whatever servers overlap, crash   *)
(* or fail, the stats table only ever grows by a row that extends an       *)
(* earlier one by exactly what the chain did in between, with its events   *)
(* already stored (service/statsService.go, DailyGetStats).                *)
(***************************************************************************)
THEOREM ImplementsLedger == Spec => LedgerSpec
<1>1. IInv /\ [Next]_vars => [Ledger!Next]_Ledger!vars
  BY LedgerStep
<1> QED
  BY <1>1, LedgerInit, Inductive, PTL DEF Spec, LedgerSpec, Ledger!Spec

=============================================================================
