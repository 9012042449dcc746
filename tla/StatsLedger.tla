----------------------------- MODULE StatsLedger -----------------------------
(***************************************************************************)
(* What the daily statistics job promises, whatever number of servers run  *)
(* it and wherever they stop: the stats table is a ledger.  A row extends  *)
(* one row that is already there; its totals are that row's totals plus    *)
(* what the chain did in the blocks in between; and it is inserted only    *)
(* once every event it covers is in the allocations table.                 *)
(*                                                                         *)
(* Two rows may extend the same row: nothing here says that an epoch has   *)
(* one row only, because the job does not ensure it.                       *)
(***************************************************************************)
EXTENDS Naturals, FiniteSets

CONSTANTS Csps, MaxBlock, MaxDay

VARIABLES
  head,     \* number of the chain's last block
  csps,     \* escrow contracts deployed so far
  events,   \* events on the chain
  rows,     \* table stats
  stored    \* the events in table allocations

vars == <<head, csps, events, rows, stored>>

Event == [block : 1..MaxBlock, csp : Csps]

StatsRow == [stamp : Nat, day : 0..MaxDay, from : Nat, last : 0..MaxBlock,
             known : SUBSET Csps, burned : Nat, poai : Nat]

Genesis == [stamp |-> 0, day |-> 0, from |-> 0, last |-> 0,
            known |-> {}, burned |-> 0, poai |-> 0]

EventsIn(C, lo, hi) ==
  {e \in events : e.csp \in C /\ lo <= e.block /\ e.block <= hi}

Init ==
  /\ head = 0
  /\ csps = {}
  /\ events = {}
  /\ rows = {Genesis}
  /\ stored = {}

Grow(S) ==
  /\ head < MaxBlock
  /\ head' = head + 1
  /\ events' = events \cup {[block |-> head + 1, csp |-> c] : c \in S}
  /\ UNCHANGED <<csps, rows, stored>>

Deploy(c) ==
  /\ csps' = csps \cup {c}
  /\ UNCHANGED <<head, events, rows, stored>>

Record(e) ==
  /\ stored' = stored \cup {e}
  /\ UNCHANGED <<head, csps, events, rows>>

\* Row r extends row q.
Extends(r, q) ==
  /\ r.stamp > q.stamp
  /\ r.from = (IF q.last = 0 THEN 0 ELSE q.last + 1)
  /\ q.last < r.last /\ r.last <= head
  /\ r.known \subseteq csps
  /\ r.burned = q.burned + Cardinality(EventsIn(Csps, r.from, r.last))
  /\ r.poai = q.poai + Cardinality(EventsIn(r.known, r.from, r.last))
  /\ EventsIn(r.known, r.from, r.last) # {}
  /\ EventsIn(r.known, r.from, r.last) \subseteq stored

\* A row that is not there yet is added, and nothing else changes.
Close ==
  /\ \E r \in rows' \ rows :
       /\ r \in StatsRow
       /\ \A p \in rows : p.stamp # r.stamp
       /\ \E q \in rows : Extends(r, q)
       /\ rows' = rows \cup {r}
  /\ UNCHANGED <<head, csps, events, stored>>

Next ==
  \/ \E S \in SUBSET csps : Grow(S)
  \/ \E c \in Csps : Deploy(c)
  \/ \E e \in events : Record(e)
  \/ Close

Spec == Init /\ [][Next]_vars
=============================================================================
