------------------------------ MODULE Billing ------------------------------
(***************************************************************************)
(* What the monthly drafts promise: drafts are issued one at a time, for   *)
(* work that no draft has counted before, and each owner's numbers go up.  *)
(* A number may be left out.                                               *)
(***************************************************************************)
EXTENDS Integers

VARIABLE issued  \* the drafts issued so far

Init == issued = {}

\* The work that some draft counts.
Counted == UNION {d.items : d \in issued}

\* The numbers of an owner's drafts; one to himself has none.
Numbers(o) == {d.number : d \in {e \in issued : e.owner = o /\ e.csp # o}}

Issue(d) ==
  /\ d.items # {}
  /\ d.items \cap Counted = {}
  /\ IF d.owner = d.csp THEN d.number = 0
     ELSE \A n \in Numbers(d.owner) : n < d.number
  /\ issued' = issued \cup {d}

Next == \E d \in issued' \ issued : Issue(d)

Spec == Init /\ [][Next]_issued
=============================================================================
