--------------------------- MODULE DraftDocuments ---------------------------
(***************************************************************************)
(* What node owners and CSPs see of the monthly drafts: the lists and the  *)
(* downloads (proxy/handlers/invoiceDraft.go) and the arithmetic of the    *)
(* document (service/invoiceDraftGenerator.go).  The handlers only read:   *)
(* they are operators over the state of MonthlyDrafts.                     *)
(*                                                                         *)
(* A document is made anew at each download, from the draft as stored and  *)
(* from the allocations that point to it by then.  Its amounts are         *)
(* fractions here, of a cent, and the division by a missing exchange rate, *)
(* or by rates that sum to -100 %, is a fraction with the denominator 0.   *)
(***************************************************************************)
EXTENDS MonthlyDrafts, SequencesExt

CONSTANTS
  Terms        \* amounts and terms that a draft may be made with

(***************************************************************************)
(* price is what one allocation paid, in cents; vat and the percentages    *)
(* are in percent; fixed taxes are in cents of the local currency; rate is *)
(* its exchange rate in hundredths, 0 if the currency is not in the map.   *)
(* The owner types his rates: nothing keeps a fixed tax from being         *)
(* negative.                                                               *)
(***************************************************************************)
ASSUME TermsAssumption ==
  \A t \in Terms :
    /\ t.price \in Nat
    /\ t.vat \in Nat
    /\ t.rate \in Nat
    /\ t.extras \in Seq([type : {"fixed", "percentage"}, value : Int])

-----------------------------------------------------------------------------
(* The lists and the downloads.                                            *)

NodeOwnerDraftList(o) == {d \in drafts : d.owner = o /\ d.owner # d.csp}

CspDraftList(c) == {d \in drafts : d.csp = c /\ d.owner # d.csp}

\* No row is no error: the document is then made of an empty draft.
GetDraftByReportId(id, o) == {d \in drafts : d.id = id /\ d.owner = o}

GetCspDraftByReportId(id, c) == {d \in drafts : d.id = id /\ d.csp = c}

GetAllocationsByDraftId(id) == {a \in allocations : draftOf[a] = id}

\* No allocation is an error, and then there is no document.
Documents(found, id) ==
  {[draft |-> found, rows |-> rows] :
     rows \in {GetAllocationsByDraftId(id)} \ {{}}}

DownloadNodeOwnerDraft(o, id) == Documents(GetDraftByReportId(id, o), id)

DownloadCspDraft(c, id) == Documents(GetCspDraftByReportId(id, c), id)

-----------------------------------------------------------------------------
(* The amounts of a document (buildInvoiceView), in cents of USDC.         *)

SumSeq(ns) == FoldLeft(LAMBDA sum, n : sum + n, 0, ns)

SumOf(t, type) ==
  SumSeq([i \in DOMAIN t.extras |->
            IF t.extras[i].type = type THEN t.extras[i].value ELSE 0])

Fraction(n, d) == [num |-> n, den |-> d]

\* Faulty variant of SumFixed: deductions are converted as well.
SumFixedSigned(t) == SumOf(t, "fixed")

\* In the local currency; deductions that prevail are not taken off.
SumFixed(t) == IF SumOf(t, "fixed") > 0 THEN SumOf(t, "fixed") ELSE 0

\* 100 times den.  Nothing keeps an owner's rates above -100 %.
Share(t) == 100 + t.vat + SumOf(t, "percentage")

Sign(t) == IF Share(t) < 0 THEN -1 ELSE 1

\* What the fixed taxes leave; at no rate they are infinite.
Rest(t, total) ==
  IF SumFixed(t) = 0 THEN Fraction(total, 1)
  ELSE Fraction(total * t.rate - 100 * SumFixed(t), t.rate)

\* Faulty variant of Percent: the net base may be negative.
PercentUnbounded(p, t, total) ==
  Fraction(p * (Sign(t) * Rest(t, total).num),
           Rest(t, total).den * (Sign(t) * Share(t)))

\* p % of the net base, which is the rest divided by den, or 0.
Percent(p, t, total) ==
  IF Sign(t) * Rest(t, total).num < 0 THEN Fraction(0, 1)
  ELSE Fraction(p * (Sign(t) * Rest(t, total).num),
                Rest(t, total).den * (Sign(t) * Share(t)))

ExtraLine(e, t, total) ==
  IF e.type = "fixed" THEN Fraction(100 * e.value, t.rate)
  ELSE Percent(e.value, t, total)

\* The net base, the VAT and the extra lines.
Lines(t, total) ==
  <<Percent(100, t, total), Percent(t.vat, t, total)>>
    \o [i \in DOMAIN t.extras |-> ExtraLine(t.extras[i], t, total)]

\* "%.2f".
Cents(f) == (2 * f.num + f.den) \div (2 * f.den)

-----------------------------------------------------------------------------
(* Properties.                                                             *)

Finite(lines) == \A i \in DOMAIN lines : lines[i].den # 0

\* The sum of fractions, each with a denominator that divides den.
SumOver(lines, den) ==
  SumSeq([i \in DOMAIN lines |-> lines[i].num * (den \div lines[i].den)])

Rate(t) == IF t.rate = 0 THEN 1 ELSE t.rate

\* All denominators divide it.
Den(t) == (IF Share(t) = 0 THEN 1 ELSE Sign(t) * Share(t)) * Rate(t)

AddUp(t, total) ==
  /\ Finite(Lines(t, total))
  /\ SumOver(Lines(t, total), Den(t)) = total * Den(t)

Off(t, total) ==
  SumSeq([i \in DOMAIN Lines(t, total) |-> Cents(Lines(t, total)[i])]) - total

(***************************************************************************)
(* As long as executions do not overlap, whoever is listed a draft can     *)
(* download it, and the document has the draft and all the allocations     *)
(* that its total counts, in later months too: no later run takes one away *)
(* (invoiceDraft.go:280-300, allocationStorer.go:102, 116).                *)
(***************************************************************************)
DownloadsMatchTotals ==
  \A o \in Owners \cup CspOwners :
    /\ \A d \in NodeOwnerDraftList(o) :
         DownloadNodeOwnerDraft(o, d.id) = {[draft |-> {d}, rows |-> d.items]}
    /\ \A d \in CspDraftList(o) :
         DownloadCspDraft(o, d.id) = {[draft |-> {d}, rows |-> d.items]}

LinesMake(total, t) ==
  LET fixed == SumOf(t, "fixed")
      hasFixed == \E i \in DOMAIN t.extras : t.extras[i].type = "fixed"
      half == Len(t.extras) + 2
  IN /\ AddUp(t, total) <=>
          /\ fixed >= 0
          /\ hasFixed => t.rate # 0
          /\ \/ Share(t) > 0 /\ 100 * fixed <= total * Rate(t)
             \/ Share(t) < 0 /\ 100 * fixed >= total * Rate(t)
     /\ AddUp(t, total) => 2 * Off(t, total) \in -half..half

\* The numbers of allocations for which the property below holds.
LinesMakeTotals ==
  {n \in 1..Copies : \A t \in Terms : LinesMake(n * t.price, t)}

(***************************************************************************)
(* The net base, the VAT and the extra taxes of a document make up the     *)
(* total that it started from, except if fixed taxes exceed it, if         *)
(* deductions exceed the fixed taxes, if a fixed tax meets a currency      *)
(* without a rate, or if the rates sum to -100 % or less (to less, the     *)
(* lines make the total only if fixed taxes reach it); and as printed they *)
(* miss it by half a cent for each line at most                            *)
(* (invoiceDraftGenerator.go:89-127).                                      *)
(***************************************************************************)
LinesMakeTotal == \A d \in drafts : Cardinality(d.items) \in LinesMakeTotals
=============================================================================
