-------------------------- MODULE MCMonthlyDrafts --------------------------
(* Small instances of MonthlyDrafts and DraftDocuments for TLC.            *)
EXTENDS DraftDocuments

Symmetry == Permutations(Runs)

\* Numbers below, at and above those that the job counts.
SomeNumbers == {-1, 0, 3}

\* From it the job counts over zero.
OneBelow == {-1}

LOCAL Fixed(v) == [type |-> "fixed", value |-> v]
LOCAL Perc(v) == [type |-> "percentage", value |-> v]

LOCAL T(v, r, e) == [price |-> 1007, vat |-> v, rate |-> r, extras |-> e]

\* Without a preference; with VAT and both kinds of taxes; with fixed taxes
\* that are all of the total, or more; with deductions, alone and offset by
\* a tax; with a currency that has no rate; and with rates of -100 % and
\* less, alone and with fixed taxes below, at and above the total.
SomeTerms ==
  {T(0, 0, <<>>), T(19, 85, <<Fixed(125), Perc(5), Fixed(60)>>),
   T(19, 487, <<Perc(3), Perc(8)>>), T(19, 100, <<Fixed(1007), Perc(5)>>),
   T(19, 100, <<Fixed(1008), Perc(5)>>), T(19, 85, <<Fixed(-50), Perc(5)>>),
   T(0, 85, <<Fixed(-50), Fixed(50)>>), T(19, 0, <<Perc(3)>>),
   T(19, 0, <<Fixed(50)>>), T(19, 0, <<Fixed(-50), Fixed(50)>>),
   T(19, 85, <<Perc(-119)>>), T(19, 85, <<Perc(-119), Fixed(1000)>>),
   T(0, 100, <<Perc(-150)>>), T(0, 0, <<Perc(-150), Fixed(50)>>),
   T(0, 100, <<Perc(-150), Fixed(1006)>>),
   T(0, 100, <<Perc(-150), Fixed(1007)>>),
   T(0, 100, <<Perc(-150), Fixed(1009)>>)}
=============================================================================
