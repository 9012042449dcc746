------------------------- MODULE MCLicenseInvoices -------------------------
(* Small instances of LicenseInvoices for TLC.                             *)
EXTENDS LicenseInvoices, TLC

C(company, country) == [company |-> company, country |-> country, own |-> FALSE]

\* The company itself, at home.
Own == [company |-> TRUE, country |-> "rou", own |-> TRUE]

\* A company at home is invoiced as its name says, a person as one abroad.
SomeClients == {Own, C(FALSE, "eu"), C(TRUE, "eu"), C(TRUE, "other")}
=============================================================================
