---------------------------- MODULE MCKycEvents ----------------------------
(* Small instances of KycEvents for TLC.                                   *)
EXTENDS KycEvents, TLC

Symmetry == Permutations(Webhooks) \cup Permutations(Sessions)
=============================================================================
