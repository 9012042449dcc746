---------------------------- MODULE MCDailyStats ----------------------------
(* Small instances of DailyStats for TLC.                                  *)
EXTENDS DailyStats, TLC

Symmetry == Permutations(Servers) \cup Permutations(Csps)
=============================================================================
