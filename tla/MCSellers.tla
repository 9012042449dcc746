----------------------------- MODULE MCSellers -----------------------------
(* Small instances of Sellers for TLC.                                     *)
EXTENDS Sellers, TLC

Symmetry == Permutations(Requests) \cup Permutations(Codes)
=============================================================================
