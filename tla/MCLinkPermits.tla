---------------------------- MODULE MCLinkPermits ----------------------------
(* Small instances of LinkPermits for TLC.                                 *)
EXTENDS LinkPermits, TLC

Symmetry == Permutations(Webhooks) \cup Permutations(Sessions)
=============================================================================
