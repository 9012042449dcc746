------------------------- MODULE MCOfflineNotifier -------------------------
(* Small instances of OfflineNotifier for TLC.                             *)
EXTENDS OfflineNotifier, TLC

CONSTANTS o1, n1, n2, n3

Links == n1 :> o1 @@ n2 :> o1 @@ n3 :> None

Report(addressed, node_is_online, is_online, last_state, last_seen_ago) ==
  [addressed |-> addressed, node_is_online |-> node_is_online,
   is_online |-> is_online, last_state |-> last_state,
   last_seen_ago |-> last_seen_ago]

\* Reports as in the tests: off line for 25:01:01 and for 24:00:00, on line,
\* one that does not say, and texts that are not read.
OracleReports ==
  {Report(TRUE, None, "false", "2026-06-08 10:00:00", <<25, 1, 1>>),
   Report(TRUE, None, "false", "2026-06-08 12:00:00", <<24, 0, 0>>),
   Report(TRUE, "true", "false", "offline", <<99999>>),
   Report(TRUE, None, None, "2026-06-08 10:00:00", <<92000>>),
   Report(TRUE, None, None, "offline", <<92000>>),
   Report(TRUE, None, None, "offline", <<>>),
   Report(FALSE, "false", None, "", <<99999>>)}

Symmetry == Permutations(Servers)
=============================================================================
