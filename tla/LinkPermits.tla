----------------------------- MODULE LinkPermits -----------------------------
(***************************************************************************)
(* The signatures with which an applicant links nodes to his licenses      *)
(* (proxy/handlers/license.go linkNode and multiLinkNode,                  *)
(* service/licenseService.go), beside the webhooks and sessions that       *)
(* rewrite his row (KycEvents).                                            *)
(*                                                                         *)
(* The signed message holds the wallet and the nodes and no time: the      *)
(* contract takes the signature whenever it is presented, so all that      *)
(* matters of it is that it was given, and what the row said then.         *)
(***************************************************************************)
EXTENDS KycEvents

VARIABLE linked      \* whether a signature to link nodes was given

linkVars == <<vars, linked>>

LinkTypeOK == TypeOK /\ linked \in BOOLEAN

LinkInit == Init /\ linked = FALSE

\* Faulty variant of MayLink: the status is not looked at, only the type.
MayLinkTyped == /\ {"active", "typed"} \subseteq row.flags
                /\ "deleted" \notin row.flags

\* What both handlers ask of the row; the account has an e-mail, which the
\* row was found by, and is not blacklisted.
MayLink ==
  /\ row.status = "approved"
  /\ {"active", "typed"} \subseteq row.flags
  /\ "deleted" \notin row.flags

\* The wallet and the nodes are packed, hashed and signed, whether one node
\* or several: whatever the row says later, the signature is good.
SignLink == linked' = TRUE

\* linkNode and multiLinkNode, for well-formed addresses: they only read.
LinkNode ==
  /\ MayLink
  /\ SignLink
  /\ UNCHANGED vars

LinkNext ==
  \/ Next /\ UNCHANGED linked
  \/ LinkNode

LinkSpec == LinkInit /\ [][LinkNext]_linkVars

-----------------------------------------------------------------------------
\* The applied events that gave a status.
Judged == {e \in applied : e.kind \in DOMAIN StatusAfter}

(***************************************************************************)
(* A signature is given only to an applicant whose data is stored and whom *)
(* Sumsub approved, with no later event but ones not yet applied, and did  *)
(* not delete before (license.go:122-132, 380-390), under the uuid that    *)
(* his row has now: what was delivered late, twice or out of order makes   *)
(* no difference, until a request writes a copy that misses another's      *)
(* write.                                                                  *)
(***************************************************************************)
LinksAreDue ==
  [][LinkNode =>
       /\ userInfo
       /\ \E e \in Judged :
            /\ e.kind = "green" /\ e.uuid = row.uuid
            /\ lost \/ \A d \in Judged : d.at <= e.at
       /\ \A e \in applied : e.kind # "deleted"]_linkVars
=============================================================================
