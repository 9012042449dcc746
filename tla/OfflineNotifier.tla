-------------------------- MODULE OfflineNotifier --------------------------
(***************************************************************************)
(* The cron job that mails the owners of nodes that are off line           *)
(* (service/offlineNodesNotifier.go).                                      *)
(*                                                                         *)
(* Several servers may have the job.  A run asks an oracle for the nodes,  *)
(* the chain for their owners, takes the time once and goes through the    *)
(* owners in any order: the time of the last mail is read from CStore, a   *)
(* store of all servers, each e-mail address is tried, and the time is     *)
(* stored if the mail service says that it took one of them.  It may have  *)
(* taken one and its answer be lost.  Nothing is locked in between, and    *)
(* times are stored in whole seconds.                                      *)
(*                                                                         *)
(* CStore is modelled as one table whose operations are atomic.            *)
(***************************************************************************)
EXTENDS Integers, Sequences, SequencesExt

CONSTANTS
  Servers,      \* servers whose configuration names the job
  Owners,       \* addresses that own nodes
  Nodes,        \* nodes that the oracle may know
  OwnerOf,      \* the owner of a node, by the chain
  Reports,      \* what the oracle may say of a node
  Threshold,    \* offlineNodeThreshold, in seconds
  Interval,     \* ownerNotificationInterval, in ticks of the clock
  Second,       \* ticks in a second
  MaxTime,      \* bound on the clock
  MaxRuns       \* bound on the runs of all servers

None == "none"

ASSUME OwnersAssumption ==
  /\ OwnerOf \in [Nodes -> Owners \cup {None}]
  /\ None \notin Owners
ASSUME TimesAssumption ==
  /\ Second \in Nat \ {0}
  /\ Interval \in Nat \ {0}
  /\ MaxTime \in Nat /\ Second <= MaxTime
  /\ MaxRuns \in Nat

\* The primary and the notification e-mail of an account.
Emails == {"primary", "notification"}

VARIABLES
  clock,        \* the time, in ticks
  lastSent,     \* CStore: when the owner was mailed, in ticks; 0 for never
  run,          \* the runs, with their local variables
  runs,         \* how often the job was run
  mails,        \* the times of the runs that mailed an owner, and who ran
  together,     \* owners that two runs were mailing at once
  forgotten     \* owners that were mailed and the time not stored

\* The last three are history, for the properties, and so is run[s].mailed.
history == <<mails, together, forgotten>>
vars == <<clock, lastSent, run, runs, history>>

Time == Second..MaxTime

\* sent: sentCount is not 0; mailed: an e-mail to the owner was taken.
Run == [phase : {"idle", "loop", "send", "set"}, now : Time \cup {0},
        due : SUBSET Owners, owner : Owners \cup {None},
        left : SUBSET Emails, sent : BOOLEAN, mailed : BOOLEAN]

Idle == [phase |-> "idle", now |-> 0, due |-> {}, owner |-> None,
         left |-> {}, sent |-> FALSE, mailed |-> FALSE]

TypeOK ==
  /\ clock \in Time
  /\ lastSent \in [Owners -> Time \cup {0}]
  /\ run \in [Servers -> Run]
  /\ runs \in 0..MaxRuns
  /\ mails \in [Owners -> SUBSET (Servers \X Time)]
  /\ together \subseteq Owners
  /\ forgotten \subseteq Owners

Init ==
  /\ clock = Second
  /\ lastSent = [o \in Owners |-> 0]
  /\ run = [s \in Servers |-> Idle]
  /\ runs = 0
  /\ mails = [o \in Owners |-> {}]
  /\ together = {}
  /\ forgotten = {}

-----------------------------------------------------------------------------
(* fetchOracleNodesList.                                                   *)

\* parseNodeOfflineState: the first of the three fields that says.
SaysOffline(r) ==
  \/ r.node_is_online = "false"
  \/ r.node_is_online = None /\ r.is_online = "false"
  \/ r.node_is_online = None /\ r.is_online = None /\ r.last_state = "offline"

\* parseLastSeenSeconds: a text as h:m:s, or m:s, is the list of its parts,
\* and a number or a duration the list of its seconds alone.  What cannot be
\* read is the empty list.
Seconds(seen) == FoldLeft(LAMBDA total, part : total * 60 + part, 0, seen)

LongOffline(r) ==
  /\ r.addressed
  /\ SaysOffline(r)
  /\ r.last_seen_ago # <<>>
  /\ Seconds(r.last_seen_ago) > Threshold

\* The owners of the nodes that are reported; the zero address is none.
OwnersDue(reports) ==
  {OwnerOf[n] : n \in {m \in Nodes : LongOffline(reports[m])}} \ {None}

DueSets == {OwnersDue(reports) : reports \in [Nodes -> Reports]} \ {{}}

-----------------------------------------------------------------------------
(* NotifyOfflineLinkedNodes.                                               *)

\* The runs on server s go on with these local variables.
Goes(s, locals) == run' = [run EXCEPT ![s] = locals]

\* Server s is done with owner o, and goes on with the next one.
Leave(s, o) ==
  Goes(s, [Idle EXCEPT !.phase = "loop", !.now = run[s].now,
                       !.due = run[s].due \ {o}])

\* The time is taken once, when the owners are known.  A run that cannot
\* ask the oracle or the chain, or reach CStore, ends before it.
Start(s) ==
  /\ run[s].phase = "idle"
  /\ runs < MaxRuns
  /\ runs' = runs + 1
  /\ \E due \in DueSets :
       Goes(s, [Idle EXCEPT !.phase = "loop", !.now = clock, !.due = due])
  /\ UNCHANGED <<clock, lastSent, history>>

\* A time in the future, of a run that took its own later, is recent too.
Recent(s, o) == lastSent[o] # 0 /\ run[s].now - lastSent[o] < Interval

\* The owner has no confirmed e-mail, or was mailed within the interval, or
\* one of the two could not be read.
Skip(s, o) ==
  /\ run[s].phase = "loop"
  /\ o \in run[s].due
  /\ Leave(s, o)
  /\ UNCHANGED <<clock, runs, lastSent, history>>

\* {o} if a run is mailing it, from here until its time is stored.
InMailing(o) == {run[s].owner : s \in Servers} \cap {o}

\* Faulty variant of Due: what cannot be read from CStore was never sent.
DueUnread(s, o, emails) ==
  /\ run[s].phase = "loop"
  /\ o \in run[s].due
  /\ emails # {}
  /\ Goes(s, [run[s] EXCEPT !.phase = "send", !.owner = o, !.left = emails])
  /\ together' = together \cup InMailing(o)
  /\ UNCHANGED <<clock, runs, lastSent, mails, forgotten>>

\* The owner is to be mailed, at the confirmed ones of its two e-mails.
Due(s, o, emails) ==
  /\ run[s].phase = "loop"
  /\ o \in run[s].due
  /\ emails # {}
  /\ ~Recent(s, o)
  /\ Goes(s, [run[s] EXCEPT !.phase = "send", !.owner = o, !.left = emails])
  /\ together' = together \cup InMailing(o)
  /\ UNCHANGED <<clock, runs, lastSent, mails, forgotten>>

\* An e-mail is tried.  The mail service does not take it, or takes it and
\* says so, or takes it and its answer is lost, or comes too late.
Send(s, email) ==
  /\ run[s].phase = "send"
  /\ email \in run[s].left
  /\ \/ /\ Goes(s, [run[s] EXCEPT !.left = @ \ {email}])
        /\ UNCHANGED mails
     \/ /\ \E answered \in BOOLEAN :
             Goes(s, [run[s] EXCEPT !.left = @ \ {email}, !.mailed = TRUE,
                                    !.sent = @ \/ answered])
        /\ mails' = [mails EXCEPT ![run[s].owner] = @ \cup {<<s, run[s].now>>}]
  /\ UNCHANGED <<clock, runs, lastSent, together, forgotten>>

\* The owner of run s, if it mailed him.
Mailed(s) == IF run[s].mailed THEN {run[s].owner} ELSE {}

\* Faulty variant of Sent: that one took it is not asked.
SentAny(s) ==
  /\ run[s].phase = "send"
  /\ run[s].left = {}
  /\ Goes(s, [run[s] EXCEPT !.phase = "set"])
  /\ UNCHANGED <<clock, runs, lastSent, history>>

\* All were tried; with no answer that one was taken, no time is stored.
Sent(s) ==
  /\ run[s].phase = "send"
  /\ run[s].left = {}
  /\ \/ /\ run[s].sent
        /\ Goes(s, [run[s] EXCEPT !.phase = "set"])
        /\ UNCHANGED forgotten
     \/ /\ ~run[s].sent
        /\ Leave(s, run[s].owner)
        /\ forgotten' = forgotten \cup Mailed(s)
  /\ UNCHANGED <<clock, runs, lastSent, mails, together>>

InSeconds(t) == (t \div Second) * Second

\* The time is stored, or CStore does not take it, which is only logged.
SetLastSent(s) ==
  /\ run[s].phase = "set"
  /\ LET o == run[s].owner IN
     /\ Leave(s, o)
     /\ \/ /\ lastSent' = [lastSent EXCEPT ![o] = InSeconds(run[s].now)]
           /\ UNCHANGED forgotten
        \/ /\ forgotten' = forgotten \cup {o}
           /\ UNCHANGED lastSent
  /\ UNCHANGED <<clock, runs, mails, together>>

\* All owners are done.
End(s) ==
  /\ run[s].phase = "loop"
  /\ run[s].due = {}
  /\ Goes(s, Idle)
  /\ UNCHANGED <<clock, runs, lastSent, history>>

Crash(s) ==
  /\ run[s].phase # "idle"
  /\ Goes(s, Idle)
  /\ forgotten' = forgotten \cup Mailed(s)
  /\ UNCHANGED <<clock, runs, lastSent, mails, together>>

Tick ==
  /\ clock < MaxTime
  /\ clock' = clock + 1
  /\ UNCHANGED <<lastSent, run, runs, history>>

RunStep(s) ==
  \/ Start(s)
  \/ \E o \in Owners : Skip(s, o)
  \/ \E o \in Owners, emails \in SUBSET Emails : Due(s, o, emails)
  \/ \E email \in Emails : Send(s, email)
  \/ Sent(s) \/ SetLastSent(s) \/ End(s) \/ Crash(s)

Next == Tick \/ \E s \in Servers : RunStep(s)

Spec == Init /\ [][Next]_vars

-----------------------------------------------------------------------------
(* Properties.                                                             *)

\* Two runs mailed an owner a second less than the interval apart, or closer.
Close(m1, m2) == m1 # m2 /\ m1[2] - m2[2] \in 0..(Interval - Second)

(***************************************************************************)
(* An owner is not mailed twice within ownerNotificationInterval (offline- *)
(* NodesNotifier.go:180-203), a second of which is lost when the time is   *)
(* stored, except if two runs were at it at once, between the reading of   *)
(* the time and its being stored, or a time was not stored because CStore  *)
(* or the server failed, or every answer that an e-mail of the run to him  *)
(* was taken was lost: one answer that arrives is enough.                  *)
(***************************************************************************)
MailsSpaced ==
  \A o \in Owners \ (together \cup forgotten) :
    \A m1, m2 \in mails[o] : ~Close(m1, m2)

(***************************************************************************)
(* An owner is left in peace only after a mail: the time that is stored is *)
(* that of a run one of whose mails to him was taken                       *)
(* (offlineNodesNotifier.go:184-198), however many runs overlap or fail.   *)
(***************************************************************************)
SilencedWereMailed ==
  \A o \in Owners :
    lastSent[o] # 0 => \E m \in mails[o] : InSeconds(m[2]) = lastSent[o]
=============================================================================
