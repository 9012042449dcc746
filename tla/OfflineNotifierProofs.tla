----------------------- MODULE OfflineNotifierProofs -----------------------
(***************************************************************************)
(* Theorems about OfflineNotifier, for any servers, owners, nodes, reports *)
(* and times.                                                              *)
(***************************************************************************)
EXTENDS OfflineNotifier, TLAPS

-----------------------------------------------------------------------------
(* Times in whole seconds.                                                 *)

LEMMA SecondsBound ==
  ASSUME NEW t \in Nat
  PROVE  /\ t \div Second \in Nat
         /\ InSeconds(t) \in Nat
         /\ InSeconds(t) <= t
         /\ t < InSeconds(t) + Second
<1>1. Second \in Nat \ {0}
  BY TimesAssumption
<1>2. /\ t \div Second \in Nat
      /\ t = Second * (t \div Second) + (t % Second)
      /\ t % Second \in 0..(Second - 1)
  BY <1>1
<1>3. Second * (t \div Second) = (t \div Second) * Second
  BY <1>1, <1>2
<1>4. (t \div Second) * Second \in Nat
  BY <1>1, <1>2
<1> QED BY <1>1, <1>2, <1>3, <1>4 DEF InSeconds

\* A time of at least a second is stored as one.
LEMMA SecondsPositive ==
  ASSUME NEW t \in Nat, Second <= t
  PROVE  Second <= InSeconds(t)
<1>1. Second \in Nat \ {0} /\ t \div Second \in Nat
  BY TimesAssumption, SecondsBound
<1>2. CASE t \div Second = 0
  <2>1. InSeconds(t) = 0
    BY <1>1, <1>2 DEF InSeconds
  <2>2. t < InSeconds(t) + Second
    BY SecondsBound
  <2>3. t < Second
    BY <1>1, <2>1, <2>2
  <2> QED BY <1>1, <2>3
<1>3. CASE t \div Second >= 1
  <2> DEFINE k == t \div Second
  <2>1. k \in Nat /\ k >= 1
    BY <1>1, <1>3
  <2> HIDE DEF k
  <2>2. Second <= k * Second
    BY <1>1, <2>1
  <2> QED BY <2>2 DEF InSeconds, k
<1> QED BY <1>1, <1>2, <1>3

\* A later time is stored as a time no earlier.
LEMMA SecondsMonotone ==
  ASSUME NEW t \in Nat, NEW u \in Nat, InSeconds(t) <= u
  PROVE  InSeconds(t) <= InSeconds(u)
<1> DEFINE j == t \div Second
           k == u \div Second
<1>1. Second \in Nat \ {0} /\ j \in Nat /\ k \in Nat
  BY TimesAssumption, SecondsBound
<1>2. j * Second <= u /\ u < k * Second + Second
  BY SecondsBound DEF InSeconds
<1> HIDE DEF j, k
<1>3. k * Second + Second = (k + 1) * Second
  BY <1>1
<1>4. CASE j <= k
  <2>1. j * Second <= k * Second
    BY <1>1, <1>4
  <2> QED BY <2>1 DEF InSeconds, j, k
<1>5. CASE k + 1 <= j
  <2>1. (k + 1) * Second <= j * Second
    BY <1>1, <1>5
  <2>2. j * Second \in Nat /\ k * Second \in Nat /\ (k + 1) * Second \in Nat
    BY <1>1
  <2> QED BY <1>1, <1>2, <1>3, <2>1, <2>2
<1> QED BY <1>1, <1>4, <1>5

-----------------------------------------------------------------------------
(* Types, and what the locals of a run say in each phase.                  *)

Shape(s) ==
  /\ run[s].phase \in {"idle", "loop"} => run[s].owner = None /\ ~run[s].mailed
  /\ run[s].phase \in {"send", "set"} => run[s].owner \in Owners
  /\ run[s].phase # "idle" => run[s].now \in Time
  /\ run[s].phase = "set" => run[s].sent
  /\ run[s].sent => run[s].mailed

Told(s) == run[s].mailed => <<s, run[s].now>> \in mails[run[s].owner]

IInv ==
  /\ TypeOK
  /\ \A s \in Servers : Shape(s) /\ Told(s)
  /\ SilencedWereMailed

LEMMA IdleType == Idle \in Run
BY DEF Idle, Run

LEMMA LeaveType ==
  ASSUME NEW s \in Servers, NEW o, TypeOK
  PROVE  [Idle EXCEPT !.phase = "loop", !.now = run[s].now,
                      !.due = run[s].due \ {o}] \in Run
BY DEF TypeOK, Idle, Run

LEMMA InitIInv == Init => IInv
<1> SUFFICES ASSUME Init PROVE IInv
  OBVIOUS
<1>1. TypeOK
  <2>1. Second \in Time /\ 0 \in 0..MaxRuns
    BY TimesAssumption DEF Time
  <2> QED BY <2>1, IdleType DEF Init, TypeOK
<1>2. \A s \in Servers : Shape(s) /\ Told(s)
  BY DEF Init, Shape, Told, Idle
<1>3. SilencedWereMailed
  BY DEF Init, SilencedWereMailed
<1> QED BY <1>1, <1>2, <1>3 DEF IInv

\* After a step of s, the locals of the other runs are as they were.
LEMMA OthersKeep ==
  ASSUME NEW s \in Servers, NEW r, Goes(s, r), IInv,
         \A o \in Owners : mails[o] \subseteq mails'[o],
         Shape(s)', Told(s)'
  PROVE  \A t \in Servers : Shape(t)' /\ Told(t)'
<1> SUFFICES ASSUME NEW t \in Servers, t # s PROVE Shape(t)' /\ Told(t)'
  OBVIOUS
<1>1. run'[t] = run[t]
  BY DEF Goes, IInv, TypeOK
<1>2. Shape(t) /\ Told(t)
  BY DEF IInv
<1>3. run[t].mailed => run[t].owner \in Owners
  BY <1>2 DEF Shape, IInv, TypeOK, Run
<1> QED BY <1>1, <1>2, <1>3 DEF Shape, Told

\* A step of s that only changes its own locals.
LEMMA LocalStep ==
  ASSUME NEW s \in Servers, NEW r \in Run, Goes(s, r), IInv,
         UNCHANGED <<clock, lastSent, mails>>,
         runs' \in 0..MaxRuns, together' \subseteq Owners,
         forgotten' \subseteq Owners, Shape(s)', Told(s)'
  PROVE  IInv'
<1>1. TypeOK'
  BY DEF Goes, IInv, TypeOK
<1>2. SilencedWereMailed'
  BY DEF IInv, SilencedWereMailed
<1>3. \A t \in Servers : Shape(t)' /\ Told(t)'
  BY OthersKeep
<1> QED BY <1>1, <1>2, <1>3 DEF IInv

\* A step of s to idle, or to its next owner.
LEMMA QuietStep ==
  ASSUME NEW s \in Servers, NEW r \in Run, Goes(s, r), TypeOK,
         r.phase \in {"idle", "loop"}, r.owner = None, ~r.sent,
         ~r.mailed, r.phase = "loop" => r.now \in Time
  PROVE  Shape(s)' /\ Told(s)'
BY DEF Goes, TypeOK, Shape, Told

LEMMA LeaveQuiet ==
  ASSUME NEW s \in Servers, NEW o, Leave(s, o), IInv, run[s].phase # "idle"
  PROVE  Shape(s)' /\ Told(s)'
<1> DEFINE r == [Idle EXCEPT !.phase = "loop", !.now = run[s].now,
                             !.due = run[s].due \ {o}]
<1>1. r \in Run /\ Goes(s, r)
  BY LeaveType DEF Leave, IInv
<1>2. /\ r.phase = "loop" /\ r.owner = None /\ ~r.sent /\ ~r.mailed
      /\ r.now = run[s].now
  BY DEF Idle
<1>3. run[s].now \in Time
  BY DEF IInv, Shape
<1> HIDE DEF r
<1> QED BY <1>1, <1>2, <1>3, QuietStep DEF IInv

LEMMA IdleQuiet ==
  ASSUME NEW s \in Servers, Goes(s, Idle), IInv
  PROVE  Shape(s)' /\ Told(s)'
<1>1. Idle.phase = "idle" /\ Idle.owner = None /\ ~Idle.sent /\ ~Idle.mailed
  BY DEF Idle
<1> QED BY <1>1, IdleType, QuietStep DEF IInv

LEMMA StartIInv ==
  ASSUME NEW s \in Servers, IInv, Start(s)
  PROVE  IInv'
<1>1. PICK due \in DueSets :
        Goes(s, [Idle EXCEPT !.phase = "loop", !.now = clock, !.due = due])
  BY DEF Start
<1> DEFINE r == [Idle EXCEPT !.phase = "loop", !.now = clock, !.due = due]
<1>2. due \subseteq Owners
  <2>1. PICK reports \in [Nodes -> Reports] : due = OwnersDue(reports)
    BY DEF DueSets
  <2> QED BY <2>1, OwnersAssumption DEF OwnersDue
<1>3. /\ r \in Run
      /\ r.phase = "loop" /\ r.owner = None /\ r.now \in Time
      /\ ~r.sent /\ ~r.mailed
  BY <1>2 DEF Idle, Run, IInv, TypeOK
<1>4. Goes(s, r)
  BY <1>1
<1> HIDE DEF r
<1>5. Shape(s)' /\ Told(s)'
  BY <1>3, <1>4, QuietStep DEF IInv
<1>6. runs' \in 0..MaxRuns
  BY TimesAssumption DEF Start, IInv, TypeOK
<1> QED BY <1>3, <1>4, <1>5, <1>6, LocalStep
        DEF Start, history, IInv, TypeOK

LEMMA SkipIInv ==
  ASSUME NEW s \in Servers, NEW o \in Owners, IInv, Skip(s, o)
  PROVE  IInv'
<1>1. Shape(s)' /\ Told(s)'
  BY LeaveQuiet DEF Skip
<1> QED BY <1>1, LeaveType, LocalStep DEF Skip, Leave, history, IInv, TypeOK

LEMMA DueIInv ==
  ASSUME NEW s \in Servers, NEW o \in Owners, NEW emails \in SUBSET Emails,
         IInv, Due(s, o, emails)
  PROVE  IInv'
<1> DEFINE r == [run[s] EXCEPT !.phase = "send", !.owner = o, !.left = emails]
<1>1. r \in Run /\ Goes(s, r)
  BY DEF Due, IInv, TypeOK, Run
<1>2. /\ r.phase = "send" /\ r.owner = o
      /\ r.sent = run[s].sent /\ r.mailed = run[s].mailed
      /\ r.now = run[s].now
  BY DEF IInv, TypeOK, Run
<1>3. ~run[s].sent /\ ~run[s].mailed /\ run[s].now \in Time
  BY DEF Due, IInv, Shape
<1> HIDE DEF r
<1>4. Shape(s)' /\ Told(s)'
  BY <1>1, <1>2, <1>3 DEF Goes, IInv, TypeOK, Shape, Told
<1>5. together' \subseteq Owners
  BY DEF Due, InMailing, IInv, TypeOK
<1> QED BY <1>1, <1>4, <1>5, LocalStep DEF Due, IInv, TypeOK

LEMMA SendIInv ==
  ASSUME NEW s \in Servers, NEW email \in Emails, IInv, Send(s, email)
  PROVE  IInv'
<1> DEFINE r == [run[s] EXCEPT !.left = @ \ {email}]
           m == <<s, run[s].now>>
           o == run[s].owner
<1>0. o \in Owners /\ run[s].now \in Time /\ run[s].phase = "send"
  BY DEF Send, IInv, Shape
<1>1. CASE Goes(s, r) /\ UNCHANGED mails
  <2>1. /\ r \in Run
        /\ r.phase = "send" /\ r.owner = o /\ r.now = run[s].now
        /\ r.sent = run[s].sent /\ r.mailed = run[s].mailed
    BY <1>0 DEF IInv, TypeOK, Run
  <2> HIDE DEF r
  <2>2. Shape(s)' /\ Told(s)'
    BY <1>0, <1>1, <2>1 DEF Goes, IInv, TypeOK, Shape, Told
  <2> QED BY <1>1, <2>1, <2>2, LocalStep DEF Send, IInv, TypeOK
<1>2. ASSUME NEW answered \in BOOLEAN,
             Goes(s, [run[s] EXCEPT !.left = @ \ {email}, !.mailed = TRUE,
                                    !.sent = @ \/ answered]),
             mails' = [mails EXCEPT ![o] = @ \cup {m}]
      PROVE  IInv'
  <2> DEFINE q == [run[s] EXCEPT !.left = @ \ {email}, !.mailed = TRUE,
                                 !.sent = @ \/ answered]
  <2>0. (run[s].sent \/ answered) \in BOOLEAN
    OBVIOUS
  <2>1. /\ q \in Run
        /\ q.phase = "send" /\ q.owner = o /\ q.mailed /\ q.now = run[s].now
    BY <1>0, <2>0 DEF IInv, TypeOK, Run
  <2>2. Goes(s, q)
    BY <1>2
  <2> HIDE DEF q
  <2>3. /\ mails' \in [Owners -> SUBSET (Servers \X Time)]
        /\ \A p \in Owners : mails[p] \subseteq mails'[p]
        /\ m \in mails'[o]
    BY <1>0, <1>2 DEF IInv, TypeOK
  <2>4. Shape(s)' /\ Told(s)'
    BY <1>0, <2>1, <2>2, <2>3 DEF Goes, IInv, TypeOK, Shape, Told
  <2>5. TypeOK'
    BY <2>1, <2>2, <2>3 DEF Send, Goes, IInv, TypeOK
  <2>6. SilencedWereMailed'
    BY <2>3 DEF Send, IInv, SilencedWereMailed
  <2>7. \A t \in Servers : Shape(t)' /\ Told(t)'
    BY <2>2, <2>3, <2>4, OthersKeep
  <2> QED BY <2>5, <2>6, <2>7 DEF IInv
<1> QED BY <1>1, <1>2 DEF Send

LEMMA SentIInv ==
  ASSUME NEW s \in Servers, IInv, Sent(s)
  PROVE  IInv'
<1>1. CASE /\ run[s].sent
           /\ Goes(s, [run[s] EXCEPT !.phase = "set"])
           /\ UNCHANGED forgotten
  <2> DEFINE r == [run[s] EXCEPT !.phase = "set"]
  <2>1. /\ r \in Run
        /\ r.phase = "set" /\ r.owner = run[s].owner /\ r.now = run[s].now
        /\ r.sent = run[s].sent /\ r.mailed = run[s].mailed
    BY DEF IInv, TypeOK, Run
  <2>2. Goes(s, r)
    BY <1>1
  <2> HIDE DEF r
  <2>3. run[s].owner \in Owners /\ run[s].now \in Time
    BY DEF Sent, IInv, Shape
  <2>4. Shape(s)' /\ Told(s)'
    BY <1>1, <2>1, <2>2, <2>3 DEF Sent, Goes, IInv, TypeOK, Shape, Told
  <2> QED BY <1>1, <2>1, <2>2, <2>4, LocalStep DEF Sent, IInv, TypeOK
<1>2. CASE /\ ~run[s].sent
           /\ Leave(s, run[s].owner)
           /\ forgotten' = forgotten \cup Mailed(s)
  <2>1. Shape(s)' /\ Told(s)'
    BY <1>2, LeaveQuiet DEF Sent
  <2>2. forgotten' \subseteq Owners
    BY <1>2 DEF Mailed, Sent, IInv, TypeOK, Run, Shape
  <2> QED BY <1>2, <2>1, <2>2, LeaveType, LocalStep
          DEF Sent, Leave, IInv, TypeOK
<1> QED BY <1>1, <1>2 DEF Sent

LEMMA SetIInv ==
  ASSUME NEW s \in Servers, IInv, SetLastSent(s)
  PROVE  IInv'
<1> DEFINE o == run[s].owner
           now == run[s].now
<1>1. o \in Owners /\ now \in Time /\ run[s].mailed /\ <<s, now>> \in mails[o]
  BY DEF SetLastSent, IInv, Shape, Told
<1>2. Leave(s, o) /\ Shape(s)' /\ Told(s)'
  BY LeaveQuiet DEF SetLastSent
<1>3. lastSent' \in [Owners -> Time \cup {0}]
  <2>1. now \in Nat /\ Second <= now /\ now <= MaxTime
    BY <1>1, TimesAssumption DEF Time
  <2>2. InSeconds(now) \in Time
    BY <2>1, SecondsBound, SecondsPositive, TimesAssumption DEF Time
  <2> QED BY <2>2 DEF SetLastSent, IInv, TypeOK
<1>4. TypeOK'
  <2>1. run' \in [Servers -> Run]
    BY <1>2, LeaveType DEF Leave, Goes, IInv, TypeOK
  <2>2. forgotten' \subseteq Owners
    BY <1>1 DEF SetLastSent, IInv, TypeOK
  <2> QED BY <1>3, <2>1, <2>2 DEF SetLastSent, IInv, TypeOK
<1>5. SilencedWereMailed'
  <2> SUFFICES ASSUME NEW p \in Owners, lastSent'[p] # 0
               PROVE  \E m \in mails'[p] : InSeconds(m[2]) = lastSent'[p]
    BY DEF SilencedWereMailed
  <2>1. UNCHANGED mails
    BY DEF SetLastSent
  <2>2. CASE lastSent'[p] = lastSent[p]
    BY <2>1, <2>2 DEF IInv, SilencedWereMailed
  <2>3. CASE p = o /\ lastSent'[p] = InSeconds(now)
    <3>1. <<s, now>>[2] = now
      OBVIOUS
    <3> QED BY <1>1, <2>1, <2>3, <3>1
  <2> QED BY <2>2, <2>3 DEF SetLastSent, IInv, TypeOK
<1>6. \A t \in Servers : Shape(t)' /\ Told(t)'
  BY <1>2, OthersKeep DEF SetLastSent, Leave
<1> QED BY <1>4, <1>5, <1>6 DEF IInv

LEMMA NextIInv == IInv /\ [Next]_vars => IInv'
<1> SUFFICES ASSUME IInv, [Next]_vars PROVE IInv'
  OBVIOUS
<1>1. CASE UNCHANGED vars
  BY <1>1 DEF vars, history, IInv, TypeOK, Shape, Told, SilencedWereMailed
<1>2. CASE Tick
  <2>1. clock' \in Time
    BY <1>2, TimesAssumption DEF Tick, IInv, TypeOK, Time
  <2> QED BY <1>2, <2>1
          DEF Tick, history, IInv, TypeOK, Shape, Told, SilencedWereMailed
<1>3. ASSUME NEW s \in Servers, End(s) PROVE IInv'
  <2>1. Shape(s)' /\ Told(s)'
    BY <1>3, IdleQuiet DEF End
  <2> QED BY <1>3, <2>1, IdleType, LocalStep DEF End, history, IInv, TypeOK
<1>4. ASSUME NEW s \in Servers, Crash(s) PROVE IInv'
  <2>1. Shape(s)' /\ Told(s)'
    BY <1>4, IdleQuiet DEF Crash
  <2>2. forgotten' \subseteq Owners
    BY <1>4 DEF Crash, Mailed, IInv, TypeOK, Run, Shape
  <2> QED BY <1>4, <2>1, <2>2, IdleType, LocalStep DEF Crash, IInv, TypeOK
<1> QED BY <1>1, <1>2, <1>3, <1>4, StartIInv, SkipIInv, DueIInv, SendIInv,
           SentIInv, SetIInv DEF Next, RunStep

LEMMA IInvHolds == Spec => []IInv
BY InitIInv, NextIInv, PTL DEF Spec

(***************************************************************************)
(* Every variable keeps its type, and what is stored in CStore is a time   *)
(* (offlineNodesNotifier.go:86-88, 403-419).                               *)
(***************************************************************************)
THEOREM TypeCorrect == Spec => []TypeOK
<1>1. IInv => TypeOK
  BY DEF IInv
<1> QED BY <1>1, IInvHolds, PTL

(***************************************************************************)
(* An owner is left in peace only after a mail, for any number of servers  *)
(* and runs, whatever fails (offlineNodesNotifier.go:184-198).             *)
(***************************************************************************)
THEOREM SilencedMailed == Spec => []SilencedWereMailed
<1>1. IInv => SilencedWereMailed
  BY DEF IInv
<1> QED BY <1>1, IInvHolds, PTL

-----------------------------------------------------------------------------
(* How far mails are apart.                                                *)

\* What is known of an owner whose mailings never overlapped, and whose times
\* were all stored: at most one run is mailing him, and it found him due; all
\* mails but that run's are covered by the time that is stored.
Covered(o, m) == lastSent[o] # 0 /\ m[2] < lastSent[o] + Second

Mailing(s, o) == run[s].owner = o

Steady(o) ==
  /\ \A s, t \in Servers : Mailing(s, o) /\ Mailing(t, o) => s = t
  /\ \A s \in Servers : Mailing(s, o) => ~Recent(s, o)
  /\ \A m \in mails[o] :
       \/ Covered(o, m)
       \/ \E s \in Servers : /\ Mailing(s, o) /\ run[s].mailed
                            /\ m = <<s, run[s].now>>
  /\ \A m1, m2 \in mails[o] : ~Close(m1, m2)

SInv ==
  /\ IInv
  /\ \A o \in Owners \ (together \cup forgotten) : Steady(o)

\* A step that changes nothing about the owner.
LEMMA SteadyStays ==
  ASSUME NEW o \in Owners, Steady(o), lastSent'[o] = lastSent[o],
         mails'[o] = mails[o],
         \A s \in Servers :
           /\ Mailing(s, o)' => Mailing(s, o) /\ run'[s].now = run[s].now
           /\ Mailing(s, o) /\ run[s].mailed =>
                /\ Mailing(s, o)' /\ run'[s].mailed
                /\ run'[s].now = run[s].now
  PROVE  Steady(o)'
<1>1. \A s, t \in Servers : Mailing(s, o)' /\ Mailing(t, o)' => s = t
  BY DEF Steady
<1>2. \A s \in Servers : Mailing(s, o)' => ~Recent(s, o)'
  BY DEF Steady, Recent
<1>3. ASSUME NEW m \in mails'[o]
      PROVE  \/ Covered(o, m)'
             \/ \E s \in Servers : /\ Mailing(s, o)' /\ run'[s].mailed
                                  /\ m = <<s, run'[s].now>>
  BY <1>3 DEF Steady, Covered
<1>4. \A m1, m2 \in mails'[o] : ~Close(m1, m2)
  BY DEF Steady
<1> QED BY <1>1, <1>2, <1>3, <1>4 DEF Steady, Close

LEMMA InitSInv == Init => SInv
<1> SUFFICES ASSUME Init, NEW o \in Owners PROVE Steady(o)
  BY InitIInv DEF SInv
<1>1. mails[o] = {} /\ \A s \in Servers : run[s].owner = None
  BY DEF Init, Idle
<1> QED BY <1>1, OwnersAssumption DEF Steady, Mailing

\* A step of s, whatever it does, leaves the locals of the others alone.
LEMMA OthersMailing ==
  ASSUME NEW s \in Servers, NEW r, Goes(s, r), TypeOK
  PROVE  /\ run'[s] = r
         /\ \A t \in Servers \ {s} : run'[t] = run[t]
BY DEF Goes, TypeOK

\* A run that has mailed nobody goes on to another owner, or ends.
LEMMA SteadyQuiet ==
  ASSUME NEW s \in Servers, NEW o \in Owners, NEW r, IInv, Goes(s, r),
         r.owner = None, ~(run[s].owner = o /\ run[s].mailed),
         UNCHANGED <<lastSent, mails>>, Steady(o)
  PROVE  Steady(o)'
<1>1. r.owner # o
  BY OwnersAssumption
<1>2. /\ run'[s] = r
      /\ \A t \in Servers \ {s} : run'[t] = run[t]
  BY OthersMailing DEF IInv
<1> QED BY <1>1, <1>2, SteadyStays DEF Mailing

LEMMA DueSteady ==
  ASSUME NEW s \in Servers, NEW p \in Owners, NEW emails \in SUBSET Emails,
         NEW o \in Owners, IInv, Due(s, p, emails), Steady(o),
         o \notin together'
  PROVE  Steady(o)'
<1> DEFINE r == [run[s] EXCEPT !.phase = "send", !.owner = p, !.left = emails]
<1>1. /\ r.owner = p /\ r.now = run[s].now /\ ~r.mailed
      /\ ~run[s].mailed /\ run[s].owner = None
  BY DEF Due, IInv, TypeOK, Run, Shape
<1>2. Goes(s, r)
  BY DEF Due
<1> HIDE DEF r
<1>3. /\ run'[s] = r
      /\ \A t \in Servers \ {s} : run'[t] = run[t]
  BY <1>2, OthersMailing DEF IInv
<1>4. UNCHANGED <<lastSent, mails>>
  BY DEF Due
<1>5. CASE o # p
  BY <1>1, <1>3, <1>4, <1>5, OwnersAssumption, SteadyStays DEF Mailing
<1>6. CASE o = p
  <2>1. \A t \in Servers : ~Mailing(t, o)
    <3>1. together' = together \cup InMailing(o)
      BY <1>6 DEF Due
    <3> QED BY <3>1 DEF InMailing, Mailing
  <2>2. \A t \in Servers : Mailing(t, o)' => t = s
    BY <1>3, <2>1 DEF Mailing
  <2>3. ~Recent(s, o)'
    <3>1. ~Recent(s, o)
      BY <1>6 DEF Due
    <3> QED BY <1>1, <1>3, <1>4, <3>1 DEF Recent
  <2>4. \A m \in mails'[o] : Covered(o, m)'
    BY <1>4, <2>1 DEF Steady, Covered
  <2>5. \A m1, m2 \in mails'[o] : ~Close(m1, m2)
    BY <1>4 DEF Steady
  <2> QED BY <2>2, <2>3, <2>4, <2>5 DEF Steady, Close
<1> QED BY <1>5, <1>6

\* A mail of a run that found the owner due is far from the ones before.
LEMMA FarApart ==
  ASSUME NEW s \in Servers, NEW o \in Owners, IInv, run[s].now \in Time,
         ~Recent(s, o), NEW m \in mails[o], Covered(o, m)
  PROVE  /\ ~Close(<<s, run[s].now>>, m)
         /\ ~Close(m, <<s, run[s].now>>)
<1>1. /\ lastSent[o] \in Int /\ m[2] \in Int /\ run[s].now \in Int
      /\ Interval \in Int /\ Second \in Nat \ {0} /\ Interval \in Nat \ {0}
  BY TimesAssumption DEF IInv, TypeOK, Time
<1>2. /\ m[2] < lastSent[o] + Second
      /\ run[s].now - lastSent[o] >= Interval
  BY <1>1 DEF Covered, Recent
<1>3. <<s, run[s].now>>[2] = run[s].now
  OBVIOUS
<1>4. run[s].now - m[2] > Interval - Second
  BY <1>1, <1>2
<1>5. m[2] - run[s].now < Second - Interval
  BY <1>1, <1>2
<1>6. m[2] - run[s].now \notin 0..(Interval - Second)
  BY <1>1, <1>5
<1>7. run[s].now - m[2] \notin 0..(Interval - Second)
  BY <1>1, <1>4
<1> QED BY <1>3, <1>6, <1>7 DEF Close

LEMMA SendSteady ==
  ASSUME NEW s \in Servers, NEW email \in Emails, NEW o \in Owners, IInv,
         Send(s, email), Steady(o)
  PROVE  Steady(o)'
<1> DEFINE n == <<s, run[s].now>>
<1>0. run[s].now \in Time
  BY DEF Send, IInv, Shape
<1>1. /\ run'[s].owner = run[s].owner /\ run'[s].now = run[s].now
      /\ run[s].mailed => run'[s].mailed
      /\ \A t \in Servers \ {s} : run'[t] = run[t]
      /\ UNCHANGED lastSent
      /\ \/ mails' = mails
         \/ /\ run'[s].mailed
            /\ mails' = [mails EXCEPT ![run[s].owner] = @ \cup {n}]
  <2> DEFINE r == [run[s] EXCEPT !.left = @ \ {email}]
             q(answered) == [run[s] EXCEPT !.left = @ \ {email},
                                           !.mailed = TRUE,
                                           !.sent = @ \/ answered]
  <2>1. /\ r.owner = run[s].owner /\ r.now = run[s].now
        /\ r.mailed = run[s].mailed
        /\ \A answered \in BOOLEAN :
             /\ q(answered).owner = run[s].owner
             /\ q(answered).now = run[s].now
             /\ q(answered).mailed
    BY DEF IInv, TypeOK, Run
  <2>2. \/ Goes(s, r) /\ mails' = mails
        \/ /\ \E answered \in BOOLEAN : Goes(s, q(answered))
           /\ mails' = [mails EXCEPT ![run[s].owner] = @ \cup {n}]
    BY DEF Send
  <2>3. UNCHANGED lastSent
    BY DEF Send
  <2> HIDE DEF r, q, n
  <2>4. CASE Goes(s, r) /\ mails' = mails
    BY <2>1, <2>3, <2>4, OthersMailing DEF IInv
  <2>5. CASE /\ \E answered \in BOOLEAN : Goes(s, q(answered))
             /\ mails' = [mails EXCEPT ![run[s].owner] = @ \cup {n}]
    <3>1. PICK answered \in BOOLEAN : Goes(s, q(answered))
      BY <2>5
    <3> QED BY <2>1, <2>3, <2>5, <3>1, OthersMailing DEF IInv
  <2> QED BY <2>2, <2>4, <2>5
<1>2. CASE mails'[o] = mails[o]
  BY <1>1, <1>2, SteadyStays DEF Mailing
<1>3. CASE /\ run[s].owner = o /\ run'[s].mailed
           /\ mails'[o] = mails[o] \cup {n}
  <2>1. \A m \in mails[o] : Covered(o, m) \/ m = n
    BY <1>3 DEF Steady, Mailing
  <2>2. ~Recent(s, o)
    BY <1>3 DEF Steady, Mailing
  <2>3. \A m \in mails[o] : ~Close(n, m) /\ ~Close(m, n)
    <3> SUFFICES ASSUME NEW m \in mails[o]
                 PROVE  ~Close(n, m) /\ ~Close(m, n)
      OBVIOUS
    <3>1. CASE m = n
      BY <3>1 DEF Close
    <3>2. CASE Covered(o, m)
      BY <1>0, <2>2, <3>2, FarApart
    <3> QED BY <2>1, <3>1, <3>2
  <2>4. \A m1, m2 \in mails'[o] : ~Close(m1, m2)
    <3>1. ~Close(n, n)
      BY DEF Close
    <3> QED BY <1>3, <2>3, <3>1 DEF Steady
  <2>5. \A m \in mails'[o] :
          \/ Covered(o, m)'
          \/ /\ Mailing(s, o)' /\ run'[s].mailed
             /\ m = <<s, run'[s].now>>
    BY <1>1, <1>3, <2>1 DEF Covered, Mailing
  <2>6. \A t \in Servers : Mailing(t, o)' => Mailing(t, o) /\ ~Recent(t, o)'
    BY <1>1 DEF Steady, Mailing, Recent
  <2> QED BY <2>4, <2>5, <2>6 DEF Steady, Close
<1>4. \/ mails'[o] = mails[o]
      \/ /\ run[s].owner = o /\ run'[s].mailed
         /\ mails'[o] = mails[o] \cup {n}
  <2> HIDE DEF n
  <2> QED BY <1>1 DEF IInv, TypeOK
<1> QED BY <1>2, <1>3, <1>4

LEMMA SetSteady ==
  ASSUME NEW s \in Servers, NEW o \in Owners, IInv, SetLastSent(s), Steady(o),
         o \notin forgotten'
  PROVE  Steady(o)'
<1> DEFINE now == run[s].now
<1>1. now \in Time /\ run[s].mailed
  BY DEF SetLastSent, IInv, Shape
<1>2. /\ run'[s].owner = None
      /\ \A t \in Servers \ {s} : run'[t] = run[t]
      /\ UNCHANGED mails
  BY DEF SetLastSent, Leave, Goes, Idle, IInv, TypeOK
<1>3. CASE run[s].owner # o
  <2>1. lastSent'[o] = lastSent[o]
    BY <1>3 DEF SetLastSent, IInv, TypeOK
  <2> QED BY <1>2, <1>3, <2>1, OwnersAssumption, SteadyStays DEF Mailing
<1>4. CASE run[s].owner = o
  <2>1. lastSent'[o] = InSeconds(now)
    BY <1>4 DEF SetLastSent, IInv, TypeOK
  <2>2. \A t \in Servers : ~Mailing(t, o)'
    BY <1>2, <1>4, OwnersAssumption DEF Steady, Mailing
  <2>3. /\ now \in Nat /\ Second <= now /\ Second \in Nat \ {0}
        /\ Interval \in Nat \ {0} /\ lastSent[o] \in Nat
    BY <1>1, TimesAssumption DEF Time, IInv, TypeOK
  <2>4. /\ InSeconds(now) \in Nat /\ InSeconds(now) # 0
        /\ now < InSeconds(now) + Second
    BY <2>3, SecondsBound, SecondsPositive
  <2>5. lastSent[o] # 0 => lastSent[o] <= InSeconds(now)
    <3> SUFFICES ASSUME lastSent[o] # 0 PROVE lastSent[o] <= InSeconds(now)
      OBVIOUS
    <3>1. PICK m \in mails[o] : InSeconds(m[2]) = lastSent[o]
      BY DEF IInv, SilencedWereMailed
    <3>2. m[2] \in Nat
      BY TimesAssumption DEF IInv, TypeOK, Time
    <3>3. lastSent[o] <= now
      <4>1. ~Recent(s, o)
        BY <1>4 DEF Steady, Mailing
      <4> QED BY <2>3, <4>1 DEF Recent
    <3> QED BY <2>3, <3>1, <3>2, <3>3, SecondsMonotone
  <2>6. ASSUME NEW m \in mails'[o] PROVE Covered(o, m)'
    <3>0. m \in mails[o] /\ m[2] \in Int
      BY <1>2, <2>6, TimesAssumption DEF IInv, TypeOK, Time
    <3>1. CASE Covered(o, m)
      BY <2>1, <2>3, <2>4, <2>5, <3>0, <3>1 DEF Covered
    <3>2. CASE m = <<s, now>>
      BY <2>1, <2>4, <3>2 DEF Covered
    <3> QED BY <1>4, <3>0, <3>1, <3>2 DEF Steady, Mailing
  <2>7. \A m1, m2 \in mails'[o] : ~Close(m1, m2)
    BY <1>2 DEF Steady
  <2> QED BY <2>2, <2>6, <2>7 DEF Steady, Close
<1> QED BY <1>3, <1>4

LEMMA NextSInv == SInv /\ [Next]_vars => SInv'
<1> SUFFICES ASSUME SInv, [Next]_vars, NEW o \in Owners,
                    o \notin together', o \notin forgotten'
             PROVE  Steady(o)'
  BY NextIInv DEF SInv
<1>1. IInv
  BY DEF SInv
<1>2. together \subseteq together' /\ forgotten \subseteq forgotten'
  BY DEF Next, RunStep, Tick, Start, Skip, Due, Send, Sent, SetLastSent, End,
         Crash, history, vars
<1>3. Steady(o)
  BY <1>2 DEF SInv
<1>4. CASE UNCHANGED vars \/ Tick
  <2>1. UNCHANGED <<lastSent, run, mails>>
    BY <1>4 DEF vars, Tick, history
  <2> QED BY <1>3, <2>1, SteadyStays DEF Mailing
<1>5. ASSUME NEW s \in Servers, Start(s) PROVE Steady(o)'
  <2>1. PICK due \in DueSets :
          Goes(s, [Idle EXCEPT !.phase = "loop", !.now = clock, !.due = due])
    BY <1>5 DEF Start
  <2> DEFINE r == [Idle EXCEPT !.phase = "loop", !.now = clock, !.due = due]
  <2>2. Goes(s, r) /\ r.owner = None /\ ~run[s].mailed
    BY <1>1, <1>5, <2>1 DEF Idle, Start, IInv, Shape
  <2> QED BY <1>1, <1>3, <1>5, <2>2, SteadyQuiet DEF Start, history
<1>6. ASSUME NEW s \in Servers, NEW p, Leave(s, p),
             ~(run[s].owner = o /\ run[s].mailed),
             UNCHANGED <<lastSent, mails>>
      PROVE  Steady(o)'
  <2> DEFINE r == [Idle EXCEPT !.phase = "loop", !.now = run[s].now,
                               !.due = run[s].due \ {p}]
  <2>1. Goes(s, r) /\ r.owner = None
    BY <1>6 DEF Leave, Idle
  <2> QED BY <1>1, <1>3, <1>6, <2>1, SteadyQuiet
<1>7. ASSUME NEW s \in Servers, NEW p \in Owners, Skip(s, p)
      PROVE  Steady(o)'
  BY <1>1, <1>6, <1>7 DEF Skip, history, IInv, Shape
<1>8. ASSUME NEW s \in Servers, Sent(s) PROVE Steady(o)'
  <2>1. CASE Goes(s, [run[s] EXCEPT !.phase = "set"])
    <3>1. /\ run'[s].owner = run[s].owner /\ run'[s].now = run[s].now
          /\ run'[s].mailed = run[s].mailed
          /\ \A t \in Servers \ {s} : run'[t] = run[t]
      BY <1>1, <2>1 DEF Goes, IInv, TypeOK, Run
    <3> QED BY <1>3, <1>8, <3>1, SteadyStays DEF Sent, Mailing
  <2>2. CASE /\ Leave(s, run[s].owner)
             /\ forgotten' = forgotten \cup Mailed(s)
    <3>1. ~(run[s].owner = o /\ run[s].mailed)
      BY <2>2 DEF Mailed
    <3> QED BY <1>6, <1>8, <2>2, <3>1 DEF Sent
  <2> QED BY <1>8, <2>1, <2>2 DEF Sent
<1>9. ASSUME NEW s \in Servers, End(s) \/ Crash(s) PROVE Steady(o)'
  <2>1. Goes(s, Idle) /\ Idle.owner = None /\ UNCHANGED <<lastSent, mails>>
    BY <1>9 DEF End, Crash, Idle, history
  <2>2. ~(run[s].owner = o /\ run[s].mailed)
    BY <1>1, <1>9 DEF End, Crash, Mailed, IInv, Shape
  <2> QED BY <1>1, <1>3, <2>1, <2>2, SteadyQuiet
<1> QED BY <1>1, <1>3, <1>4, <1>5, <1>7, <1>8, <1>9, DueSteady, SendSteady,
           SetSteady DEF Next, RunStep

(***************************************************************************)
(* No owner is mailed twice within the interval less a second, by any      *)
(* number of servers, but for runs that overlap on him and times that were *)
(* not stored (offlineNodesNotifier.go:168-199), be it that every answer   *)
(* of the mail service was lost.                                           *)
(***************************************************************************)
THEOREM MailsAreSpaced == Spec => []MailsSpaced
<1>1. SInv => MailsSpaced
  BY DEF SInv, Steady, MailsSpaced
<1> QED BY <1>1, InitSInv, NextSInv, PTL DEF Spec
=============================================================================
