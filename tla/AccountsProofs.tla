--------------------------- MODULE AccountsProofs ---------------------------
(***************************************************************************)
(* Proofs about Accounts: type correctness, and that whatever stale rows   *)
(* are saved, addresses in use were opened, e-mails are distinct, an       *)
(* account without its row of kycs was cut off, or was told of success     *)
(* without it, and a deleted notification                                  *)
(* address comes back only from a copy read before; for any number of      *)
(* requests, addresses and e-mails.                                        *)
(***************************************************************************)
EXTENDS Accounts, TLAPS

-----------------------------------------------------------------------------
(* The inductive invariant: what holds of a row holds of every copy of it. *)

\* A row of address a that is confirmed has had its link opened.
Shown(a, row) ==
  row.confirmed => [address |-> a, email |-> row.email] \in opened

\* The e-mail of a row that is confirmed is in kycs, or will be, or the
\* request that should have put it there was cut off, or could not look.
Backed(a, row) ==
  row.confirmed =>
    \/ row.email \in kycs
    \/ a \in cut \cup unread
    \/ \E p \in Requests : /\ request[p].phase = "kyc"
                           /\ request[p].address = a
                           /\ request[p].email = row.email

\* What request q holds of an account is backed.
CopyBacked(q) == Backed(request[q].address, request[q].account)

RequestInv(r) ==
  r.phase # "idle" =>
    /\ r.address \in Addresses
    /\ r.phase # "seller" => r.email \in Emails
    /\ Shown(r.address, r.account)
    /\ Shown(r.address, r.notice)
    /\ r.phase = "register" => ~r.account.confirmed
    /\ r.phase = "confirm" => r.account.email = r.email
    /\ r.phase = "confirmNotice" =>
         [address |-> r.address, email |-> r.email] \in opened
    /\ r.phase = "seller" => Backed(r.address, r.account)

IInv ==
  /\ TypeOK
  /\ EmailsDistinct
  /\ \A a \in Addresses : /\ Shown(a, accounts[a])
                          /\ Shown(a, notices[a])
                          /\ Backed(a, accounts[a])
  /\ \A q \in Requests : RequestInv(request[q])

-----------------------------------------------------------------------------
(* Type correctness.                                                       *)

LEMMA Empty ==
  NoAccount \in Account /\ NoNotice \in Notice /\ Idle \in Request
<1>1. NoAccount \in Account
  BY DEF NoAccount, Account
<1>2. NoNotice \in Notice
  BY DEF NoNotice, Notice
<1> QED BY <1>1, <1>2 DEF Idle, Request, Phases

LEMMA InitTypeOK == Init => TypeOK
<1> SUFFICES ASSUME Init PROVE TypeOK OBVIOUS
<1>1. /\ accounts \in [Addresses -> Account]
      /\ notices \in [Addresses -> Notice]
      /\ request \in [Requests -> Request]
  BY Empty DEF Init
<1>2. count \in [Addresses -> 0..(MaxMails - 1)] /\ faults \in 0..MaxFaults
  BY BoundsAssumption DEF Init
<1>3. kycs \subseteq Emails /\ links \subseteq Link /\ opened \subseteq links
      /\ cut \subseteq Addresses /\ unread \subseteq Addresses
      /\ outdated \subseteq Requests
  BY DEF Init
<1> QED BY <1>1, <1>2, <1>3 DEF TypeOK

\* The locals of a request that goes on in another phase.
LEMMA Locals ==
  ASSUME NEW r \in Request, NEW phase \in Phases
  PROVE  /\ [r EXCEPT !.phase = phase] \in Request
         /\ \A row \in Account :
              [r EXCEPT !.phase = phase, !.account = row] \in Request
         /\ \A row \in Notice :
              [r EXCEPT !.phase = phase, !.notice = row] \in Request
BY DEF Request

LEMMA NewLocals ==
  ASSUME NEW phase \in Phases, NEW a \in Addresses, NEW e \in Emails \cup {None}
  PROVE  /\ For(phase, a, e) \in Request
         /\ \A row \in Account :
              [For(phase, a, e) EXCEPT !.account = row] \in Request
BY Empty DEF For, Request, Idle

LEMMA ConfirmedRow ==
  ASSUME NEW e \in Emails
  PROVE  /\ \A row \in Account : Confirmed(row, e) \subseteq Account
         /\ \A row \in Notice : Confirmed(row, e) \subseteq Notice
BY DEF Confirmed, Account, Notice

LEMMA StepTypeOK ==
  ASSUME TypeOK, NEW q \in Requests, NEW r \in Request, Step(q, r)
  PROVE  request' \in [Requests -> Request]
BY DEF TypeOK, Step

LEMMA GoTypeOK ==
  ASSUME TypeOK, NEW q \in Requests
  PROVE  /\ \A phase \in Phases :
              Go(q, phase) => request' \in [Requests -> Request]
         /\ Answer(q) => request' \in [Requests -> Request]
<1>1. request[q] \in Request
  BY DEF TypeOK
<1> QED BY <1>1, Locals, Empty, StepTypeOK DEF Go, Answer

LEMMA UpdateAccountTypeOK ==
  ASSUME TypeOK, NEW q \in Requests, NEW next \in Request,
         request[q].address \in Addresses, UpdateAccount(q, next)
  PROVE  /\ accounts' \in [Addresses -> Account]
         /\ request' \in [Requests -> Request]
<1>1. request[q].account \in Account
  BY DEF TypeOK, Request
<1>2. [next EXCEPT !.account = NoAccount] \in Request
  BY Empty DEF Request
<1> QED
  BY <1>1, <1>2, StepTypeOK, GoTypeOK DEF UpdateAccount, TypeOK

LEMMA RegisterTypeOK ==
  ASSUME TypeOK, NEW q \in Requests, RegisterStep(q),
         RequestInv(request[q])
  PROVE  TypeOK'
<1> DEFINE r == request[q]
<1>1. r \in Request
  BY DEF TypeOK
<1>2. r.phase # "idle" => r.address \in Addresses
  BY DEF RequestInv
<1>3. ASSUME NEW e \in Emails, NEW a \in Addresses,
             RegisterEmail(q, a, e) \/ RegisterNotificationEmail(q, a, e)
      PROVE  TypeOK'
  <2>1. For("look", a, e) \in Request /\ For("notice", a, e) \in Request
    BY NewLocals DEF Phases
  <2> QED
    BY <1>3, <2>1, StepTypeOK
       DEF RegisterEmail, RegisterNotificationEmail, TypeOK
<1>4. CASE LookUpAccount(q)
  <2>1. [accounts[r.address] EXCEPT !.pending = r.email] \in Account
    BY <1>1, <1>2, <1>4 DEF LookUpAccount, TypeOK, Account, Request
  <2>2. [r EXCEPT !.phase = "register",
           !.account = [accounts[r.address] EXCEPT !.pending = r.email]]
          \in Request
    BY <1>1, <2>1, Locals DEF Phases
  <2>3. request' \in [Requests -> Request]
    BY <1>4, <2>2, StepTypeOK, GoTypeOK DEF LookUpAccount
  <2> QED BY <1>4, <2>3 DEF LookUpAccount, TypeOK
<1>5. CASE SavePending(q)
  <2>1. [r EXCEPT !.phase = "count"] \in Request
    BY <1>1, Locals DEF Phases
  <2>2. /\ accounts' \in [Addresses -> Account]
        /\ request' \in [Requests -> Request]
    BY <1>2, <1>5, <2>1, UpdateAccountTypeOK DEF SavePending
  <2> QED BY <1>5, <2>2 DEF SavePending, TypeOK
<1>6. CASE IncreaseEmailCount(q)
  <2>1. request' \in [Requests -> Request]
    BY <1>6, GoTypeOK DEF IncreaseEmailCount, Phases
  <2>2. count[r.address] + 1 # MaxMails =>
          count[r.address] + 1 \in 0..(MaxMails - 1)
    BY <1>2, <1>6, BoundsAssumption DEF IncreaseEmailCount, TypeOK
  <2>3. count' \in [Addresses -> 0..(MaxMails - 1)]
    BY <1>2, <1>6, <2>2 DEF IncreaseEmailCount, TypeOK
  <2> QED BY <1>6, <2>1, <2>3 DEF IncreaseEmailCount, TypeOK
<1>7. CASE LookUpNotice(q)
  <2>1. [notices[r.address] EXCEPT !.exists = TRUE, !.pending = r.email]
          \in Notice
    BY <1>1, <1>2, <1>7 DEF LookUpNotice, TypeOK, Notice, Request
  <2>2. [r EXCEPT !.phase = "note",
           !.notice = [notices[r.address] EXCEPT !.exists = TRUE,
                                                 !.pending = r.email]]
          \in Request
    BY <1>1, <2>1, Locals DEF Phases
  <2>3. request' \in [Requests -> Request]
    BY <1>7, <2>2, StepTypeOK, GoTypeOK DEF LookUpNotice
  <2> QED BY <1>7, <2>3 DEF LookUpNotice, TypeOK
<1>8. CASE SaveNotice(q)
  <2>1. [r EXCEPT !.phase = "send", !.notice = NoNotice] \in Request
    BY <1>1, Locals, Empty DEF Phases
  <2>2. request' \in [Requests -> Request]
    BY <1>8, <2>1, StepTypeOK, GoTypeOK DEF SaveNotice
  <2>3. notices' \in [Addresses -> Notice]
    BY <1>1, <1>8 DEF SaveNotice, TypeOK, Request
  <2> QED BY <1>8, <2>2, <2>3 DEF SaveNotice, TypeOK
<1>9. CASE SendConfirmEmail(q)
  <2>1. [address |-> r.address, email |-> r.email] \in Link
    BY <1>2, <1>9 DEF SendConfirmEmail, RequestInv, Link
  <2>2. request' \in [Requests -> Request]
    BY <1>9, GoTypeOK DEF SendConfirmEmail
  <2> QED BY <1>9, <2>1, <2>2 DEF SendConfirmEmail, TypeOK
<1> QED
  BY <1>3, <1>4, <1>5, <1>6, <1>7, <1>8, <1>9, UsersAssumption
     DEF RegisterStep

LEMMA ConfirmTypeOK ==
  ASSUME TypeOK, NEW q \in Requests, ConfirmStep(q), RequestInv(request[q])
  PROVE  TypeOK'
<1> DEFINE r == request[q]
<1>1. r \in Request
  BY DEF TypeOK
<1>2. r.phase \notin {"idle", "seller"} =>
        r.address \in Addresses /\ r.email \in Emails
  BY DEF RequestInv
<1>3. ASSUME NEW l \in links, ConfirmEmail(q, l) PROVE TypeOK'
  <2>1. l.address \in Addresses /\ l.email \in Emails
    BY DEF TypeOK, Link
  <2> DEFINE read == For("confirmNotice", l.address, l.email)
  <2>2. /\ read \in Request
        /\ \A new \in Account :
             [read EXCEPT !.phase = "confirm", !.account = new] \in Request
    BY <2>1, NewLocals, Locals DEF Phases
  <2>3. Confirmed(accounts[l.address], l.email) \subseteq Account
    BY <2>1, ConfirmedRow DEF TypeOK
  <2>4. request' \in [Requests -> Request]
    <3>1. CASE UNCHANGED request
      BY <3>1 DEF TypeOK
    <3>2. ASSUME NEW new \in Confirmed(accounts[l.address], l.email),
                 Step(q, [read EXCEPT !.phase = "confirm", !.account = new])
          PROVE  request' \in [Requests -> Request]
      BY <2>2, <2>3, <3>2, StepTypeOK
    <3>3. CASE Step(q, read)
      BY <2>2, <3>3, StepTypeOK
    <3> QED BY <1>3, <3>1, <3>2, <3>3 DEF ConfirmEmail
  <2> QED BY <1>3, <2>4 DEF ConfirmEmail, TypeOK
<1>4. CASE SaveConfirmed(q)
  <2>1. [r EXCEPT !.phase = "kyc"] \in Request
    BY <1>1, Locals DEF Phases
  <2>2. /\ accounts' \in [Addresses -> Account]
        /\ request' \in [Requests -> Request]
    BY <1>2, <1>4, <2>1, UpdateAccountTypeOK DEF SaveConfirmed
  <2> QED BY <1>4, <2>2 DEF SaveConfirmed, TypeOK
<1>5. CASE StoreKyc(q)
  <2>1. request' \in [Requests -> Request]
    BY <1>5, GoTypeOK DEF StoreKyc
  <2> QED BY <1>2, <1>5, <2>1 DEF StoreKyc, TypeOK
<1>6. CASE SkipKyc(q)
  <2>1. request' \in [Requests -> Request]
    BY <1>6, GoTypeOK DEF SkipKyc
  <2>2. faults' \in 0..MaxFaults
    BY <1>6, BoundsAssumption DEF SkipKyc, TypeOK
  <2> QED BY <1>2, <1>6, <2>1, <2>2 DEF SkipKyc, TypeOK
<1>7. CASE ConfirmNotice(q)
  <2>1. Confirmed(notices[r.address], r.email) \cup {notices[r.address]}
          \subseteq Notice
    BY <1>2, <1>7, ConfirmedRow DEF ConfirmNotice, TypeOK
  <2>2. \A n \in Notice :
          [r EXCEPT !.phase = "confirmNote", !.notice = n] \in Request
    BY <1>1, Locals DEF Phases
  <2>3. CASE Answer(q)
    BY <1>7, <2>3, GoTypeOK DEF ConfirmNotice, TypeOK
  <2>4. ASSUME NEW n \in Notice,
               Step(q, [r EXCEPT !.phase = "confirmNote", !.notice = n])
        PROVE  TypeOK'
    <3>1. request' \in [Requests -> Request]
      BY <2>2, <2>4, StepTypeOK
    <3> QED BY <1>7, <3>1 DEF ConfirmNotice, TypeOK
  <2> QED BY <1>7, <2>1, <2>3, <2>4 DEF ConfirmNotice
<1> QED BY <1>3, <1>4, <1>5, <1>6, <1>7 DEF ConfirmStep

LEMMA SellerTypeOK ==
  ASSUME TypeOK, NEW q \in Requests, SellerStep(q), RequestInv(request[q])
  PROVE  TypeOK'
<1>1. ASSUME NEW a \in Addresses, AddSellerCode(q, a) PROVE TypeOK'
  <2>1. [accounts[a] EXCEPT !.seller = TRUE] \in Account
    BY DEF TypeOK, Account
  <2>2. [For("seller", a, None) EXCEPT
           !.account = [accounts[a] EXCEPT !.seller = TRUE]] \in Request
    BY <2>1, NewLocals DEF Phases
  <2>3. request' \in [Requests -> Request]
    BY <1>1, <2>2, StepTypeOK DEF AddSellerCode
  <2> QED BY <1>1, <2>3 DEF AddSellerCode, TypeOK
<1>2. CASE SaveSellerCode(q)
  <2>1. request[q].address \in Addresses
    BY <1>2 DEF SaveSellerCode, RequestInv
  <2>2. /\ accounts' \in [Addresses -> Account]
        /\ request' \in [Requests -> Request]
    BY <1>2, <2>1, Empty, UpdateAccountTypeOK DEF SaveSellerCode
  <2> QED BY <1>2, <2>2 DEF SaveSellerCode, TypeOK
<1> QED BY <1>1, <1>2, UsersAssumption DEF SellerStep

LEMMA NextTypeOK ==
  TypeOK /\ (\A q \in Requests : RequestInv(request[q])) /\ [Next]_vars
    => TypeOK'
<1> SUFFICES ASSUME TypeOK, \A q \in Requests : RequestInv(request[q]),
                    [Next]_vars
             PROVE  TypeOK'
  OBVIOUS
<1>1. CASE UNCHANGED vars
  BY <1>1 DEF vars, TypeOK
<1>2. ASSUME NEW a \in Addresses, CreateAccount(a) PROVE TypeOK'
  <2>1. [accounts[a] EXCEPT !.exists = TRUE] \in Account
    BY DEF TypeOK, Account
  <2>2. accounts' = [accounts EXCEPT ![a] =
                       [accounts[a] EXCEPT !.exists = TRUE]]
    BY <1>2 DEF CreateAccount, TypeOK
  <2> QED BY <1>2, <2>1, <2>2 DEF CreateAccount, TypeOK
<1>3. ASSUME NEW a \in Noted, DeleteNotificationEmail(a) PROVE TypeOK'
  BY <1>3, Empty DEF DeleteNotificationEmail, TypeOK
<1>4. ASSUME NEW q \in Requests,
             RegisterStep(q) \/ ConfirmStep(q) \/ SellerStep(q)
      PROVE  TypeOK'
  BY <1>4, RegisterTypeOK, ConfirmTypeOK, SellerTypeOK
<1>5. ASSUME NEW Q \in SUBSET Requests PROVE CutOff(Q) \subseteq Addresses
  BY DEF CutOff, TypeOK, RequestInv
<1>6. ASSUME NEW q \in Requests, Fail(q) PROVE TypeOK'
  <2>1. request' \in [Requests -> Request] /\ cut' \subseteq Addresses
    BY <1>5, <1>6, GoTypeOK DEF Fail
  <2>2. faults' \in 0..MaxFaults
    BY <1>6, BoundsAssumption DEF Fail, TypeOK
  <2> QED BY <1>6, <2>1, <2>2 DEF Fail, TypeOK
<1>7. CASE Restart
  <2>1. /\ request' \in [Requests -> Request] /\ cut' \subseteq Addresses
        /\ count' \in [Addresses -> 0..(MaxMails - 1)]
        /\ faults' \in 0..MaxFaults
    BY <1>5, <1>7, Empty, BoundsAssumption DEF Restart, TypeOK
  <2> QED BY <1>7, <2>1 DEF Restart, TypeOK
<1> QED BY <1>1, <1>2, <1>3, <1>4, <1>6, <1>7 DEF Next

-----------------------------------------------------------------------------
(* The invariant is inductive.                                             *)

LEMMA InitIInv == Init => IInv
<1> SUFFICES ASSUME Init PROVE IInv OBVIOUS
<1>1. EmailsDistinct
  BY DEF Init, NoAccount, EmailsDistinct
<1>2. \A a \in Addresses : /\ Shown(a, accounts[a])
                           /\ Shown(a, notices[a])
                           /\ Backed(a, accounts[a])
  BY DEF Init, NoAccount, NoNotice, Shown, Backed
<1>3. \A q \in Requests : RequestInv(request[q])
  BY DEF Init, Idle, RequestInv
<1> QED BY <1>1, <1>2, <1>3, InitTypeOK DEF IInv

\* The steps that take nothing back: a request about to make a row of kycs
\* goes on waiting, makes it, or is cut off.
Onward ==
  /\ opened \subseteq opened' /\ kycs \subseteq kycs'
  /\ cut \cup unread \subseteq cut' \cup unread'
  /\ \A p \in Requests :
       request[p].phase = "kyc" => \/ request'[p] = request[p]
                                   \/ request[p].email \in kycs'
                                   \/ request[p].address \in cut' \cup unread'

\* After such a step a link is opened, and a row backed, as before.
LEMMA ShownKept ==
  ASSUME Onward, NEW l \in opened
  PROVE  l \in opened'
BY DEF Onward

LEMMA BackedKept ==
  ASSUME Onward, NEW a, NEW e,
         \/ e \in kycs
         \/ a \in cut \cup unread
         \/ \E p \in Requests : /\ request[p].phase = "kyc"
                                /\ request[p].address = a
                                /\ request[p].email = e
  PROVE  \/ e \in kycs'
         \/ a \in cut' \cup unread'
         \/ \E p \in Requests : /\ request'[p].phase = "kyc"
                                /\ request'[p].address = a
                                /\ request'[p].email = e
BY DEF Onward

\* A request that took no part, or has been answered.
LEMMA RequestKept ==
  ASSUME IInv, Onward, NEW q \in Requests,
         request'[q] = request[q] \/ request'[q].phase = "idle"
  PROVE  RequestInv(request[q])'
<1>1. CASE request'[q].phase = "idle"
  BY <1>1 DEF RequestInv
<1>2. CASE request'[q] = request[q]
  <2>1. RequestInv(request[q])
    BY DEF IInv
  <2>2. request[q].phase # "idle" =>
          Shown(request[q].address, request[q].account)'
    BY <1>2, <2>1, ShownKept DEF RequestInv, Shown
  <2>3. request[q].phase # "idle" =>
          Shown(request[q].address, request[q].notice)'
    BY <1>2, <2>1, ShownKept DEF RequestInv, Shown
  <2>4. request[q].phase = "seller" =>
          Backed(request[q].address, request[q].account)'
    <3>1. SUFFICES ASSUME request[q].phase = "seller",
                          request[q].account.confirmed
                   PROVE  Backed(request[q].address, request[q].account)'
      BY <1>2 DEF Backed
    <3>2. Backed(request[q].address, request[q].account)
      BY <2>1, <3>1 DEF RequestInv
    <3> QED BY <1>2, <3>1, <3>2, BackedKept DEF Backed
  <2>5. request[q].phase = "confirmNotice" =>
          [address |-> request[q].address, email |-> request[q].email]
            \in opened'
    BY <2>1, ShownKept DEF RequestInv
  <2> QED BY <1>2, <2>1, <2>2, <2>3, <2>4, <2>5 DEF RequestInv
<1> QED BY <1>1, <1>2

\* A step that leaves the rows of accounts and notices alone.
LEMMA RowsKept ==
  ASSUME IInv, Onward, UNCHANGED <<accounts, notices>>
  PROVE  /\ EmailsDistinct'
         /\ \A a \in Addresses : /\ Shown(a, accounts[a])'
                                 /\ Shown(a, notices[a])'
                                 /\ Backed(a, accounts[a])'
<1>1. EmailsDistinct'
  BY DEF IInv, EmailsDistinct
<1>2. ASSUME NEW a \in Addresses
      PROVE  /\ Shown(a, accounts[a])'
             /\ Shown(a, notices[a])'
             /\ Backed(a, accounts[a])'
  <2>1. Shown(a, accounts[a]) /\ Shown(a, notices[a]) /\ Backed(a, accounts[a])
    BY DEF IInv
  <2>2. Shown(a, accounts[a])' /\ Shown(a, notices[a])'
    BY <2>1, ShownKept DEF Shown
  <2>3. Backed(a, accounts[a])'
    BY <2>1, BackedKept DEF Backed
  <2> QED BY <2>2, <2>3
<1> QED BY <1>1, <1>2

\* Request q takes a step, and the rows stay as they are.
LEMMA QuietIInv ==
  ASSUME IInv, TypeOK', Onward, UNCHANGED <<accounts, notices>>,
         NEW q \in Requests, RequestInv(request[q])',
         \A p \in Requests \ {q} : request'[p] = request[p]
  PROVE  IInv'
<1>1. ASSUME NEW p \in Requests PROVE RequestInv(request[p])'
  <2>1. CASE p = q
    BY <2>1
  <2>2. CASE p # q
    BY <2>2, RequestKept
  <2> QED BY <2>1, <2>2
<1> QED BY <1>1, RowsKept DEF IInv

\* Request q, which holds a copy of the account, saves it and goes on with
\* next, or is refused.
LEMMA UpdateAccountIInv ==
  ASSUME IInv, TypeOK', NEW q \in Requests, NEW next \in Request,
         request[q].phase # "idle", request[q].phase # "kyc",
         UpdateAccount(q, next),
         UNCHANGED <<notices, kycs, links, opened, cut, unread>>,
         \/ next.phase = "idle"
         \/ /\ next.phase \in {"count", "kyc"}
            /\ next.address = request[q].address
            /\ next.email = request[q].email
            /\ next.notice = request[q].notice
            /\ request[q].phase # "seller",
         \/ CopyBacked(q)
         \/ next.phase = "kyc" /\ request[q].phase = "confirm"
  PROVE  IInv'
<1> DEFINE r == request[q]
           a == r.address
<1>1. r \in Request /\ RequestInv(r) /\ a \in Addresses
  BY DEF IInv, TypeOK, RequestInv
<1>2. CASE Answer(q) /\ UNCHANGED accounts
  <2>1. /\ request'[q].phase = "idle"
        /\ \A p \in Requests \ {q} : request'[p] = request[p]
    BY <1>2 DEF Answer, Step, Idle, IInv, TypeOK
  <2>2. Onward
    BY <2>1 DEF Onward
  <2>3. RequestInv(request[q])'
    BY <2>1 DEF RequestInv
  <2> QED BY <1>2, <2>1, <2>2, <2>3, QuietIInv
<1>3. CASE /\ Unique(a, r.account.email)
           /\ accounts' = [accounts EXCEPT ![a] = r.account]
           /\ Step(q, [next EXCEPT !.account = NoAccount])
  <2>1. /\ request'[q].phase = next.phase
        /\ request'[q].address = next.address
        /\ request'[q].email = next.email
        /\ request'[q].notice = next.notice
        /\ ~request'[q].account.confirmed
    BY <1>3 DEF Step, IInv, TypeOK, Request, NoAccount
  <2>2. \A p \in Requests \ {q} : request'[p] = request[p]
    BY <1>3 DEF Step, IInv, TypeOK
  <2>3. Onward
    BY <2>2 DEF Onward
  <2>4. /\ accounts'[a] = r.account
        /\ \A b \in Addresses \ {a} : accounts'[b] = accounts[b]
    BY <1>1, <1>3 DEF IInv, TypeOK
  <2> HIDE DEF r, a
  <2>5. RequestInv(request[q])'
    BY <1>1, <2>1 DEF RequestInv, Shown, r, a
  <2>6. ASSUME NEW p \in Requests PROVE RequestInv(request[p])'
    <3>1. CASE p = q
      BY <2>5, <3>1
    <3>2. CASE p # q
      BY <2>2, <2>3, <3>2, RequestKept
    <3> QED BY <3>1, <3>2
  <2>7. EmailsDistinct'
    <3>1. ASSUME NEW b \in Addresses, NEW c \in Addresses, b # c,
                 accounts'[b].email = accounts'[c].email
          PROVE  accounts'[b].email = None
      <4>1. CASE b = a
        BY <1>3, <2>4, <3>1, <4>1 DEF Unique
      <4>2. CASE c = a
        BY <1>3, <2>4, <3>1, <4>2 DEF Unique
      <4>3. CASE b # a /\ c # a
        BY <2>4, <3>1, <4>3 DEF IInv, EmailsDistinct
      <4> QED BY <4>1, <4>2, <4>3
    <3> QED BY <3>1 DEF EmailsDistinct
  <2>8. Shown(a, r.account)
    BY <1>1 DEF RequestInv, r, a
  <2>9. r.account.confirmed =>
          \/ r.account.email \in kycs'
          \/ a \in cut' \cup unread'
          \/ \E p \in Requests : /\ request'[p].phase = "kyc"
                                 /\ request'[p].address = a
                                 /\ request'[p].email = r.account.email
    <3>1. CASE CopyBacked(q)
      BY <2>3, <3>1, BackedKept DEF CopyBacked, Backed, r, a
    <3>2. CASE next.phase = "kyc" /\ r.phase = "confirm"
      <4>1. r.account.email = r.email
        BY <1>1, <3>2 DEF RequestInv
      <4> QED BY <2>1, <3>2, <4>1 DEF r, a
    <3> QED BY <3>1, <3>2 DEF r, a
  <2>10. ASSUME NEW b \in Addresses
         PROVE  /\ Shown(b, accounts[b])'
                /\ Shown(b, notices[b])'
                /\ Backed(b, accounts[b])'
    <3>1. Shown(b, notices[b])'
      BY DEF IInv, Shown
    <3>2. CASE b = a
      BY <2>4, <2>8, <2>9, <3>1, <3>2 DEF Shown, Backed
    <3>3. CASE b # a
      <4>1. Shown(b, accounts[b]) /\ Backed(b, accounts[b])
        BY DEF IInv
      <4>2. Shown(b, accounts[b])'
        BY <2>4, <3>3, <4>1 DEF Shown
      <4>3. Backed(b, accounts[b])'
        BY <2>3, <2>4, <3>3, <4>1, BackedKept DEF Backed
      <4> QED BY <3>1, <4>2, <4>3
    <3> QED BY <3>2, <3>3
  <2> QED BY <2>6, <2>7, <2>10 DEF IInv
<1> QED BY <1>2, <1>3 DEF UpdateAccount

LEMMA Stepped ==
  ASSUME TypeOK, NEW q \in Requests
  PROVE  /\ \A r : Step(q, r) => /\ request'[q] = r
                                 /\ \A p \in Requests \ {q} :
                                      request'[p] = request[p]
         /\ Answer(q) => /\ request'[q].phase = "idle"
                         /\ \A p \in Requests \ {q} :
                              request'[p] = request[p]
BY DEF TypeOK, Step, Answer, Idle

\* A request is answered, and the rows stay as they are.
LEMMA AnswerIInv ==
  ASSUME IInv, TypeOK', NEW q \in Requests, Answer(q),
         UNCHANGED <<accounts, notices>>,
         opened \subseteq opened', kycs \subseteq kycs',
         cut \cup unread \subseteq cut' \cup unread',
         request[q].phase = "kyc" => \/ request[q].email \in kycs'
                                     \/ request[q].address \in cut' \cup unread'
  PROVE  IInv'
<1>1. /\ request'[q].phase = "idle"
      /\ \A p \in Requests \ {q} : request'[p] = request[p]
  BY Stepped DEF IInv
<1>2. Onward /\ RequestInv(request[q])'
  BY <1>1 DEF Onward, RequestInv
<1> QED BY <1>1, <1>2, QuietIInv

\* A request goes on with locals r, and the rows stay as they are.
LEMMA StepIInv ==
  ASSUME IInv, TypeOK', NEW q \in Requests, NEW r, Step(q, r),
         UNCHANGED <<accounts, notices, kycs, cut, unread>>,
         opened \subseteq opened',
         request[q].phase # "kyc", r.phase # "seller",
         r.address \in Addresses, r.email \in Emails,
         r.account.confirmed =>
           [address |-> r.address, email |-> r.account.email] \in opened',
         r.notice.confirmed =>
           [address |-> r.address, email |-> r.notice.email] \in opened',
         r.phase = "register" => ~r.account.confirmed,
         r.phase = "confirm" => r.account.email = r.email,
         r.phase = "confirmNotice" =>
           [address |-> r.address, email |-> r.email] \in opened'
  PROVE  IInv'
<1>1. /\ request'[q] = r
      /\ \A p \in Requests \ {q} : request'[p] = request[p]
  BY Stepped DEF IInv
<1>2. Onward
  BY <1>1 DEF Onward
<1>3. RequestInv(request[q])'
  BY <1>1 DEF RequestInv, Shown
<1> QED BY <1>1, <1>2, <1>3, QuietIInv

LEMMA RegisterIInv ==
  ASSUME IInv, TypeOK', NEW q \in Requests, RegisterStep(q)
  PROVE  IInv'
<1>1. /\ request[q] \in Request /\ RequestInv(request[q])
      /\ TypeOK
  BY DEF IInv, TypeOK
<1>2. ASSUME NEW e \in Emails, NEW a \in Addresses, NEW phase \in Phases,
             phase \notin {"register", "confirm", "confirmNotice", "seller"},
             request[q].phase = "idle",
             Step(q, For(phase, a, e)),
             UNCHANGED <<accounts, notices, kycs, opened, cut, unread>>
      PROVE  IInv'
  <2>1. /\ For(phase, a, e).phase = phase
        /\ For(phase, a, e).address = a
        /\ For(phase, a, e).email = e
        /\ ~For(phase, a, e).account.confirmed
        /\ ~For(phase, a, e).notice.confirmed
    BY DEF For, Idle, NoAccount, NoNotice
  <2> QED BY <1>2, <2>1, StepIInv
<1>3. ASSUME NEW e \in Emails, NEW a \in Addresses,
             RegisterEmail(q, a, e) \/ RegisterNotificationEmail(q, a, e)
      PROVE  IInv'
  BY <1>2, <1>3 DEF RegisterEmail, RegisterNotificationEmail, Phases
<1>4. CASE LookUpAccount(q)
  <2>1. CASE Answer(q)
    BY <1>4, <2>1, AnswerIInv DEF LookUpAccount
  <2>2. CASE LET row == accounts[request[q].address] IN
             /\ ~row.confirmed
             /\ Step(q, [request[q] EXCEPT
                      !.phase = "register",
                      !.account = [row EXCEPT !.pending = request[q].email]])
    <3> DEFINE row == [accounts[request[q].address] EXCEPT
                         !.pending = request[q].email]
               r == [request[q] EXCEPT !.phase = "register", !.account = row]
    <3>1. request[q].address \in Addresses /\ request[q].email \in Emails
      BY <1>1, <1>4 DEF LookUpAccount, RequestInv
    <3>2. accounts[request[q].address] \in Account
      BY <1>1, <3>1 DEF TypeOK
    <3>3. ~row.confirmed
      BY <2>2, <3>2 DEF Account
    <3> HIDE DEF row
    <3>4. /\ r.phase = "register" /\ r.address = request[q].address
          /\ r.email = request[q].email
          /\ r.account = row /\ r.notice = request[q].notice
      BY <1>1 DEF Request
    <3>5. Step(q, r)
      BY <2>2 DEF row
    <3> HIDE DEF r
    <3>6. r.notice.confirmed =>
            [address |-> r.address, email |-> r.notice.email] \in opened'
      BY <1>1, <1>4, <3>4 DEF LookUpAccount, RequestInv, Shown
    <3> QED
      BY <1>4, <3>1, <3>3, <3>4, <3>5, <3>6, StepIInv DEF LookUpAccount
  <2> QED BY <1>4, <2>1, <2>2 DEF LookUpAccount
<1>5. CASE SavePending(q)
  <2> DEFINE next == [request[q] EXCEPT !.phase = "count"]
  <2>1. /\ next.phase = "count"
        /\ next.address = request[q].address
        /\ next.email = request[q].email
        /\ next.notice = request[q].notice
    BY <1>1 DEF Request
  <2>2. CopyBacked(q)
    BY <1>1, <1>5 DEF SavePending, RequestInv, CopyBacked, Backed
  <2>3. next \in Request
    BY <1>1, Locals DEF Phases
  <2>4. /\ UpdateAccount(q, next) /\ request[q].phase = "register"
        /\ UNCHANGED <<notices, kycs, links, opened, cut, unread>>
    BY <1>5 DEF SavePending
  <2> HIDE DEF next
  <2> QED BY <2>1, <2>2, <2>3, <2>4, UpdateAccountIInv
<1>6. ASSUME NEW phase \in {"count", "send"}, Go(q, phase),
             request[q].phase \notin {"idle", "seller", "kyc"},
             UNCHANGED <<accounts, notices, kycs, opened, cut, unread>>
      PROVE  IInv'
  <2> DEFINE r == [request[q] EXCEPT !.phase = phase]
  <2>1. /\ r.phase = phase /\ r.address = request[q].address
        /\ r.email = request[q].email
        /\ r.account = request[q].account /\ r.notice = request[q].notice
    BY <1>1 DEF Request
  <2>2. Step(q, r)
    BY <1>6 DEF Go
  <2> HIDE DEF r
  <2> QED BY <1>1, <1>6, <2>1, <2>2, StepIInv DEF RequestInv, Shown
<1>7. CASE IncreaseEmailCount(q)
  <2>1. CASE Answer(q)
    BY <1>7, <2>1, AnswerIInv DEF IncreaseEmailCount
  <2>2. CASE Go(q, "send")
    BY <1>6, <1>7, <2>2 DEF IncreaseEmailCount
  <2> QED BY <1>7, <2>1, <2>2 DEF IncreaseEmailCount
<1>8. CASE LookUpNotice(q)
  <2>1. CASE Answer(q)
    BY <1>8, <2>1, AnswerIInv DEF LookUpNotice
  <2> DEFINE row == [notices[request[q].address] EXCEPT
                       !.exists = TRUE, !.pending = request[q].email]
             r == [request[q] EXCEPT !.phase = "note", !.notice = row]
  <2>2. CASE Step(q, r)
    <3>1. request[q].address \in Addresses /\ request[q].email \in Emails
      BY <1>1, <1>8 DEF LookUpNotice, RequestInv
    <3>2. /\ notices[request[q].address] \in Notice
          /\ Shown(request[q].address, notices[request[q].address])
      BY <1>1, <3>1 DEF IInv, TypeOK
    <3>3. row.confirmed =>
            [address |-> request[q].address, email |-> row.email] \in opened
      BY <3>2 DEF Notice, Shown
    <3> HIDE DEF row
    <3>4. /\ r.phase = "note" /\ r.address = request[q].address
          /\ r.email = request[q].email
          /\ r.notice = row /\ r.account = request[q].account
      BY <1>1 DEF Request
    <3> HIDE DEF r
    <3>5. r.account.confirmed =>
            [address |-> r.address, email |-> r.account.email] \in opened'
      BY <1>1, <1>8, <3>4 DEF LookUpNotice, RequestInv, Shown
    <3> QED
      BY <1>8, <2>2, <3>1, <3>3, <3>4, <3>5, StepIInv DEF LookUpNotice
  <2> QED BY <1>8, <2>1, <2>2 DEF LookUpNotice
<1>9. CASE SendConfirmEmail(q)
  BY <1>9, AnswerIInv DEF SendConfirmEmail
<1>10. CASE SaveNotice(q)
  <2>1. /\ request[q].address \in Addresses /\ request[q].email \in Emails
        /\ Shown(request[q].address, request[q].notice)
        /\ Shown(request[q].address, request[q].account)
    BY <1>1, <1>10 DEF SaveNotice, RequestInv
  <2>2. /\ notices'[request[q].address] = request[q].notice
        /\ \A b \in Addresses \ {request[q].address} : notices'[b] = notices[b]
        /\ UNCHANGED <<accounts, kycs, opened, cut, unread>>
    BY <1>1, <1>10, <2>1 DEF SaveNotice, TypeOK
  <2>3. /\ \A p \in Requests \ {q} : request'[p] = request[p]
        /\ RequestInv(request[q])'
    <3>1. CASE Answer(q)
      BY <1>1, <3>1, Stepped DEF RequestInv
    <3> DEFINE r == [request[q] EXCEPT !.phase = "send", !.notice = NoNotice]
    <3>2. CASE Step(q, r)
      <4>1. /\ r.phase = "send" /\ r.address = request[q].address
            /\ r.email = request[q].email
            /\ r.account = request[q].account /\ ~r.notice.confirmed
        BY <1>1 DEF Request, NoNotice
      <4>2. /\ request'[q] = r
            /\ \A p \in Requests \ {q} : request'[p] = request[p]
        BY <1>1, <3>2, Stepped
      <4> HIDE DEF r
      <4> QED BY <2>1, <2>2, <4>1, <4>2 DEF RequestInv, Shown
    <3> QED BY <1>10, <3>1, <3>2 DEF SaveNotice
  <2>4. Onward
    BY <1>10, <2>2, <2>3 DEF Onward, SaveNotice
  <2>5. ASSUME NEW p \in Requests PROVE RequestInv(request[p])'
    <3>1. CASE p = q
      BY <2>3, <3>1
    <3>2. CASE p # q
      BY <2>3, <2>4, <3>2, RequestKept
    <3> QED BY <3>1, <3>2
  <2>6. ASSUME NEW b \in Addresses
        PROVE  /\ Shown(b, accounts[b])'
               /\ Shown(b, notices[b])'
               /\ Backed(b, accounts[b])'
    <3>1. Shown(b, accounts[b]) /\ Shown(b, notices[b])
          /\ Backed(b, accounts[b])
      BY DEF IInv
    <3>2. Shown(b, accounts[b])'
      BY <2>2, <3>1 DEF Shown
    <3>3. Shown(b, notices[b])'
      BY <2>1, <2>2, <3>1 DEF Shown
    <3>4. Backed(b, accounts[b])'
      BY <2>2, <2>4, <3>1, BackedKept DEF Backed
    <3> QED BY <3>2, <3>3, <3>4
  <2>7. EmailsDistinct'
    BY <2>2 DEF IInv, EmailsDistinct
  <2> QED BY <2>5, <2>6, <2>7 DEF IInv
<1> QED
  BY <1>3, <1>4, <1>5, <1>7, <1>8, <1>9, <1>10, UsersAssumption
     DEF RegisterStep

\* A row that has just been confirmed has the e-mail of the link.
LEMMA ConfirmedEmail ==
  ASSUME NEW e \in Emails,
         NEW row, row \in Account \/ row \in Notice,
         NEW new \in Confirmed(row, e)
  PROVE  new.email = e
BY DEF Confirmed, Account, Notice

LEMMA ConfirmIInv ==
  ASSUME IInv, TypeOK', NEW q \in Requests, ConfirmStep(q)
  PROVE  IInv'
<1>1. request[q] \in Request /\ RequestInv(request[q]) /\ TypeOK
  BY DEF IInv, TypeOK
<1>2. ASSUME NEW l \in links, ConfirmEmail(q, l) PROVE IInv'
  <2>1. /\ l.address \in Addresses /\ l.email \in Emails
        /\ l = [address |-> l.address, email |-> l.email]
    BY <1>1 DEF TypeOK, Link
  <2>2. /\ request[q].phase = "idle" /\ opened' = opened \cup {l}
        /\ UNCHANGED <<accounts, notices, kycs, cut, unread>>
    BY <1>2 DEF ConfirmEmail
  <2> DEFINE read == For("confirmNotice", l.address, l.email)
  <2>3. /\ read.phase = "confirmNotice" /\ read.address = l.address
        /\ read.email = l.email
        /\ ~read.account.confirmed /\ ~read.notice.confirmed
    BY DEF For, Idle, NoAccount, NoNotice
  <2>4. CASE UNCHANGED request
    <3>1. Onward
      BY <2>2, <2>4 DEF Onward
    <3>2. RequestInv(request[q])'
      BY <2>2, <2>4 DEF RequestInv
    <3> QED BY <2>2, <2>4, <3>1, <3>2, QuietIInv
  <2>5. CASE Step(q, read)
    <3> HIDE DEF read
    <3> QED BY <2>1, <2>2, <2>3, <2>5, StepIInv
  <2>6. ASSUME NEW new \in Confirmed(accounts[l.address], l.email),
               Step(q, [read EXCEPT !.phase = "confirm", !.account = new])
        PROVE  IInv'
    <3> DEFINE r == [read EXCEPT !.phase = "confirm", !.account = new]
    <3>1. new.email = l.email
      BY <1>1, <2>1, ConfirmedEmail DEF TypeOK
    <3>2. /\ r.phase = "confirm" /\ r.address = l.address
          /\ r.email = l.email /\ r.account = new /\ ~r.notice.confirmed
      BY DEF For, Idle, NoNotice
    <3>3. Step(q, r)
      BY <2>6
    <3> HIDE DEF r
    <3> QED BY <2>1, <2>2, <3>1, <3>2, <3>3, StepIInv
  <2> QED BY <1>2, <2>4, <2>5, <2>6 DEF ConfirmEmail
<1>3. CASE SaveConfirmed(q)
  <2> DEFINE next == [request[q] EXCEPT !.phase = "kyc"]
  <2>1. /\ next.phase = "kyc"
        /\ next.address = request[q].address
        /\ next.email = request[q].email
        /\ next.notice = request[q].notice
    BY <1>1 DEF Request
  <2>2. next \in Request
    BY <1>1, Locals DEF Phases
  <2>3. /\ UpdateAccount(q, next) /\ request[q].phase = "confirm"
        /\ UNCHANGED <<notices, kycs, links, opened, cut, unread>>
    BY <1>3 DEF SaveConfirmed
  <2> HIDE DEF next
  <2> QED BY <2>1, <2>2, <2>3, UpdateAccountIInv
<1>4. CASE StoreKyc(q)
  BY <1>4, AnswerIInv DEF StoreKyc
<1>6. CASE SkipKyc(q)
  <2>1. /\ UNCHANGED <<accounts, notices, kycs, opened, cut>>
        /\ unread' = unread \cup {request[q].address} /\ Answer(q)
    BY <1>6 DEF SkipKyc
  <2> QED BY <2>1, AnswerIInv
<1>5. CASE ConfirmNotice(q)
  <2>1. /\ request[q].phase = "confirmNotice"
        /\ UNCHANGED <<accounts, notices, kycs, opened, cut, unread>>
    BY <1>5 DEF ConfirmNotice
  <2>2. CASE Answer(q)
    BY <2>1, <2>2, AnswerIInv
  <2> DEFINE row == notices[request[q].address]
             e == request[q].email
  <2>3. ASSUME NEW n, n = row \/ n \in Confirmed(row, e),
               Step(q, [request[q] EXCEPT !.phase = "confirmNote",
                                          !.notice = n])
        PROVE  IInv'
    <3> DEFINE r == [request[q] EXCEPT !.phase = "confirmNote", !.notice = n]
    <3>1. /\ request[q].address \in Addresses /\ e \in Emails
          /\ [address |-> request[q].address, email |-> e] \in opened
      BY <1>1, <2>1 DEF RequestInv
    <3>2. row \in Notice /\ Shown(request[q].address, row)
      BY <1>1, <3>1 DEF IInv, TypeOK
    <3>3. n = row \/ n.email = e
      BY <2>3, <3>1, <3>2, ConfirmedEmail
    <3> HIDE DEF row
    <3>4. n.confirmed =>
            [address |-> request[q].address, email |-> n.email] \in opened
      BY <3>1, <3>2, <3>3 DEF Shown
    <3>5. /\ r.phase = "confirmNote" /\ r.address = request[q].address
          /\ r.email = e /\ r.notice = n /\ r.account = request[q].account
      BY <1>1 DEF Request
    <3>6. Step(q, r)
      BY <2>3
    <3> HIDE DEF r
    <3>7. r.account.confirmed =>
            [address |-> r.address, email |-> r.account.email] \in opened
      BY <1>1, <2>1, <3>5 DEF RequestInv, Shown
    <3> QED BY <2>1, <3>1, <3>4, <3>5, <3>6, <3>7, StepIInv
  <2> QED BY <1>5, <2>2, <2>3 DEF ConfirmNotice
<1> QED BY <1>2, <1>3, <1>4, <1>5, <1>6 DEF ConfirmStep

LEMMA SellerIInv ==
  ASSUME IInv, TypeOK', NEW q \in Requests, SellerStep(q)
  PROVE  IInv'
<1>1. request[q] \in Request /\ RequestInv(request[q]) /\ TypeOK
  BY DEF IInv, TypeOK
<1>2. ASSUME NEW a \in Addresses, AddSellerCode(q, a) PROVE IInv'
  <2> DEFINE row == [accounts[a] EXCEPT !.seller = TRUE]
             r == [For("seller", a, None) EXCEPT !.account = row]
  <2>1. /\ accounts[a] \in Account
        /\ Shown(a, accounts[a]) /\ Backed(a, accounts[a])
    BY <1>1 DEF IInv, TypeOK
  <2>2. /\ row.confirmed = accounts[a].confirmed
        /\ row.email = accounts[a].email
    BY <2>1 DEF Account
  <2>3. /\ request[q].phase = "idle" /\ Step(q, r)
        /\ UNCHANGED <<accounts, notices, kycs, opened, cut, unread>>
    BY <1>2 DEF AddSellerCode
  <2> HIDE DEF row
  <2>4. /\ r.phase = "seller" /\ r.address = a /\ r.account = row
        /\ ~r.notice.confirmed
    BY DEF For, Idle, NoNotice
  <2> HIDE DEF r
  <2>5. /\ request'[q] = r
        /\ \A p \in Requests \ {q} : request'[p] = request[p]
    BY <1>1, <2>3, Stepped
  <2>6. Onward
    BY <2>3, <2>5 DEF Onward
  <2>7. row.confirmed =>
          \/ row.email \in kycs'
          \/ a \in cut' \cup unread'
          \/ \E p \in Requests : /\ request'[p].phase = "kyc"
                                 /\ request'[p].address = a
                                 /\ request'[p].email = row.email
    BY <2>1, <2>2, <2>6, BackedKept DEF Backed
  <2>8. RequestInv(request[q])'
    BY <2>1, <2>2, <2>3, <2>4, <2>5, <2>7 DEF RequestInv, Shown, Backed
  <2> QED BY <2>3, <2>5, <2>6, <2>8, QuietIInv
<1>3. CASE SaveSellerCode(q)
  <2>1. /\ request[q].phase = "seller" /\ UpdateAccount(q, Idle)
        /\ UNCHANGED <<notices, kycs, links, opened, cut, unread>>
    BY <1>3 DEF SaveSellerCode
  <2>2. Idle \in Request /\ Idle.phase = "idle"
    BY Empty DEF Idle
  <2>3. CopyBacked(q)
    BY <1>1, <2>1 DEF RequestInv, CopyBacked
  <2> QED BY <2>1, <2>2, <2>3, UpdateAccountIInv
<1> QED BY <1>2, <1>3, UsersAssumption DEF SellerStep

\* A new row takes nothing from what the account had.
LEMMA CreateIInv ==
  ASSUME IInv, TypeOK', NEW a \in Addresses, CreateAccount(a)
  PROVE  IInv'
<1>1. UNCHANGED <<notices, kycs, opened, request, cut, unread>>
  BY DEF CreateAccount
<1>2. Onward
  BY <1>1 DEF Onward
<1>3. \A b \in Addresses : /\ accounts'[b].confirmed = accounts[b].confirmed
                           /\ accounts'[b].email = accounts[b].email
  BY DEF CreateAccount, IInv, TypeOK, Account
<1>4. EmailsDistinct'
  BY <1>3 DEF IInv, EmailsDistinct
<1>5. ASSUME NEW b \in Addresses
      PROVE  /\ Shown(b, accounts[b])'
             /\ Shown(b, notices[b])'
             /\ Backed(b, accounts[b])'
  <2>1. Shown(b, accounts[b]) /\ Shown(b, notices[b]) /\ Backed(b, accounts[b])
    BY DEF IInv
  <2> QED BY <1>1, <1>3, <2>1 DEF Shown, Backed
<1>6. \A q \in Requests : RequestInv(request[q])'
  BY <1>1, <1>2, RequestKept
<1> QED BY <1>4, <1>5, <1>6 DEF IInv

LEMMA DeleteIInv ==
  ASSUME IInv, TypeOK', NEW a \in Noted, DeleteNotificationEmail(a)
  PROVE  IInv'
<1>1. /\ UNCHANGED <<accounts, kycs, opened, request, cut, unread>>
      /\ notices' = [notices EXCEPT ![a] = NoNotice]
  BY DEF DeleteNotificationEmail
<1>2. Onward
  BY <1>1 DEF Onward
<1>3. ASSUME NEW b \in Addresses
      PROVE  /\ Shown(b, accounts[b])'
             /\ Shown(b, notices[b])'
             /\ Backed(b, accounts[b])'
  <2>1. Shown(b, accounts[b]) /\ Shown(b, notices[b]) /\ Backed(b, accounts[b])
    BY DEF IInv
  <2>2. notices'[b] = notices[b] \/ ~notices'[b].confirmed
    BY <1>1 DEF IInv, TypeOK, NoNotice
  <2> QED BY <1>1, <2>1, <2>2 DEF Shown, Backed
<1>4. EmailsDistinct'
  BY <1>1 DEF IInv, EmailsDistinct
<1>5. \A q \in Requests : RequestInv(request[q])'
  BY <1>1, <1>2, RequestKept
<1> QED BY <1>3, <1>4, <1>5 DEF IInv

\* A crash answers nobody; what a request was about to put into kycs is cut.
LEMMA RestartIInv ==
  ASSUME IInv, TypeOK', Restart
  PROVE  IInv'
<1>1. /\ UNCHANGED <<accounts, notices, kycs, opened, unread>>
      /\ request' = [q \in Requests |-> Idle] /\ cut' = CutOff(Requests)
  BY DEF Restart
<1>2. Onward
  BY <1>1 DEF Onward, CutOff
<1>3. \A q \in Requests : RequestInv(request[q])'
  BY <1>1 DEF RequestInv, Idle
<1> QED BY <1>1, <1>2, <1>3, RowsKept DEF IInv

LEMMA NextIInv == IInv /\ [Next]_vars => IInv'
<1> SUFFICES ASSUME IInv, [Next]_vars PROVE IInv' OBVIOUS
<1>1. TypeOK'
  BY NextTypeOK DEF IInv
<1>2. CASE UNCHANGED vars
  <2>1. Onward /\ UNCHANGED <<accounts, notices, request>>
    BY <1>2 DEF vars, Onward
  <2>2. \A q \in Requests : RequestInv(request[q])'
    BY <2>1, RequestKept
  <2> QED BY <1>1, <2>1, <2>2, RowsKept DEF IInv
<1>3. ASSUME NEW a \in Addresses, CreateAccount(a) PROVE IInv'
  BY <1>1, <1>3, CreateIInv
<1>4. ASSUME NEW a \in Noted, DeleteNotificationEmail(a) PROVE IInv'
  BY <1>1, <1>4, DeleteIInv
<1>5. ASSUME NEW q \in Requests,
             RegisterStep(q) \/ ConfirmStep(q) \/ SellerStep(q)
      PROVE  IInv'
  BY <1>1, <1>5, RegisterIInv, ConfirmIInv, SellerIInv
<1>6. ASSUME NEW q \in Requests, Fail(q) PROVE IInv'
  <2>1. /\ Answer(q) /\ UNCHANGED <<accounts, notices, kycs, opened, unread>>
        /\ cut' = CutOff({q})
    BY <1>6 DEF Fail
  <2>2. /\ cut \cup unread \subseteq cut' \cup unread'
        /\ request[q].phase = "kyc" => request[q].address \in cut' \cup unread'
    BY <2>1 DEF CutOff
  <2> QED BY <1>1, <2>1, <2>2, AnswerIInv
<1>7. CASE Restart
  BY <1>1, <1>7, RestartIInv
<1> QED BY <1>2, <1>3, <1>4, <1>5, <1>6, <1>7 DEF Next

(***************************************************************************)
(* The inductive invariant holds throughout, and with it the types.        *)
(***************************************************************************)
THEOREM Inductive == Spec => []IInv
<1> QED BY InitIInv, NextIInv, PTL DEF Spec

(***************************************************************************)
(* Rows, copies, counts and links keep their types, and the count of mails *)
(* stays below its limit, whatever requests overlap or fail (emailCountMap *)
(* .go:15-35).                                                             *)
(***************************************************************************)
THEOREM TypeCorrect == Spec => []TypeOK
<1>1. IInv => TypeOK
  BY DEF IInv
<1> QED BY <1>1, Inductive, PTL

(***************************************************************************)
(* No address is in use that its owner did not confirm for the account     *)
(* (accountService.go:99-121, notificationEmailService.go:77-98).          *)
(***************************************************************************)
THEOREM AddressesWereOpened == Spec => []UsedAddressesOpened
<1>1. IInv => UsedAddressesOpened
  BY DEF IInv, Shown, UsedAddressesOpened
<1> QED BY <1>1, Inductive, PTL

(***************************************************************************)
(* No two accounts come to have the same e-mail (accountService.go:41-47,  *)
(* 127-145).                                                               *)
(***************************************************************************)
THEOREM EmailsAreDistinct == Spec => []EmailsDistinct
<1>1. IInv => EmailsDistinct
  BY DEF IInv
<1> QED BY <1>1, Inductive, PTL

(***************************************************************************)
(* An account without its row of kycs was cut off between the two writes,  *)
(* or could not look for the row, even if a stale copy of the account was  *)
(* saved since (accountService.go:99-101, 142-150, kycStorer.go:70-84).    *)
(***************************************************************************)
THEOREM KycsAreExplained == Spec => []MissingKycExplained
<1>1. ASSUME IInv, NEW a \in WithoutKyc PROVE a \in cut \cup unread
  <2>1. a \in Addresses /\ Backed(a, accounts[a])
    BY <1>1 DEF IInv, WithoutKyc
  <2> QED BY <1>1, <2>1 DEF Backed, WithoutKyc
<1>2. IInv => MissingKycExplained
  BY <1>1 DEF MissingKycExplained
<1> QED BY <1>2, Inductive, PTL

-----------------------------------------------------------------------------
(* Pending addresses and lost confirmations.                               *)

\* What a copy says of the pending address, and of the confirmation.
CopyDue(q) ==
  LET r == request[q] IN
  /\ r.phase = "register" => r.account.pending = r.email
  /\ r.phase = "confirm" => r.account.confirmed /\ r.account.pending = None
  /\ r.phase = "seller" => Due(r.address, r.account.pending)

DInv == PendingMailed /\ \A q \in Requests : CopyDue(q)

\* A request changes no locals but its own.
LEMMA OwnLocals ==
  ASSUME TypeOK, NEW q \in Requests,
         RegisterStep(q) \/ ConfirmStep(q) \/ SellerStep(q) \/ Fail(q)
  PROVE  \A p \in Requests \ {q} : request'[p] = request[p]
<1>1. \/ UNCHANGED request
      \/ \E r : Step(q, r)
      \/ \E phase : Go(q, phase)
      \/ Answer(q)
  <2>1. ASSUME NEW next, UpdateAccount(q, next)
        PROVE  (\E r : Step(q, r)) \/ Answer(q)
    BY <2>1 DEF UpdateAccount
  <2>2. CASE RegisterStep(q)
    BY <2>1, <2>2
       DEF RegisterStep, RegisterEmail, RegisterNotificationEmail,
           LookUpAccount, SavePending, IncreaseEmailCount, LookUpNotice,
           SaveNotice, SendConfirmEmail
  <2>3. CASE ConfirmStep(q)
    BY <2>1, <2>3
       DEF ConfirmStep, ConfirmEmail, SaveConfirmed, StoreKyc, SkipKyc,
           ConfirmNotice
  <2>4. CASE SellerStep(q)
    BY <2>1, <2>4 DEF SellerStep, AddSellerCode, SaveSellerCode
  <2>5. CASE Fail(q)
    BY <2>5 DEF Fail
  <2> QED BY <2>2, <2>3, <2>4, <2>5
<1> QED BY <1>1, Stepped DEF Go

\* A request that is to mail a link does, or says why not.
LEMMA DueOwn ==
  ASSUME IInv, TypeOK', NEW q \in Requests, NEW a \in Addresses, NEW e,
         RegisterStep(q) \/ ConfirmStep(q) \/ SellerStep(q),
         request[q].phase \in {"count", "send"},
         request[q].address = a, request[q].email = e
  PROVE  Due(a, e)'
<1>1. IncreaseEmailCount(q) \/ SendConfirmEmail(q)
  BY DEF RegisterStep, RegisterEmail, RegisterNotificationEmail,
         LookUpAccount, SavePending, LookUpNotice, SaveNotice, ConfirmStep,
         ConfirmEmail, SaveConfirmed, StoreKyc, SkipKyc, ConfirmNotice,
         SellerStep, AddSellerCode, SaveSellerCode
<1>2. CASE SendConfirmEmail(q)
  <2>1. [address |-> a, email |-> e] \in links'
    BY <1>2 DEF SendConfirmEmail
  <2> QED BY <2>1 DEF Due
<1>3. CASE IncreaseEmailCount(q) /\ Go(q, "send")
  <2>1. request[q] \in Request /\ TypeOK
    BY DEF IInv, TypeOK
  <2>2. request'[q] = [request[q] EXCEPT !.phase = "send"]
    BY <1>3, <2>1, Stepped DEF Go
  <2>3. /\ request'[q].phase = "send" /\ request'[q].address = a
        /\ request'[q].email = e
    BY <2>1, <2>2 DEF Request
  <2> QED BY <2>3 DEF Due
<1>4. CASE IncreaseEmailCount(q) /\ ~Go(q, "send")
  BY <1>4 DEF IncreaseEmailCount, Due
<1> QED BY <1>1, <1>2, <1>3, <1>4

\* What is due stays due.
LEMMA DueKept ==
  ASSUME IInv, [Next]_vars, NEW a \in Addresses, NEW e, Due(a, e)
  PROVE  Due(a, e)'
<1> SUFFICES ASSUME e # None PROVE Due(a, e)'
  BY DEF Due
<1>1. TypeOK /\ TypeOK'
  BY NextIInv DEF IInv
<1>3. ASSUME NEW q \in Requests, Fail(q) PROVE Due(a, e)'
  <2>1. faults' = faults + 1 /\ faults \in Nat
    BY <1>1, <1>3, BoundsAssumption DEF Fail, TypeOK
  <2> QED BY <2>1 DEF Due
<1>4. CASE Restart
  <2>1. faults' = faults + 1 /\ faults \in Nat
    BY <1>1, <1>4, BoundsAssumption DEF Restart, TypeOK
  <2> QED BY <2>1 DEF Due
<1>5. ASSUME NEW q \in Requests,
             RegisterStep(q) \/ ConfirmStep(q) \/ SellerStep(q)
      PROVE  Due(a, e)'
  <2>1. /\ links \subseteq links' /\ (UNCHANGED faults \/ faults' = faults + 1)
        /\ \/ UNCHANGED count
           \/ IncreaseEmailCount(q)
    BY <1>5 DEF RegisterStep, RegisterEmail, RegisterNotificationEmail,
         LookUpAccount, SavePending, IncreaseEmailCount, LookUpNotice,
         SaveNotice, SendConfirmEmail, ConfirmStep, ConfirmEmail,
         SaveConfirmed, StoreKyc, SkipKyc, ConfirmNotice, SellerStep,
         AddSellerCode, SaveSellerCode
  <2>2. faults > 0 => faults' > 0
    BY <1>1, <2>1, BoundsAssumption DEF TypeOK
  <2>3. count[a] + 1 = MaxMails => count'[a] + 1 = MaxMails
    BY <1>1, <2>1 DEF IncreaseEmailCount, TypeOK
  <2>4. ASSUME NEW p \in Requests, request[p].phase \in {"count", "send"},
               request[p].address = a, request[p].email = e
        PROVE  Due(a, e)'
    <3>1. CASE p = q
      BY <1>1, <1>5, <2>4, <3>1, DueOwn
    <3>2. CASE p # q
      <4>1. request'[p] = request[p]
        BY <1>1, <1>5, <3>2, OwnLocals
      <4> QED BY <2>4, <4>1 DEF Due
    <3> QED BY <3>1, <3>2
  <2> QED BY <2>1, <2>2, <2>3, <2>4 DEF Due
<1>6. CASE \/ UNCHANGED vars
           \/ \E b \in Addresses : CreateAccount(b)
           \/ \E b \in Noted : DeleteNotificationEmail(b)
  BY <1>6 DEF Due, vars, CreateAccount, DeleteNotificationEmail
<1> QED BY <1>3, <1>4, <1>5, <1>6 DEF Next

\* A request that has just read the row knows what the row says.
LEMMA CopyDueOwn ==
  ASSUME IInv, TypeOK', PendingMailed, NEW q \in Requests,
         \A a \in Addresses : \A e : Due(a, e) => Due(a, e)',
         RegisterStep(q) \/ ConfirmStep(q) \/ SellerStep(q), CopyDue(q)
  PROVE  CopyDue(q)'
<1>1. request[q] \in Request /\ TypeOK
  BY DEF IInv, TypeOK
<1>2. ASSUME NEW r, request'[q] = r,
             r.phase \notin {"register", "confirm", "seller"}
      PROVE  CopyDue(q)'
  BY <1>2 DEF CopyDue
<1>3. \A phase, a, e : For(phase, a, e).phase = phase
  BY DEF For, Idle
<1>4. CASE Answer(q)
  BY <1>1, <1>2, <1>4, Stepped
<1>5. ASSUME NEW phase \in {"count", "send", "kyc"}, NEW r \in Request,
             \/ Step(q, [r EXCEPT !.phase = phase])
             \/ Step(q, [[r EXCEPT !.phase = phase] EXCEPT
                           !.account = NoAccount])
             \/ Step(q, [r EXCEPT !.phase = phase, !.notice = NoNotice])
      PROVE  CopyDue(q)'
  <2>1. /\ [r EXCEPT !.phase = phase].phase = phase
        /\ [[r EXCEPT !.phase = phase] EXCEPT !.account = NoAccount].phase
             = phase
        /\ [r EXCEPT !.phase = phase, !.notice = NoNotice].phase = phase
    BY DEF Request
  <2> QED BY <1>1, <1>2, <1>5, <2>1, Stepped
<1>6. CASE RegisterStep(q)
  <2>1. ASSUME NEW phase \in {"look", "notice"}, NEW a, NEW e,
               Step(q, For(phase, a, e))
        PROVE  CopyDue(q)'
    BY <1>1, <1>2, <1>3, <2>1, Stepped
  <2>2. CASE LookUpAccount(q)
    <3> DEFINE row == accounts[request[q].address]
               r == [request[q] EXCEPT
                       !.phase = "register",
                       !.account = [row EXCEPT !.pending = request[q].email]]
    <3>1. row \in Account
      BY <2>2 DEF LookUpAccount, IInv, RequestInv, TypeOK
    <3>2. r.phase = "register" /\ r.account.pending = r.email
      BY <1>1, <3>1 DEF Request, Account
    <3>3. Step(q, r) \/ Answer(q)
      BY <2>2 DEF LookUpAccount
    <3> HIDE DEF r
    <3>4. CASE Step(q, r)
      <4>1. request'[q] = r
        BY <1>1, <3>4, Stepped
      <4> QED BY <3>2, <4>1 DEF CopyDue
    <3> QED BY <1>4, <3>3, <3>4
  <2>3. CASE LookUpNotice(q)
    <3> DEFINE row == notices[request[q].address]
               r == [request[q] EXCEPT
                       !.phase = "note",
                       !.notice = [row EXCEPT !.exists = TRUE,
                                              !.pending = request[q].email]]
    <3>1. r.phase = "note"
      BY <1>1 DEF Request
    <3>2. Step(q, r) \/ Answer(q)
      BY <2>3 DEF LookUpNotice
    <3> HIDE DEF r
    <3> QED BY <1>1, <1>2, <1>4, <3>1, <3>2, Stepped
  <2>4. CASE SavePending(q)
    BY <1>1, <1>4, <1>5, <2>4 DEF SavePending, UpdateAccount
  <2>5. CASE IncreaseEmailCount(q)
    BY <1>1, <1>4, <1>5, <2>5 DEF IncreaseEmailCount, Go
  <2>6. CASE SaveNotice(q)
    BY <1>1, <1>4, <1>5, <2>6 DEF SaveNotice
  <2>7. CASE SendConfirmEmail(q)
    BY <1>4, <2>7 DEF SendConfirmEmail
  <2> QED BY <1>6, <2>1, <2>2, <2>3, <2>4, <2>5, <2>6, <2>7
          DEF RegisterStep, RegisterEmail, RegisterNotificationEmail
<1>7. CASE ConfirmStep(q)
  <2>1. ASSUME NEW l \in links, ConfirmEmail(q, l) PROVE CopyDue(q)'
    <3> DEFINE row == accounts[l.address]
               read == For("confirmNotice", l.address, l.email)
    <3>1. row \in Account /\ read \in Request
      <4>1. l.address \in Addresses /\ l.email \in Emails
        BY <1>1 DEF TypeOK, Link
      <4> QED BY <1>1, <4>1, NewLocals DEF TypeOK, Phases
    <3>2. CASE UNCHANGED request
      <4>1. request[q].phase = "idle" /\ request'[q] = request[q]
        BY <2>1, <3>2 DEF ConfirmEmail
      <4> QED BY <1>2, <4>1
    <3>3. ASSUME NEW new \in Confirmed(row, l.email),
                 Step(q, [read EXCEPT !.phase = "confirm",
                                      !.account = new])
          PROVE  CopyDue(q)'
      <4>1. new.confirmed /\ new.pending = None
        BY <3>1 DEF Confirmed, Account
      <4> DEFINE r == [read EXCEPT !.phase = "confirm", !.account = new]
      <4>2. r.phase = "confirm" /\ r.account = new
        BY <3>1 DEF Request
      <4> HIDE DEF r
      <4>3. request'[q] = r
        BY <1>1, <3>3, Stepped DEF r
      <4> QED BY <4>1, <4>2, <4>3 DEF CopyDue
    <3>4. CASE Step(q, read)
      BY <1>1, <1>2, <1>3, <3>4, Stepped
    <3> QED BY <2>1, <3>2, <3>3, <3>4 DEF ConfirmEmail
  <2>2. CASE SaveConfirmed(q)
    BY <1>1, <1>4, <1>5, <2>2 DEF SaveConfirmed, UpdateAccount
  <2>3. CASE StoreKyc(q) \/ SkipKyc(q)
    BY <1>4, <2>3 DEF StoreKyc, SkipKyc
  <2>4. CASE ConfirmNotice(q)
    <3>1. \/ Answer(q)
          \/ \E n : Step(q, [request[q] EXCEPT !.phase = "confirmNote",
                                               !.notice = n])
      BY <2>4 DEF ConfirmNotice
    <3>2. ASSUME NEW n, Step(q, [request[q] EXCEPT !.phase = "confirmNote",
                                                   !.notice = n])
          PROVE  CopyDue(q)'
      <4> DEFINE r == [request[q] EXCEPT !.phase = "confirmNote",
                                         !.notice = n]
      <4>1. r.phase = "confirmNote"
        BY <1>1 DEF Request
      <4>2. request'[q] = r
        BY <1>1, <3>2, Stepped
      <4> HIDE DEF r
      <4> QED BY <1>2, <4>1, <4>2
    <3> QED BY <1>4, <3>1, <3>2
  <2> QED BY <1>7, <2>1, <2>2, <2>3, <2>4 DEF ConfirmStep
<1>8. CASE SellerStep(q)
  <2>1. ASSUME NEW a \in Addresses, AddSellerCode(q, a) PROVE CopyDue(q)'
    <3> DEFINE r == [For("seller", a, None) EXCEPT
                       !.account = [accounts[a] EXCEPT !.seller = TRUE]]
    <3>1. accounts[a] \in Account
      BY <1>1 DEF TypeOK
    <3>2. /\ r.phase = "seller" /\ r.address = a
          /\ r.account.pending = accounts[a].pending
      BY <3>1 DEF For, Idle, Account
    <3> HIDE DEF r
    <3>3. request'[q] = r
      BY <1>1, <2>1, Stepped DEF AddSellerCode, r
    <3>4. PICK e : e = accounts[a].pending
      OBVIOUS
    <3>5. Due(a, e)'
      BY <3>4 DEF PendingMailed
    <3>6. /\ request'[q].phase = "seller" /\ request'[q].address = a
          /\ request'[q].account.pending = e
      BY <3>2, <3>3, <3>4
    <3> QED BY <3>5, <3>6 DEF CopyDue, Due
  <2>2. CASE SaveSellerCode(q)
    <3> DEFINE r == [Idle EXCEPT !.account = NoAccount]
    <3>1. r.phase = "idle"
      BY DEF Idle
    <3>2. Step(q, r) \/ Answer(q)
      BY <2>2 DEF SaveSellerCode, UpdateAccount
    <3> HIDE DEF r
    <3> QED BY <1>1, <1>2, <1>4, <3>1, <3>2, Stepped
  <2> QED BY <1>8, <2>1, <2>2, UsersAssumption DEF SellerStep
<1> QED BY <1>6, <1>7, <1>8

\* A step on a row of accounts, and what it leaves in the row.
LEMMA SavedRow ==
  ASSUME IInv, TypeOK', NEW q \in Requests, NEW a \in Addresses,
         RegisterStep(q) \/ ConfirmStep(q) \/ SellerStep(q) \/ Fail(q),
         accounts'[a] # accounts[a]
  PROVE  /\ request[q].address = a /\ accounts'[a] = request[q].account
         /\ \/ /\ request[q].phase = "register"
               /\ request'[q].phase = "count"
               /\ request'[q].address = a
               /\ request'[q].email = request[q].email
            \/ request[q].phase \in {"confirm", "seller"}
<1>1. request[q] \in Request /\ TypeOK
  BY DEF IInv, TypeOK
<1>2. SavePending(q) \/ SaveConfirmed(q) \/ SaveSellerCode(q)
  BY DEF RegisterStep, RegisterEmail, RegisterNotificationEmail,
         LookUpAccount, IncreaseEmailCount, LookUpNotice, SaveNotice,
         SendConfirmEmail, ConfirmStep, ConfirmEmail, StoreKyc, SkipKyc,
         ConfirmNotice, SellerStep, AddSellerCode, Fail
<1>3. request[q].phase \in {"register", "confirm", "seller"}
  BY <1>2 DEF SavePending, SaveConfirmed, SaveSellerCode
<1>4. request[q].address \in Addresses
  BY <1>3 DEF IInv, RequestInv
<1>5. accounts' = [accounts EXCEPT ![request[q].address] =
                     request[q].account]
  BY <1>2 DEF SavePending, SaveConfirmed, SaveSellerCode, UpdateAccount
<1>6. request[q].address = a /\ accounts'[a] = request[q].account
  BY <1>1, <1>4, <1>5 DEF TypeOK
<1>7. CASE SavePending(q)
  <2> DEFINE r == [[request[q] EXCEPT !.phase = "count"] EXCEPT
                     !.account = NoAccount]
  <2>1. /\ r.phase = "count" /\ r.address = request[q].address
        /\ r.email = request[q].email
    BY <1>1 DEF Request
  <2>2. Step(q, r)
    BY <1>7 DEF SavePending, UpdateAccount
  <2> HIDE DEF r
  <2>3. request'[q] = r
    BY <1>1, <2>2, Stepped
  <2> QED BY <1>6, <1>7, <2>1, <2>3 DEF SavePending
<1>8. CASE SaveConfirmed(q) \/ SaveSellerCode(q)
  BY <1>6, <1>8 DEF SaveConfirmed, SaveSellerCode
<1> QED BY <1>2, <1>7, <1>8

LEMMA DueNext == IInv /\ DInv /\ [Next]_vars => DInv'
<1> SUFFICES ASSUME IInv, DInv, [Next]_vars PROVE DInv'
  OBVIOUS
<1>1. TypeOK /\ TypeOK'
  BY NextIInv DEF IInv
<1>2. \A a \in Addresses : \A e : Due(a, e) => Due(a, e)'
  BY DueKept
<1>3. ASSUME NEW a \in Addresses, NEW row, accounts'[a].pending = row.pending,
             Due(a, row.pending)
      PROVE  Due(a, accounts[a].pending)'
  <2>1. PICK e : e = row.pending
    OBVIOUS
  <2>2. Due(a, e)'
    BY <1>2, <1>3, <2>1
  <2> QED BY <1>3, <2>1, <2>2 DEF Due
<1>4. ASSUME NEW p \in Requests, CopyDue(p), request'[p] = request[p]
      PROVE  CopyDue(p)'
  <2>1. CASE request[p].phase # "seller"
    BY <1>4, <2>1 DEF CopyDue
  <2>2. CASE request[p].phase = "seller"
    <3>1. PICK a, e : a = request[p].address /\ e = request[p].account.pending
      OBVIOUS
    <3>2. a \in Addresses
      BY <2>2, <3>1 DEF IInv, RequestInv
    <3>3. Due(a, e)'
      BY <1>2, <1>4, <2>2, <3>1, <3>2 DEF CopyDue
    <3> QED BY <1>4, <2>2, <3>1, <3>3 DEF CopyDue, Due
  <2> QED BY <2>1, <2>2
<1>5. ASSUME NEW q \in Requests,
             RegisterStep(q) \/ ConfirmStep(q) \/ SellerStep(q) \/ Fail(q)
      PROVE  DInv'
  <2>1. \A p \in Requests \ {q} : request'[p] = request[p]
    BY <1>1, <1>5, OwnLocals
  <2>2. CopyDue(q)'
    <3>1. CASE Fail(q)
      <4>1. request'[q].phase = "idle"
        BY <1>1, <3>1, Stepped DEF Fail
      <4> QED BY <4>1 DEF CopyDue
    <3>2. CASE RegisterStep(q) \/ ConfirmStep(q) \/ SellerStep(q)
      BY <1>1, <1>2, <3>2, CopyDueOwn DEF DInv
    <3> QED BY <1>5, <3>1, <3>2
  <2>3. \A p \in Requests : CopyDue(p)'
    BY <1>4, <2>1, <2>2 DEF DInv
  <2>4. ASSUME NEW a \in Addresses PROVE Due(a, accounts[a].pending)'
    <3>1. CASE accounts'[a] = accounts[a]
      BY <1>3, <3>1 DEF DInv, PendingMailed
    <3>2. CASE accounts'[a] # accounts[a]
      <4>1. /\ request[q].address = a /\ accounts'[a] = request[q].account
            /\ \/ /\ request[q].phase = "register"
                  /\ request'[q].phase = "count"
                  /\ request'[q].address = a
                  /\ request'[q].email = request[q].email
               \/ request[q].phase \in {"confirm", "seller"}
        BY <1>1, <1>5, <3>2, SavedRow
      <4>2. CopyDue(q)
        BY DEF DInv
      <4>3. CASE request[q].phase = "register"
        <5>1. accounts'[a].pending = request[q].email
          BY <4>1, <4>2, <4>3 DEF CopyDue
        <5> QED BY <4>1, <4>3, <5>1 DEF Due
      <4>4. CASE request[q].phase = "confirm"
        BY <4>1, <4>2, <4>4 DEF CopyDue, Due
      <4>5. CASE request[q].phase = "seller"
        BY <1>3, <4>1, <4>2, <4>5 DEF CopyDue
      <4> QED BY <4>1, <4>3, <4>4, <4>5
    <3> QED BY <3>1, <3>2
  <2> QED BY <2>3, <2>4 DEF DInv, PendingMailed
<1>6. CASE \/ UNCHANGED vars
           \/ \E a \in Addresses : CreateAccount(a)
           \/ \E a \in Noted : DeleteNotificationEmail(a)
  <2>1. UNCHANGED request
    BY <1>6 DEF vars, CreateAccount, DeleteNotificationEmail
  <2>2. ASSUME NEW a \in Addresses
        PROVE  accounts'[a].pending = accounts[a].pending
    <3>1. accounts[a] \in Account
      BY <1>1 DEF TypeOK
    <3> QED
      BY <1>1, <1>6, <3>1
         DEF vars, CreateAccount, DeleteNotificationEmail, TypeOK, Account
  <2>3. \A p \in Requests : CopyDue(p)'
    BY <1>4, <2>1 DEF DInv
  <2> QED BY <1>3, <2>2, <2>3 DEF DInv, PendingMailed
<1>7. CASE Restart
  <2>1. faults' > 0
    BY <1>1, <1>7, BoundsAssumption DEF Restart, TypeOK
  <2>2. \A q \in Requests : request'[q].phase = "idle"
    BY <1>7 DEF Restart, Idle
  <2> QED BY <2>1, <2>2 DEF DInv, PendingMailed, CopyDue, Due
<1> QED BY <1>5, <1>6, <1>7 DEF Next

(***************************************************************************)
(* The row and every copy of it that may still be saved name a pending     *)
(* address that is accounted for (accountService.go:41-77).                *)
(***************************************************************************)
THEOREM DueHolds == Spec => []DInv
<1>1. Init => DInv
  BY DEF Init, NoAccount, Idle, DInv, PendingMailed, CopyDue, Due
<1> QED BY <1>1, DueNext, Inductive, PTL DEF Spec

(***************************************************************************)
(* A pending address that no link was mailed to has its own request under  *)
(* way, or its account met the limit of mails or an error, also when       *)
(* addSellerCode saves the row again (accountService.go:63-77,             *)
(* account.go:534-606).                                                    *)
(***************************************************************************)
THEOREM PendingAreMailed == Spec => []PendingMailed
<1>1. DInv => PendingMailed
  BY DEF DInv
<1> QED BY <1>1, DueHolds, PTL

(***************************************************************************)
(* Only a copy of the row that addSellerCode or RegisterEmail had read     *)
(* undoes a confirmation, for any requests at once (accountStorer.go:71).  *)
(***************************************************************************)
THEOREM LossIsExplained == Spec => ConfirmedLossExplained
<1>1. ASSUME IInv, DInv, [Next]_vars, NEW a \in Addresses, Loses(a)
      PROVE  \E q \in Requests : /\ request[q].address = a
                                 /\ \/ request[q].phase = "seller"
                                    \/ request'[q].phase = "count"
  <2>1. TypeOK /\ TypeOK'
    BY NextIInv, <1>1 DEF IInv
  <2>2. accounts'[a] # accounts[a]
    BY <1>1 DEF Loses
  <2>3. ASSUME NEW q \in Requests,
               RegisterStep(q) \/ ConfirmStep(q) \/ SellerStep(q) \/ Fail(q)
        PROVE  /\ request[q].address = a
               /\ \/ request[q].phase = "seller"
                  \/ request'[q].phase = "count"
    <3>1. /\ request[q].address = a /\ accounts'[a] = request[q].account
          /\ \/ request[q].phase = "register" /\ request'[q].phase = "count"
             \/ request[q].phase \in {"confirm", "seller"}
      BY <1>1, <2>1, <2>2, <2>3, SavedRow
    <3>2. request[q].phase # "confirm"
      BY <1>1, <3>1 DEF DInv, CopyDue, Loses
    <3> QED BY <3>1, <3>2
  <2>4. ASSUME NEW b \in Addresses, CreateAccount(b) PROVE FALSE
    <3>1. accounts[a] \in Account
      BY <2>1 DEF TypeOK
    <3>2. accounts'[a].confirmed = accounts[a].confirmed
      BY <2>1, <2>4, <3>1 DEF CreateAccount, TypeOK, Account
    <3> QED BY <1>1, <3>2 DEF Loses
  <2> QED BY <1>1, <2>2, <2>3, <2>4
          DEF Next, vars, DeleteNotificationEmail, Restart
<1>2. IInv /\ DInv /\ [Next]_vars =>
        [\A a \in Addresses : Loses(a) =>
           \E q \in Requests :
             /\ request[q].address = a
             /\ \/ request[q].phase = "seller"
                \/ request'[q].phase = "count"]_vars
  BY <1>1
<1> QED BY <1>2, Inductive, DueHolds, PTL DEF Spec, ConfirmedLossExplained

-----------------------------------------------------------------------------
(* Deleted notification addresses.                                         *)

Copying == {"note", "confirmNote"}

\* A row that says anything is there.
NoticeThere(row) == row.confirmed \/ row.pending # None => row.exists

\* What request q saves is a row that is there, and a confirmed one only if
\* the row was there when it read it and is still.
CopyThere(q) ==
  request[q].phase \in Copying =>
    /\ request[q].notice.exists
    /\ request[q].notice.confirmed =>
         q \in outdated \/ notices[request[q].address].exists

NoticeInv ==
  /\ \A a \in Addresses : NoticeThere(notices[a])
  /\ \A q \in Requests : CopyThere(q)

\* Request q takes a step, the notices stay as they are, and the copy that q
\* may have made of one is there.
LEMMA NoticesKept ==
  ASSUME NoticeInv, UNCHANGED notices, NEW q \in Requests,
         outdated \ {q} \subseteq outdated',
         \A p \in Requests \ {q} : request'[p] = request[p],
         CopyThere(q)'
  PROVE  NoticeInv'
BY DEF NoticeInv, CopyThere

LEMMA CopyLess ==
  ASSUME TypeOK, NEW q \in Requests
  PROVE  /\ Answer(q) => request'[q].phase \notin Copying
         /\ \A phase \in Phases \ Copying :
              /\ Go(q, phase) => request'[q].phase \notin Copying
              /\ \A row : Step(q, [request[q] EXCEPT !.phase = phase,
                                                    !.account = row])
                          => request'[q].phase \notin Copying
              /\ \A a, e :
                   /\ Step(q, For(phase, a, e))
                        => request'[q].phase \notin Copying
                   /\ \A row : Step(q, [For(phase, a, e)
                                         EXCEPT !.account = row])
                               => request'[q].phase \notin Copying
<1>1. request[q] \in Request
  BY DEF TypeOK
<1>2. ASSUME Answer(q) PROVE request'[q].phase \notin Copying
  BY <1>2, Stepped DEF Copying
<1>3. ASSUME NEW l, Step(q, l), l.phase \notin Copying
      PROVE  request'[q].phase \notin Copying
  BY <1>3, Stepped
<1>4. ASSUME NEW phase \in Phases \ Copying
      PROVE  /\ [request[q] EXCEPT !.phase = phase].phase = phase
             /\ \A row : [request[q] EXCEPT !.phase = phase,
                                          !.account = row].phase = phase
  BY <1>1 DEF Request
<1>5. \A phase, a, e :
        /\ For(phase, a, e).phase = phase
        /\ \A row : [For(phase, a, e) EXCEPT !.account = row].phase = phase
  BY DEF For, Idle
<1>6. ASSUME NEW phase \in Phases \ Copying
      PROVE  /\ Go(q, phase) => request'[q].phase \notin Copying
             /\ \A row : Step(q, [request[q] EXCEPT !.phase = phase,
                                                   !.account = row])
                         => request'[q].phase \notin Copying
  BY <1>3, <1>4 DEF Go
<1>7. ASSUME NEW phase \in Phases \ Copying, NEW a, NEW e
      PROVE  /\ Step(q, For(phase, a, e)) => request'[q].phase \notin Copying
             /\ \A row : Step(q, [For(phase, a, e) EXCEPT !.account = row])
                         => request'[q].phase \notin Copying
  <2> DEFINE f == For(phase, a, e)
  <2>1. f.phase \notin Copying
    BY <1>5, <1>7
  <2>2. \A row : [f EXCEPT !.account = row].phase \notin Copying
    BY <1>5, <1>7
  <2> HIDE DEF f
  <2>3. Step(q, f) => request'[q].phase \notin Copying
    BY <1>3, <2>1
  <2>4. ASSUME NEW row, Step(q, [f EXCEPT !.account = row])
        PROVE  request'[q].phase \notin Copying
    BY <1>3, <2>2, <2>4
  <2> QED BY <2>3, <2>4 DEF f
<1> QED BY <1>2, <1>6, <1>7

\* The steps that neither read nor save a notice.
LEMMA OtherNotices ==
  ASSUME IInv, NoticeInv, NEW q \in Requests,
         RegisterStep(q) \/ ConfirmStep(q) \/ SellerStep(q) \/ Fail(q),
         ~LookUpNotice(q), ~SaveNotice(q), ~ConfirmNotice(q)
  PROVE  NoticeInv'
<1>1. TypeOK
  BY DEF IInv
<1>2. request[q] \in Request
  BY <1>1 DEF TypeOK
<1>3. UNCHANGED notices /\ outdated \ {q} \subseteq outdated'
  BY DEF RegisterStep, RegisterEmail, RegisterNotificationEmail,
         LookUpAccount, SavePending, IncreaseEmailCount, SendConfirmEmail,
         ConfirmStep, ConfirmEmail, SaveConfirmed, StoreKyc, SkipKyc,
         SellerStep, AddSellerCode, SaveSellerCode, Fail
<1>4. ASSUME NEW next \in Request, next.phase \notin Copying,
             UpdateAccount(q, next)
      PROVE  request'[q].phase \notin Copying
  <2>1. [next EXCEPT !.account = NoAccount].phase = next.phase
    BY DEF Request
  <2> QED BY <1>1, <1>4, <2>1, CopyLess, Stepped DEF UpdateAccount
<1>5. \A phase \in Phases :
        LET next == [request[q] EXCEPT !.phase = phase] IN
        next \in Request /\ next.phase = phase
  BY <1>2 DEF Request
<1>6. \/ request'[q].phase \notin Copying
      \/ request[q].phase = "idle" /\ UNCHANGED request
  <2>1. CASE \/ SavePending(q) \/ SaveConfirmed(q) \/ SaveSellerCode(q)
    <3>1. CASE SavePending(q)
      BY <1>4, <1>5, <3>1 DEF SavePending, Phases, Copying
    <3>2. CASE SaveConfirmed(q)
      BY <1>4, <1>5, <3>2 DEF SaveConfirmed, Phases, Copying
    <3>3. CASE SaveSellerCode(q)
      <4>1. Idle \in Request /\ Idle.phase \notin Copying
        BY Empty DEF Idle, Copying
      <4> QED BY <1>4, <3>3, <4>1 DEF SaveSellerCode
    <3> QED BY <2>1, <3>1, <3>2, <3>3
  <2>2. CASE \/ \E e \in Emails :
                  \/ \E a \in Addresses : RegisterEmail(q, a, e)
                  \/ \E a \in Noted : RegisterNotificationEmail(q, a, e)
             \/ LookUpAccount(q) \/ IncreaseEmailCount(q)
             \/ SendConfirmEmail(q) \/ StoreKyc(q) \/ SkipKyc(q)
             \/ Fail(q)
             \/ \E a \in Buyers : AddSellerCode(q, a)
    <3>1. {"look", "notice", "register", "send", "seller"}
            \subseteq Phases \ Copying
      BY DEF Phases, Copying
    <3>2. CASE \E e \in Emails :
                 \/ \E a \in Addresses : RegisterEmail(q, a, e)
                 \/ \E a \in Noted : RegisterNotificationEmail(q, a, e)
      BY <1>1, <3>1, <3>2, CopyLess DEF RegisterEmail, RegisterNotificationEmail
    <3>3. CASE LookUpAccount(q)
      BY <1>1, <3>1, <3>3, CopyLess DEF LookUpAccount
    <3>4. CASE IncreaseEmailCount(q)
      BY <1>1, <3>1, <3>4, CopyLess DEF IncreaseEmailCount
    <3>5. CASE \/ SendConfirmEmail(q) \/ StoreKyc(q) \/ SkipKyc(q)
               \/ Fail(q)
      BY <1>1, <3>5, CopyLess
         DEF SendConfirmEmail, StoreKyc, SkipKyc, Fail
    <3>6. CASE \E a \in Buyers : AddSellerCode(q, a)
      BY <1>1, <3>1, <3>6, CopyLess DEF AddSellerCode
    <3> QED BY <2>2, <3>2, <3>3, <3>4, <3>5, <3>6
  <2>3. CASE \E l \in links : ConfirmEmail(q, l)
    <3>1. PICK l \in links : ConfirmEmail(q, l)
      BY <2>3
    <3> DEFINE read == For("confirmNotice", l.address, l.email)
    <3>2. CASE UNCHANGED request
      BY <3>1, <3>2 DEF ConfirmEmail
    <3>3. CASE Step(q, read)
      <4>1. "confirmNotice" \in Phases \ Copying
        BY DEF Phases, Copying
      <4> QED BY <1>1, <3>3, <4>1, CopyLess
    <3>4. ASSUME NEW new,
                 Step(q, [read EXCEPT !.phase = "confirm", !.account = new])
          PROVE  request'[q].phase \notin Copying
      <4>1. [read EXCEPT !.phase = "confirm", !.account = new].phase = "confirm"
        BY DEF For, Idle
      <4> QED BY <1>1, <3>4, <4>1, Stepped DEF Copying
    <3> QED BY <3>1, <3>2, <3>3, <3>4 DEF ConfirmEmail
  <2> QED BY <2>1, <2>2, <2>3 DEF RegisterStep, ConfirmStep, SellerStep
<1>7. CopyThere(q)'
  BY <1>6 DEF CopyThere, Copying
<1>8. \A p \in Requests \ {q} : request'[p] = request[p]
  BY <1>1, OwnLocals
<1> QED BY <1>3, <1>7, <1>8, NoticesKept

\* A copy of the row is made, which is one that is there.
LEMMA ReadNotices ==
  ASSUME IInv, NoticeInv, NEW q \in Requests,
         LookUpNotice(q) \/ ConfirmNotice(q)
  PROVE  NoticeInv'
<1> DEFINE a == request[q].address
           e == request[q].email
           row == notices[a]
<1>1. /\ TypeOK /\ request[q] \in Request /\ a \in Addresses /\ e \in Emails
      /\ row \in Notice
  BY DEF LookUpNotice, ConfirmNotice, IInv, TypeOK, RequestInv
<1>2. NoticeThere(row) /\ UNCHANGED notices /\ UNCHANGED outdated
  BY <1>1 DEF NoticeInv, LookUpNotice, ConfirmNotice
<1>3. e # None
  BY <1>1, NoneAssumption
<1>4. \A p \in Requests \ {q} : request'[p] = request[p]
  BY <1>1, OwnLocals DEF RegisterStep, ConfirmStep
<1>5. CASE Answer(q)
  <2>1. CopyThere(q)'
    BY <1>1, <1>5, CopyLess DEF CopyThere
  <2> QED BY <1>2, <1>4, <2>1, NoticesKept
<1>6. ASSUME NEW n \in Notice, NEW phase \in Copying, n.exists,
             n.confirmed => row.exists,
             Step(q, [request[q] EXCEPT !.phase = phase, !.notice = n])
      PROVE  NoticeInv'
  <2>1. /\ request'[q].address = a /\ request'[q].notice = n
    <3> DEFINE l == [request[q] EXCEPT !.phase = phase, !.notice = n]
    <3>1. l.address = a /\ l.notice = n
      BY <1>1 DEF Request
    <3>2. request'[q] = l
      BY <1>1, <1>6, Stepped
    <3> QED BY <3>1, <3>2
  <2>2. CopyThere(q)'
    BY <1>2, <1>6, <2>1 DEF CopyThere
  <2> QED BY <1>2, <1>4, <2>2, NoticesKept
<1>7. CASE LookUpNotice(q)
  <2> DEFINE n == [row EXCEPT !.exists = TRUE, !.pending = e]
  <2>1. n \in Notice /\ n.exists /\ (n.confirmed => row.exists)
    BY <1>1, <1>2 DEF Notice, NoticeThere
  <2>2. \/ Answer(q)
        \/ Step(q, [request[q] EXCEPT !.phase = "note", !.notice = n])
    BY <1>7 DEF LookUpNotice
  <2> HIDE DEF n
  <2> QED BY <1>5, <1>6, <2>1, <2>2 DEF Copying
<1>8. CASE ConfirmNotice(q)
  <2>1. \A n \in Confirmed(row, e) : n \in Notice /\ n.exists /\ row.exists
    BY <1>1, <1>2, <1>3 DEF Confirmed, Notice, NoticeThere
  <2>2. row.confirmed => row.exists
    BY <1>2 DEF NoticeThere
  <2>3. \/ Answer(q)
        \/ \E n \in Notice :
             /\ n.exists /\ row.exists
             /\ Step(q, [request[q] EXCEPT !.phase = "confirmNote",
                                           !.notice = n])
    BY <1>1, <1>8, <2>1, <2>2 DEF ConfirmNotice
  <2> QED BY <1>5, <1>6, <2>3 DEF Copying
<1> QED BY <1>7, <1>8

LEMMA SaveNotices ==
  ASSUME IInv, NoticeInv, NEW q \in Requests, SaveNotice(q)
  PROVE  NoticeInv'
<1> DEFINE a == request[q].address
<1>1. TypeOK /\ request[q] \in Request /\ a \in Addresses
  BY DEF SaveNotice, IInv, TypeOK, RequestInv
<1>2. /\ notices'[a] = request[q].notice
      /\ \A b \in Addresses \ {a} : notices'[b] = notices[b]
  BY <1>1 DEF SaveNotice, TypeOK
<1>3. request[q].notice.exists
  BY DEF SaveNotice, NoticeInv, CopyThere, Copying
<1>4. \A b \in Addresses : NoticeThere(notices[b])'
  BY <1>2, <1>3 DEF NoticeInv, NoticeThere
<1>5. request'[q].phase \notin Copying
  <2>1. CASE Answer(q)
    BY <1>1, <2>1, CopyLess
  <2>2. CASE Step(q, [request[q] EXCEPT !.phase = "send", !.notice = NoNotice])
    <3> DEFINE l == [request[q] EXCEPT !.phase = "send", !.notice = NoNotice]
    <3>1. l.phase = "send"
      BY <1>1 DEF Request
    <3>2. request'[q] = l
      BY <1>1, <2>2, Stepped
    <3> QED BY <3>1, <3>2 DEF Copying
  <2> QED BY <2>1, <2>2 DEF SaveNotice
<1>6. \A p \in Requests \ {q} : request'[p] = request[p]
  BY <1>1, OwnLocals DEF RegisterStep
<1>7. ASSUME NEW p \in Requests PROVE CopyThere(p)'
  <2>1. CASE p = q
    BY <1>5, <2>1 DEF CopyThere
  <2>2. CASE p # q /\ request[p].phase \in Copying
    <3>1. request[p].address \in Addresses
      BY <2>2 DEF IInv, RequestInv, Copying
    <3>2. CopyThere(p) /\ request'[p] = request[p]
      BY <1>6, <2>2 DEF NoticeInv
    <3>3. p \in outdated => p \in outdated'
      BY <2>2 DEF SaveNotice
    <3> QED BY <1>2, <1>3, <2>2, <3>1, <3>2, <3>3 DEF CopyThere
  <2>3. CASE p # q /\ request[p].phase \notin Copying
    BY <1>6, <2>3 DEF CopyThere
  <2> QED BY <2>1, <2>2, <2>3
<1> QED BY <1>4, <1>7 DEF NoticeInv

LEMMA DeleteNotices ==
  ASSUME IInv, NoticeInv, NEW a \in Noted, DeleteNotificationEmail(a)
  PROVE  NoticeInv'
<1>1. a \in Addresses
  BY UsersAssumption
<1>2. /\ notices'[a] = NoNotice
      /\ \A b \in Addresses \ {a} : notices'[b] = notices[b]
  BY <1>1 DEF DeleteNotificationEmail, IInv, TypeOK
<1>3. \A b \in Addresses : NoticeThere(notices[b])'
  BY <1>2 DEF NoticeInv, NoticeThere, NoNotice
<1>4. ASSUME NEW p \in Requests PROVE CopyThere(p)'
  <2> SUFFICES ASSUME request[p].phase \in Copying
               PROVE  CopyThere(p)'
    BY DEF CopyThere, DeleteNotificationEmail
  <2>1. /\ CopyThere(p) /\ UNCHANGED request
        /\ p \in outdated => p \in outdated'
        /\ HasCopy(p, a) => p \in outdated'
    BY DEF NoticeInv, DeleteNotificationEmail
  <2>2. request[p].address \in Addresses
    BY DEF IInv, RequestInv, Copying
  <2>3. CASE request[p].address = a
    BY <2>1, <2>3 DEF CopyThere, HasCopy, Copying
  <2>4. CASE request[p].address # a
    BY <1>2, <2>1, <2>2, <2>4 DEF CopyThere
  <2> QED BY <2>3, <2>4
<1> QED BY <1>3, <1>4 DEF NoticeInv

LEMMA NextNotices == IInv /\ NoticeInv /\ [Next]_vars => NoticeInv'
<1> SUFFICES ASSUME IInv, NoticeInv, [Next]_vars PROVE NoticeInv'
  OBVIOUS
<1>1. ASSUME NEW q \in Requests,
             RegisterStep(q) \/ ConfirmStep(q) \/ SellerStep(q) \/ Fail(q)
      PROVE  NoticeInv'
  BY <1>1, OtherNotices, ReadNotices, SaveNotices
<1>2. CASE UNCHANGED vars \/ \E a \in Addresses : CreateAccount(a)
  BY <1>2 DEF vars, CreateAccount, NoticeInv, NoticeThere, CopyThere
<1>3. ASSUME NEW a \in Noted, DeleteNotificationEmail(a) PROVE NoticeInv'
  BY <1>3, DeleteNotices
<1>4. CASE Restart
  BY <1>4 DEF Restart, Idle, Copying, NoticeInv, NoticeThere, CopyThere
<1> QED BY <1>1, <1>2, <1>3, <1>4 DEF Next

LEMMA NoticesHold == Spec => []NoticeInv
<1>1. Init => NoticeInv
  BY DEF Init, NoNotice, Idle, Copying, NoticeInv, NoticeThere, CopyThere
<1> QED BY <1>1, NextNotices, Inductive, PTL DEF Spec

(***************************************************************************)
(* Only a copy that was read before the deletion brings a deleted address  *)
(* back into use, and no link opened after it, for any requests at once    *)
(* (notificationEmailService.go:62-97, accountService.go:106-119).         *)
(***************************************************************************)
THEOREM DeletionIsExplained == Spec => DeletionUndoneExplained
<1>1. ASSUME IInv, NoticeInv, [Next]_vars, NEW a \in Addresses,
             ~notices[a].exists, notices'[a].confirmed
      PROVE  \E q \in outdated : request[q].address = a
  <2>1. TypeOK /\ NoticeInv'
    BY <1>1, NextNotices DEF IInv
  <2>2. notices'[a] # notices[a]
    BY <1>1 DEF NoticeInv, NoticeThere
  <2>3. ASSUME NEW q \in Requests,
               RegisterStep(q) \/ ConfirmStep(q) \/ SellerStep(q) \/ Fail(q)
        PROVE  \E p \in outdated : request[p].address = a
    <3>1. SaveNotice(q)
      BY <2>2, <2>3
         DEF RegisterStep, RegisterEmail, RegisterNotificationEmail,
             LookUpAccount, SavePending, IncreaseEmailCount, LookUpNotice,
             SendConfirmEmail, ConfirmStep, ConfirmEmail, SaveConfirmed,
             StoreKyc, SkipKyc, ConfirmNotice, SellerStep, AddSellerCode,
             SaveSellerCode, Fail
    <3>2. request[q].address = a /\ notices'[a] = request[q].notice
      BY <2>1, <2>2, <3>1 DEF SaveNotice, TypeOK
    <3>3. CopyThere(q) /\ request[q].phase \in Copying
      BY <1>1, <3>1 DEF NoticeInv, SaveNotice, Copying
    <3> QED BY <1>1, <3>2, <3>3 DEF CopyThere
  <2>4. ASSUME NEW b \in Noted, DeleteNotificationEmail(b) PROVE FALSE
    BY <1>1, <2>1, <2>2, <2>4 DEF DeleteNotificationEmail, TypeOK, NoNotice
  <2> QED BY <1>1, <2>2, <2>3, <2>4 DEF Next, vars, CreateAccount, Restart
<1>2. IInv /\ NoticeInv /\ [Next]_vars =>
        [\A a \in Addresses :
           ~notices[a].exists /\ notices'[a].confirmed =>
             \E q \in outdated : request[q].address = a]_vars
  BY <1>1
<1> QED BY <1>2, Inductive, NoticesHold, PTL DEF Spec, DeletionUndoneExplained
=============================================================================
