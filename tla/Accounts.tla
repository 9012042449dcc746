------------------------------ MODULE Accounts ------------------------------
(***************************************************************************)
(* Accounts and their e-mail addresses: registering and confirming the     *)
(* primary address (service/accountService.go), registering, confirming    *)
(* and deleting the notification address                                   *)
(* (service/notificationEmailService.go), and using a seller's code        *)
(* (proxy/handlers/account.go).                                            *)
(*                                                                         *)
(* Every request reads rows, changes its copies and saves them whole; the  *)
(* only thing the database sees to is that no two accounts have the same   *)
(* confirmed address.  An address is confirmed by opening a link that was  *)
(* mailed to it; a link does not say which of the two addresses it is for. *)
(***************************************************************************)
EXTENDS Naturals, FiniteSets

CONSTANTS
  Requests,    \* requests that may be in progress at once
  Addresses,   \* blockchain addresses, which accounts are known by
  Emails,      \* e-mail addresses
  Buyers,      \* addresses whose owners use a seller's code
  Noted,       \* addresses whose owners have a notification address
  MaxMails,    \* maxEmailsPerAddress
  MaxLinks,    \* bound: links mailed
  MaxFaults    \* bound: errors and crashes

ASSUME UsersAssumption ==
  Buyers \subseteq Addresses /\ Noted \subseteq Addresses
ASSUME BoundsAssumption ==
  /\ MaxMails \in Nat \ {0}
  /\ MaxLinks \in Nat
  /\ MaxFaults \in Nat

None == "none"

ASSUME NoneAssumption == None \notin Emails

VARIABLES
  accounts,    \* table accounts
  notices,     \* table account_notification_emails
  kycs,        \* e-mail addresses with a row in table kycs
  count,       \* cMap, the server's count of mails for an address
  links,       \* links mailed
  opened,      \* links that have been opened
  request,     \* the requests, with their local variables
  cut,         \* addresses whose request ended before its row of kycs
  unread,      \* addresses whose confirmation could not look for that row
  outdated,    \* requests with a copy of a notice that has been deleted
  faults       \* errors and crashes so far

\* cut, unread and outdated are history, for the properties.
vars == <<accounts, notices, kycs, count, links, opened, request, cut,
          unread, outdated, faults>>

Account == [exists : BOOLEAN, email : Emails \cup {None},
            confirmed : BOOLEAN, pending : Emails \cup {None},
            seller : BOOLEAN]

NoAccount == [exists |-> FALSE, email |-> None, confirmed |-> FALSE,
              pending |-> None, seller |-> FALSE]

Notice == [exists : BOOLEAN, email : Emails \cup {None},
           confirmed : BOOLEAN, pending : Emails \cup {None}]

NoNotice == [exists |-> FALSE, email |-> None, confirmed |-> FALSE,
             pending |-> None]

Link == [address : Addresses, email : Emails]

Phases == {"idle", "look", "register", "count", "send", "notice", "note",
           "confirm", "kyc", "confirmNotice", "confirmNote", "seller"}

Request == [phase : Phases, address : Addresses \cup {None},
            email : Emails \cup {None}, account : Account, notice : Notice]

Idle == [phase |-> "idle", address |-> None, email |-> None,
         account |-> NoAccount, notice |-> NoNotice]

TypeOK ==
  /\ accounts \in [Addresses -> Account]
  /\ notices \in [Addresses -> Notice]
  /\ kycs \subseteq Emails
  /\ count \in [Addresses -> 0..(MaxMails - 1)]
  /\ links \subseteq Link
  /\ opened \subseteq links
  /\ request \in [Requests -> Request]
  /\ cut \subseteq Addresses
  /\ unread \subseteq Addresses
  /\ outdated \subseteq Requests
  /\ faults \in 0..MaxFaults

Init ==
  /\ accounts = [a \in Addresses |-> NoAccount]
  /\ notices = [a \in Addresses |-> NoNotice]
  /\ kycs = {}
  /\ count = [a \in Addresses |-> 0]
  /\ links = {}
  /\ opened = {}
  /\ request = [q \in Requests |-> Idle]
  /\ cut = {}
  /\ unread = {}
  /\ outdated = {}
  /\ faults = 0

-----------------------------------------------------------------------------
\* A request for address a and e-mail e, in the given phase.
For(phase, a, e) ==
  [Idle EXCEPT !.phase = phase, !.address = a, !.email = e]

Step(q, locals) == request' = [request EXCEPT ![q] = locals]
Go(q, phase) == Step(q, [request[q] EXCEPT !.phase = phase])
Answer(q) == Step(q, Idle)

\* Faulty variant of CreateAccount: a row that is there is overwritten.
CreateAccountAnew(a) ==
  /\ accounts' = [accounts EXCEPT ![a] = [NoAccount EXCEPT !.exists = TRUE]]
  /\ UNCHANGED <<notices, kycs, count, links, opened, request, cut, unread,
                 outdated, faults>>

\* GetOrCreateAccount, on the first request of an address.
CreateAccount(a) ==
  /\ ~accounts[a].exists
  /\ accounts' = [accounts EXCEPT ![a].exists = TRUE]
  /\ UNCHANGED <<notices, kycs, count, links, opened, request, cut, unread,
                 outdated, faults>>

\* The unique index of column email.
Unique(a, e) == e = None \/ \A b \in Addresses \ {a} : accounts[b].email # e

\* UpdateAccount: the whole copy is saved, and the request goes on with next.
UpdateAccount(q, next) ==
  LET a == request[q].address IN
  \/ /\ Unique(a, request[q].account.email)
     /\ accounts' = [accounts EXCEPT ![a] = request[q].account]
     /\ Step(q, [next EXCEPT !.account = NoAccount])
  \/ /\ ~Unique(a, request[q].account.email)
     /\ Answer(q)
     /\ UNCHANGED accounts

-----------------------------------------------------------------------------
(* RegisterEmail.                                                          *)

\* No account has the e-mail.
RegisterEmail(q, a, e) ==
  /\ request[q].phase = "idle"
  /\ \A b \in Addresses : accounts[b].email # e
  /\ Step(q, For("look", a, e))
  /\ UNCHANGED <<accounts, notices, kycs, count, links, opened, cut, unread,
                 outdated, faults>>

\* The account must exist and have no confirmed e-mail.
LookUpAccount(q) ==
  /\ request[q].phase = "look"
  /\ LET row == accounts[request[q].address] IN
     \/ (~row.exists \/ row.confirmed) /\ Answer(q)
     \/ /\ row.exists /\ ~row.confirmed
        /\ Step(q, [request[q] EXCEPT
                      !.phase = "register",
                      !.account = [row EXCEPT !.pending = request[q].email]])
  /\ UNCHANGED <<accounts, notices, kycs, count, links, opened, cut, unread,
                 outdated, faults>>

SavePending(q) ==
  /\ request[q].phase = "register"
  /\ UpdateAccount(q, [request[q] EXCEPT !.phase = "count"])
  /\ UNCHANGED <<notices, kycs, count, links, opened, cut, unread, outdated,
                 faults>>

\* Faulty variant of IncreaseEmailCount: the limit is reached one too early.
IncreaseEmailCountLess(q) ==
  /\ request[q].phase = "count"
  /\ LET a == request[q].address IN
     \/ /\ count[a] + 2 >= MaxMails
        /\ Answer(q)
        /\ UNCHANGED count
     \/ /\ count[a] + 2 < MaxMails
        /\ count' = [count EXCEPT ![a] = @ + 1]
        /\ Go(q, "send")
  /\ UNCHANGED <<accounts, notices, kycs, links, opened, cut, unread,
                 outdated, faults>>

\* The limit is looked at when the pending e-mail is stored already.
IncreaseEmailCount(q) ==
  /\ request[q].phase = "count"
  /\ LET a == request[q].address IN
     \/ /\ count[a] + 1 = MaxMails
        /\ Answer(q)
        /\ UNCHANGED count
     \/ /\ count[a] + 1 # MaxMails
        /\ count' = [count EXCEPT ![a] = @ + 1]
        /\ Go(q, "send")
  /\ UNCHANGED <<accounts, notices, kycs, links, opened, cut, unread,
                 outdated, faults>>

SendConfirmEmail(q) ==
  /\ request[q].phase = "send"
  /\ links' = links \cup {[address |-> request[q].address,
                          email |-> request[q].email]}
  /\ Cardinality(links') <= MaxLinks
  /\ Answer(q)
  /\ UNCHANGED <<accounts, notices, kycs, count, opened, cut, unread,
                 outdated, faults>>

-----------------------------------------------------------------------------
(* The notification address.                                               *)

\* It must not be the primary one, nor be waiting to become it.
RegisterNotificationEmail(q, a, e) ==
  /\ request[q].phase = "idle"
  /\ accounts[a].confirmed
  /\ e \notin {accounts[a].email, accounts[a].pending}
  /\ Step(q, For("notice", a, e))
  /\ UNCHANGED <<accounts, notices, kycs, count, links, opened, cut, unread,
                 outdated, faults>>

LookUpNotice(q) ==
  /\ request[q].phase = "notice"
  /\ LET row == notices[request[q].address] IN
     \/ row.confirmed /\ row.email = request[q].email /\ Answer(q)
     \/ /\ ~(row.confirmed /\ row.email = request[q].email)
        /\ Step(q, [request[q] EXCEPT
                      !.phase = "note",
                      !.notice = [row EXCEPT !.exists = TRUE,
                                             !.pending = request[q].email]])
  /\ UNCHANGED <<accounts, notices, kycs, count, links, opened, cut, unread,
                 outdated, faults>>

\* CreateOrUpdateAccountNotificationEmail, for a pending address or a
\* confirmed one; a row deleted meanwhile is made anew.
SaveNotice(q) ==
  /\ request[q].phase \in {"note", "confirmNote"}
  /\ notices' = [notices EXCEPT ![request[q].address] = request[q].notice]
  /\ \/ request[q].phase = "confirmNote" /\ Answer(q)
     \/ /\ request[q].phase = "note"
        /\ Step(q, [request[q] EXCEPT !.phase = "send", !.notice = NoNotice])
  /\ outdated' = outdated \ {q}
  /\ UNCHANGED <<accounts, kycs, count, links, opened, cut, unread, faults>>

\* Request q has read the row of address a, and has yet to save it.
HasCopy(q, a) ==
  request[q].phase \in {"note", "confirmNote"} /\ request[q].address = a

DeleteNotificationEmail(a) ==
  /\ accounts[a].exists
  /\ notices' = [notices EXCEPT ![a] = NoNotice]
  /\ outdated' = outdated \cup {q \in Requests : HasCopy(q, a)}
  /\ UNCHANGED <<accounts, kycs, count, links, opened, request, cut, unread,
                 faults>>

-----------------------------------------------------------------------------
(* ConfirmEmail.                                                           *)

\* Faulty variant of Confirmed: what is pending is confirmed, by any link.
ConfirmedByAny(row, e) ==
  IF row.pending = None THEN {}
  ELSE {[row EXCEPT !.email = row.pending, !.confirmed = TRUE,
                    !.pending = None]}

\* Faulty variant of Confirmed: what is pending is not looked at.
ConfirmedUnchecked(row, e) ==
  {[row EXCEPT !.email = e, !.confirmed = TRUE, !.pending = None]}

\* The row, in which e is pending, with e confirmed.
Confirmed(row, e) ==
  IF row.pending # e THEN {}
  ELSE {[row EXCEPT !.email = e, !.confirmed = TRUE, !.pending = None]}

\* A link is opened, and the account is read.
ConfirmEmail(q, l) ==
  /\ request[q].phase = "idle"
  /\ opened' = opened \cup {l}
  /\ LET row == accounts[l.address]
         read == For("confirmNotice", l.address, l.email) IN
     \/ /\ row.confirmed /\ row.email = l.email
        /\ UNCHANGED request
     \/ /\ ~row.confirmed
        /\ \E new \in Confirmed(row, l.email) :
             Step(q, [read EXCEPT !.phase = "confirm", !.account = new])
     \/ /\ ~(row.confirmed /\ row.email = l.email)
        /\ row.confirmed \/ Confirmed(row, l.email) = {}
        /\ Step(q, read)
  /\ UNCHANGED <<accounts, notices, kycs, count, links, cut, unread, outdated,
                 faults>>

\* confirmPrimaryEmail, up to the account and then the row of kycs.
SaveConfirmed(q) ==
  /\ request[q].phase = "confirm"
  /\ UpdateAccount(q, [request[q] EXCEPT !.phase = "kyc"])
  /\ UNCHANGED <<notices, kycs, count, links, opened, cut, unread, outdated,
                 faults>>

\* Faulty variant of StoreKyc: an error of the insert is logged only.
StoreKycUnchecked(q) ==
  /\ request[q].phase = "kyc"
  /\ kycs' \in {kycs, kycs \cup {request[q].email}}
  /\ Answer(q)
  /\ UNCHANGED <<accounts, notices, count, links, opened, cut, unread,
                 outdated, faults>>

\* CreateOrUpdateKyc: the row is made, or updated if it is there.
StoreKyc(q) ==
  /\ request[q].phase = "kyc"
  /\ kycs' = kycs \cup {request[q].email}
  /\ Answer(q)
  /\ UNCHANGED <<accounts, notices, count, links, opened, cut, unread,
                 outdated, faults>>

\* The row cannot be looked for: CreateOrUpdateKyc writes nothing and returns
\* no error, and the confirmation is answered as a success.
SkipKyc(q) ==
  /\ request[q].phase = "kyc"
  /\ faults < MaxFaults
  /\ faults' = faults + 1
  /\ unread' = unread \cup {request[q].address}
  /\ Answer(q)
  /\ UNCHANGED <<accounts, notices, kycs, count, links, opened, cut, outdated>>

\* confirmPendingNotificationEmail.
ConfirmNotice(q) ==
  /\ request[q].phase = "confirmNotice"
  /\ LET row == notices[request[q].address]
         e == request[q].email
         new == IF row.confirmed /\ row.email = e THEN {row}
                ELSE Confirmed(row, e) IN
     \/ new = {} /\ Answer(q)
     \/ \E n \in new : Step(q, [request[q] EXCEPT !.phase = "confirmNote",
                                                !.notice = n])
  /\ UNCHANGED <<accounts, notices, kycs, count, links, opened, cut, unread,
                 outdated, faults>>

-----------------------------------------------------------------------------
(* addSellerCode, once the code has been looked up.                        *)

AddSellerCode(q, a) ==
  /\ request[q].phase = "idle"
  /\ accounts[a].exists
  /\ Step(q, [For("seller", a, None) EXCEPT
                !.account = [accounts[a] EXCEPT !.seller = TRUE]])
  /\ UNCHANGED <<accounts, notices, kycs, count, links, opened, cut, unread,
                 outdated, faults>>

SaveSellerCode(q) ==
  /\ request[q].phase = "seller"
  /\ UpdateAccount(q, Idle)
  /\ UNCHANGED <<notices, kycs, count, links, opened, cut, unread, outdated,
                 faults>>

-----------------------------------------------------------------------------
(* Failures.                                                               *)

\* What the requests of set Q leave undone when they end.
CutOff(Q) ==
  cut \cup {request[q].address : q \in {p \in Q : request[p].phase = "kyc"}}

\* A call fails, and the request is answered with an error.
Fail(q) ==
  /\ request[q].phase # "idle"
  /\ faults < MaxFaults
  /\ faults' = faults + 1
  /\ cut' = CutOff({q})
  /\ outdated' = outdated \ {q}
  /\ Answer(q)
  /\ UNCHANGED <<accounts, notices, kycs, count, links, opened, unread>>

\* The server dies and starts anew: the counts are gone.
Restart ==
  /\ faults < MaxFaults
  /\ faults' = faults + 1
  /\ cut' = CutOff(Requests)
  /\ outdated' = {}
  /\ request' = [q \in Requests |-> Idle]
  /\ count' = [a \in Addresses |-> 0]
  /\ UNCHANGED <<accounts, notices, kycs, links, opened, unread>>

-----------------------------------------------------------------------------
RegisterStep(q) ==
  \/ \E e \in Emails :
       \/ \E a \in Addresses : RegisterEmail(q, a, e)
       \/ \E a \in Noted : RegisterNotificationEmail(q, a, e)
  \/ LookUpAccount(q) \/ SavePending(q) \/ IncreaseEmailCount(q)
  \/ LookUpNotice(q) \/ SaveNotice(q) \/ SendConfirmEmail(q)

ConfirmStep(q) ==
  \/ \E l \in links : ConfirmEmail(q, l)
  \/ SaveConfirmed(q) \/ StoreKyc(q) \/ SkipKyc(q) \/ ConfirmNotice(q)

SellerStep(q) ==
  \/ \E a \in Buyers : AddSellerCode(q, a)
  \/ SaveSellerCode(q)

Next ==
  \/ \E a \in Addresses : CreateAccount(a)
  \/ \E a \in Noted : DeleteNotificationEmail(a)
  \/ \E q \in Requests :
       RegisterStep(q) \/ ConfirmStep(q) \/ SellerStep(q) \/ Fail(q)
  \/ Restart

Spec == Init /\ [][Next]_vars

-----------------------------------------------------------------------------
(* Properties.                                                             *)

(***************************************************************************)
(* An address is in use, as the primary or the notification address of an  *)
(* account, only after a link that was mailed to it for that account has   *)
(* been opened, whichever stale rows are saved in between                  *)
(* (accountService.go:99-121, notificationEmailService.go:77-98).          *)
(***************************************************************************)
UsedAddressesOpened ==
  \A a \in Addresses :
    /\ accounts[a].confirmed =>
         [address |-> a, email |-> accounts[a].email] \in opened
    /\ notices[a].confirmed =>
         [address |-> a, email |-> notices[a].email] \in opened

(***************************************************************************)
(* No two accounts have the same e-mail, although RegisterEmail looks for  *)
(* it long before ConfirmEmail stores it (accountService.go:41-47, 127-    *)
(* 145).                                                                   *)
(***************************************************************************)
EmailsDistinct ==
  \A a, b \in Addresses :
    a # b /\ accounts[a].email = accounts[b].email => accounts[a].email = None

(***************************************************************************)
(* A confirmed account whose e-mail has no row in kycs is one whose        *)
(* request is about to make it, or was cut off by an error or a crash      *)
(* between the two writes, or was told of success although the row could   *)
(* not be looked for (kycStorer.go:70-84): nothing else loses the row, and *)
(* nothing makes it later, as opening the link again says that all is done *)
(* (accountService.go:99-101, 142-150).                                    *)
(***************************************************************************)
WithoutKyc ==
  {a \in Addresses :
     /\ accounts[a].confirmed
     /\ accounts[a].email \notin kycs
     /\ \A q \in Requests : request[q].phase = "kyc" =>
                             request[q].address # a}

MissingKycExplained == WithoutKyc \subseteq cut \cup unread

(***************************************************************************)
(* Who waits for a link will get it: a pending address whose link was      *)
(* never mailed has the request that will mail it under way, or has met    *)
(* the limit of mails, or an error or a crash, even when it was saved      *)
(* again from a stale copy (accountService.go:63-77, account.go:534-606).  *)
(***************************************************************************)
Due(a, e) ==
  e # None =>
    \/ [address |-> a, email |-> e] \in links
    \/ \E q \in Requests : /\ request[q].phase \in {"count", "send"}
                           /\ request[q].address = a
                           /\ request[q].email = e
    \/ count[a] + 1 = MaxMails
    \/ faults > 0

PendingMailed == \A a \in Addresses : Due(a, accounts[a].pending)

(***************************************************************************)
(* A confirmed account loses its confirmation only to a request for it     *)
(* that had read the row before: to addSellerCode, which then says nothing *)
(* of it, or to RegisterEmail, which goes on to mail a new link.  Logging  *)
(* in, opening old links and all that is done about notification addresses *)
(* never undo it (accountStorer.go:71, account.go:534-625).                *)
(***************************************************************************)
Loses(a) == accounts[a].confirmed /\ ~accounts'[a].confirmed

ConfirmedLossExplained ==
  [][\A a \in Addresses : Loses(a) =>
       \E q \in Requests :
         /\ request[q].address = a
         /\ \/ request[q].phase = "seller"
            \/ request'[q].phase = "count"]_vars

(***************************************************************************)
(* A notification address that its owner has deleted is in use again only  *)
(* after he has registered one anew, or if a request that had read the row *)
(* before saves it: no link from before the deletion, opened later, brings *)
(* it back (notificationEmailService.go:62-97, accountService.go:103-115). *)
(***************************************************************************)
DeletionUndoneExplained ==
  [][\A a \in Addresses :
       ~notices[a].exists /\ notices'[a].confirmed =>
         \E q \in outdated : request[q].address = a]_vars
=============================================================================
