------------------------------ MODULE Sellers ------------------------------
(***************************************************************************)
(* Sellers' codes (proxy/handlers/seller.go, storage/sellerStorer.go) and  *)
(* the accounts that buy with one (addSellerCode in                        *)
(* proxy/handlers/account.go).                                             *)
(*                                                                         *)
(* An administrator gives an address a code, and disables or enables it    *)
(* again; an account names the code that it buys with.  Each handler makes *)
(* several queries and then one write.  All that the database sees to is   *)
(* that a code has one row: nothing keeps an address from having several.  *)
(***************************************************************************)
EXTENDS Naturals, FiniteSets

CONSTANTS
  Requests,    \* requests that may be in progress at once
  Addresses,   \* blockchain addresses, which accounts are known by
  Codes,       \* seller codes, forced by the administrator or drawn
  Banned       \* addresses whose row of accounts says blacklisted

ASSUME BannedAssumption == Banned \subseteq Addresses
ASSUME RequestsAssumption == IsFiniteSet(Requests)
ASSUME CodesAssumption == IsFiniteSet(Codes)

None == "none"

ASSUME NoneAssumption == None \notin Addresses \cup Codes

VARIABLES
  sellers,     \* table sellers, by its primary key seller_code
  used,        \* column used_seller_code of table accounts
  request      \* the requests, with their local variables

vars == <<sellers, used, request>>

Seller == [account : Addresses \cup {None}, disabled : BOOLEAN]

NoSeller == [account |-> None, disabled |-> FALSE]

Phases == {"idle", "has", "exists", "create", "update", "lookup", "own",
           "use", "save"}

Request == [phase : Phases, address : Addresses \cup {None},
            code : Codes \cup {None}, disabled : BOOLEAN]

Idle == [phase |-> "idle", address |-> None, code |-> None,
         disabled |-> FALSE]

TypeOK ==
  /\ sellers \in [Codes -> Seller]
  /\ used \in [Addresses -> Codes \cup {None}]
  /\ request \in [Requests -> Request]

Init ==
  /\ sellers = [c \in Codes |-> NoSeller]
  /\ used = [a \in Addresses |-> None]
  /\ request = [q \in Requests |-> Idle]

-----------------------------------------------------------------------------
\* The codes that have a row, and those of address a.
Taken == {c \in Codes : sellers[c].account # None}
CodesOf(a) == {c \in Codes : sellers[c].account = a}

Step(q, locals) == request' = [request EXCEPT ![q] = locals]
Go(q, phase) == Step(q, [request[q] EXCEPT !.phase = phase])
Answer(q) == Step(q, Idle)

\* Go on if ok, and refuse the request otherwise.
Check(q, ok, phase) ==
  \/ ok /\ Go(q, phase)
  \/ ~ok /\ Answer(q)

\* SellerCodeDoExist: a disabled code does not.
SellerCodeDoExist(c) == c \in Taken /\ ~sellers[c].disabled

-----------------------------------------------------------------------------
(* newSeller.                                                              *)

\* The account of the address is there, or made, and not blacklisted.
NewSeller(q, a, c) ==
  /\ request[q].phase = "idle"
  /\ a \notin Banned
  /\ Step(q, [Idle EXCEPT !.phase = "has", !.address = a, !.code = c])
  /\ UNCHANGED <<sellers, used>>

\* Faulty variant of AddressHasCode: a disabled code does not count.
AddressHasEnabledCode(q) ==
  /\ request[q].phase = "has"
  /\ LET a == request[q].address IN
     Check(q, \A c \in CodesOf(a) : sellers[c].disabled, "exists")
  /\ UNCHANGED <<sellers, used>>

\* A disabled code counts.
AddressHasCode(q) ==
  /\ request[q].phase = "has"
  /\ Check(q, CodesOf(request[q].address) = {}, "exists")
  /\ UNCHANGED <<sellers, used>>

CodeIsFree(q) ==
  /\ request[q].phase = "exists"
  /\ Check(q, ~SellerCodeDoExist(request[q].code), "create")
  /\ UNCHANGED <<sellers, used>>

\* Faulty variant of CreateSeller: a row that is there is overwritten.
SaveSeller(q) ==
  /\ request[q].phase = "create"
  /\ sellers' = [sellers EXCEPT ![request[q].code] =
                   [account |-> request[q].address, disabled |-> FALSE]]
  /\ Answer(q)
  /\ UNCHANGED used

\* The insert fails if the code has a row, disabled or made meanwhile.
CreateSeller(q) ==
  /\ request[q].phase = "create"
  /\ \/ request[q].code \in Taken /\ UNCHANGED sellers
     \/ /\ request[q].code \notin Taken
        /\ sellers' = [sellers EXCEPT ![request[q].code] =
                         [account |-> request[q].address,
                          disabled |-> FALSE]]
  /\ Answer(q)
  /\ UNCHANGED used

-----------------------------------------------------------------------------
(* disableSellerCode and enableSellerCode.                                 *)

\* The row is found by its code, or is any one of the address.  For a code
\* without a row, an empty row is saved, which the database refuses.
FindSeller(q, c, disable) ==
  /\ request[q].phase = "idle"
  /\ c \in Taken
  /\ Step(q, [phase |-> "update", address |-> sellers[c].account, code |-> c,
              disabled |-> disable])
  /\ UNCHANGED <<sellers, used>>

\* UpdateSeller saves the whole copy.
UpdateSeller(q) ==
  /\ request[q].phase = "update"
  /\ sellers' = [sellers EXCEPT ![request[q].code] =
                   [account |-> request[q].address,
                    disabled |-> request[q].disabled]]
  /\ Answer(q)
  /\ UNCHANGED used

-----------------------------------------------------------------------------
(* addSellerCode.                                                          *)

AddSellerCode(q, a, c) ==
  /\ request[q].phase = "idle"
  /\ a \notin Banned
  /\ Step(q, [Idle EXCEPT !.phase = "lookup", !.address = a, !.code = c])
  /\ UNCHANGED <<sellers, used>>

\* Faulty variant of LookUpCode: whatever was typed is taken.
LookUpNothing(q) ==
  /\ request[q].phase = "lookup"
  /\ Go(q, "own")
  /\ UNCHANGED <<sellers, used>>

LookUpCode(q) ==
  /\ request[q].phase = "lookup"
  /\ Check(q, SellerCodeDoExist(request[q].code), "own")
  /\ UNCHANGED <<sellers, used>>

\* GetSellerCodeByAddress finds one code of the address, whichever.
RefuseOwnCode(q) ==
  /\ request[q].phase = "own"
  /\ LET a == request[q].address IN
     \/ CodesOf(a) = {} /\ Go(q, "use")
     \/ \E own \in CodesOf(a) : Check(q, own # request[q].code, "use")
  /\ UNCHANGED <<sellers, used>>

UseCode(q) ==
  /\ request[q].phase = "use"
  /\ used' = [used EXCEPT ![request[q].address] = request[q].code]
  /\ Answer(q)
  /\ UNCHANGED sellers

\* Any other request of the account (see Accounts) reads its row ...
ReadAccount(q, a) ==
  /\ request[q].phase = "idle"
  /\ Step(q, [Idle EXCEPT !.phase = "save", !.address = a, !.code = used[a]])
  /\ UNCHANGED <<sellers, used>>

\* ... and saves the whole copy, with the code that it was read with.
UpdateAccount(q) ==
  /\ request[q].phase = "save"
  /\ used' = [used EXCEPT ![request[q].address] = request[q].code]
  /\ Answer(q)
  /\ UNCHANGED sellers

-----------------------------------------------------------------------------
\* A query fails, or the server dies.
Fail(q) ==
  /\ request[q].phase # "idle"
  /\ Answer(q)
  /\ UNCHANGED <<sellers, used>>

AdminStep(q) ==
  \/ \E a \in Addresses, c \in Codes : NewSeller(q, a, c)
  \/ AddressHasCode(q) \/ CodeIsFree(q) \/ CreateSeller(q)
  \/ \E c \in Codes, disable \in BOOLEAN : FindSeller(q, c, disable)
  \/ UpdateSeller(q)

BuyerStep(q) ==
  \/ \E a \in Addresses, c \in Codes : AddSellerCode(q, a, c)
  \/ LookUpCode(q) \/ RefuseOwnCode(q) \/ UseCode(q)
  \/ \E a \in Addresses : ReadAccount(q, a)
  \/ UpdateAccount(q)

Next == \E q \in Requests : AdminStep(q) \/ BuyerStep(q) \/ Fail(q)

Spec == Init /\ [][Next]_vars

-----------------------------------------------------------------------------
(* getSellerCode and getClients, which only read.                          *)

\* The code that the seller is shown: one of his, whichever is found.
ShownCode(a) == IF CodesOf(a) = {} THEN {None} ELSE CodesOf(a)

\* The accounts listed to a seller who is shown code c.
Clients(c) == {a \in Addresses : used[a] = c}

-----------------------------------------------------------------------------
(* Properties.                                                             *)

\* The requests that have found that address a has no code.
Making(a) ==
  {q \in Requests : /\ request[q].address = a
                    /\ request[q].phase \in {"exists", "create"}}

(***************************************************************************)
(* An address never has more codes than there are requests at once: only   *)
(* requests that all looked before the first of them inserted its row can  *)
(* give it several, and once it has a code, even a disabled one, it gets   *)
(* no more (seller.go:115-152).  With one request at a time it has one.    *)
(***************************************************************************)
CodesBounded ==
  \A a \in Addresses :
    Cardinality(CodesOf(a)) + Cardinality(Making(a)) <= Cardinality(Requests)

(***************************************************************************)
(* "user is using his own seller code" (account.go:593-596): the code that *)
(* an account buys with has a row, and it is its own, or its seller is not *)
(* shown the account among his clients (seller.go:174-198), only where one *)
(* address got several codes, of which either query sees one.              *)
(***************************************************************************)
UsedCodesExplained ==
  \A a \in Addresses :
    used[a] # None =>
      LET seller == sellers[used[a]].account IN
      /\ used[a] \in Taken
      /\ \/ Cardinality(CodesOf(seller)) > 1
         \/ /\ seller # a
            /\ \A c \in ShownCode(seller) : a \in Clients(c)

(***************************************************************************)
(* A code stays with the address it was given to, so that its clients do:  *)
(* a disabled code looks free to newSeller, and only the primary key keeps *)
(* it from being given away (sellerStorer.go:92-94, 8-25).                 *)
(***************************************************************************)
CodesKeepOwner ==
  [][\A c \in Taken : sellers'[c].account = sellers[c].account]_vars
=============================================================================
