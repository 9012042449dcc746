--------------------------- MODULE SellersProofs ---------------------------
(***************************************************************************)
(* Theorems about Sellers, for any requests, addresses and codes.          *)
(*                                                                         *)
(* Requests act on copies: what a request found is read in one step and    *)
(* relied on in a later one.  The invariant says, for each phase, what is  *)
(* still true of what was found; that codes keep their owners is what      *)
(* makes it stay true while others write.                                  *)
(***************************************************************************)
EXTENDS Sellers, FiniteSetTheorems, TLAPS

-----------------------------------------------------------------------------
(* Types.                                                                  *)

LEMMA IdleType == Idle \in Request
BY DEF Idle, Request, Phases

\* A step of a request to locals of the right type.
LEMMA StepType ==
  ASSUME NEW q \in Requests, NEW r \in Request, TypeOK, Step(q, r)
  PROVE  request' \in [Requests -> Request]
BY DEF TypeOK, Step

LEMMA GoType ==
  ASSUME NEW q \in Requests, NEW p \in Phases, TypeOK, Go(q, p)
  PROVE  request' \in [Requests -> Request]
<1>1. [request[q] EXCEPT !.phase = p] \in Request
  BY DEF TypeOK, Request
<1> QED BY <1>1, StepType DEF Go

LEMMA AnswerType ==
  ASSUME NEW q \in Requests, TypeOK, Answer(q)
  PROVE  request' \in [Requests -> Request]
BY IdleType, StepType DEF Answer

LEMMA CheckType ==
  ASSUME NEW q \in Requests, NEW p \in Phases, NEW ok, TypeOK,
         Check(q, ok, p)
  PROVE  request' \in [Requests -> Request]
BY GoType, AnswerType DEF Check

LEMMA TypeInit == Init => TypeOK
BY IdleType DEF Init, TypeOK, NoSeller, Seller

LEMMA TypeNext == TypeOK /\ [Next]_vars => TypeOK'
<1> SUFFICES ASSUME TypeOK, [Next]_vars PROVE TypeOK'
  OBVIOUS
<1>1. CASE UNCHANGED vars
  BY <1>1 DEF vars, TypeOK
<1>2. ASSUME NEW q \in Requests, AdminStep(q) PROVE TypeOK'
  <2>1. ASSUME NEW a \in Addresses, NEW c \in Codes, NewSeller(q, a, c)
        PROVE  TypeOK'
    <3>1. [Idle EXCEPT !.phase = "has", !.address = a, !.code = c] \in Request
      BY DEF Idle, Request, Phases
    <3> QED BY <2>1, <3>1, StepType DEF NewSeller, TypeOK
  <2>2. CASE AddressHasCode(q)
    BY <2>2, CheckType DEF AddressHasCode, TypeOK, Phases
  <2>3. CASE CodeIsFree(q)
    BY <2>3, CheckType DEF CodeIsFree, TypeOK, Phases
  <2>4. CASE CreateSeller(q)
    <3>1. [account |-> request[q].address, disabled |-> FALSE] \in Seller
      BY DEF TypeOK, Request, Seller
    <3>2. sellers' \in [Codes -> Seller]
      BY <2>4, <3>1 DEF CreateSeller, TypeOK
    <3> QED BY <2>4, <3>2, AnswerType DEF CreateSeller, TypeOK
  <2>5. ASSUME NEW c \in Codes, NEW disable \in BOOLEAN,
               FindSeller(q, c, disable)
        PROVE  TypeOK'
    <3>1. [phase |-> "update", address |-> sellers[c].account, code |-> c,
           disabled |-> disable] \in Request
      BY DEF TypeOK, Request, Seller, Phases
    <3> QED BY <2>5, <3>1, StepType DEF FindSeller, TypeOK
  <2>6. CASE UpdateSeller(q)
    <3>1. [account |-> request[q].address,
           disabled |-> request[q].disabled] \in Seller
      BY DEF TypeOK, Request, Seller
    <3>2. sellers' \in [Codes -> Seller]
      BY <2>6, <3>1 DEF UpdateSeller, TypeOK
    <3> QED BY <2>6, <3>2, AnswerType DEF UpdateSeller, TypeOK
  <2> QED BY <1>2, <2>1, <2>2, <2>3, <2>4, <2>5, <2>6 DEF AdminStep
<1>3. ASSUME NEW q \in Requests, BuyerStep(q) PROVE TypeOK'
  <2>1. ASSUME NEW a \in Addresses, NEW c \in Codes, AddSellerCode(q, a, c)
        PROVE  TypeOK'
    <3>1. [Idle EXCEPT !.phase = "lookup", !.address = a,
                       !.code = c] \in Request
      BY DEF Idle, Request, Phases
    <3> QED BY <2>1, <3>1, StepType DEF AddSellerCode, TypeOK
  <2>2. CASE LookUpCode(q)
    BY <2>2, CheckType DEF LookUpCode, TypeOK, Phases
  <2>3. CASE RefuseOwnCode(q)
    <3>1. request' \in [Requests -> Request]
      BY <2>3, CheckType, GoType DEF RefuseOwnCode, Phases
    <3> QED BY <2>3, <3>1 DEF RefuseOwnCode, TypeOK
  <2>4. CASE UseCode(q) \/ UpdateAccount(q)
    <3>1. request[q].code \in Codes \cup {None}
      BY DEF TypeOK, Request
    <3>2. used' \in [Addresses -> Codes \cup {None}]
      BY <2>4, <3>1 DEF UseCode, UpdateAccount, TypeOK
    <3> QED BY <2>4, <3>2, AnswerType DEF UseCode, UpdateAccount, TypeOK
  <2>5. ASSUME NEW a \in Addresses, ReadAccount(q, a) PROVE TypeOK'
    <3>1. [Idle EXCEPT !.phase = "save", !.address = a,
                       !.code = used[a]] \in Request
      BY DEF Idle, Request, Phases, TypeOK
    <3> QED BY <2>5, <3>1, StepType DEF ReadAccount, TypeOK
  <2> QED BY <1>3, <2>1, <2>2, <2>3, <2>4, <2>5 DEF BuyerStep
<1>4. ASSUME NEW q \in Requests, Fail(q) PROVE TypeOK'
  BY <1>4, AnswerType DEF Fail, TypeOK
<1> QED BY <1>1, <1>2, <1>3, <1>4 DEF Next

(***************************************************************************)
(* Every variable keeps its type, for any requests, addresses and codes    *)
(* (model/sellers.go:3-8, seller.go:61-154).                               *)
(***************************************************************************)
THEOREM TypeCorrect == Spec => []TypeOK
BY TypeInit, TypeNext, PTL DEF Spec

-----------------------------------------------------------------------------
(* What requests rely on.                                                  *)

\* Address a may use code c: it has a row, of another address or of a, if a
\* has a second code.
UsesWell(a, c) ==
  /\ c \in Taken
  /\ \/ sellers[c].account # a
     \/ \E d \in CodesOf(sellers[c].account) : d # c

\* What request q found is still so.
Sound(q) ==
  /\ request[q].phase = "update" =>
       /\ request[q].code \in Taken
       /\ sellers[request[q].code].account = request[q].address
  /\ request[q].phase = "own" => request[q].code \in Taken
  /\ request[q].phase = "use" => UsesWell(request[q].address, request[q].code)
  /\ request[q].phase = "save" =>
       \/ request[q].code = None
       \/ UsesWell(request[q].address, request[q].code)

Uses(a) == used[a] = None \/ UsesWell(a, used[a])

IInv ==
  /\ TypeOK
  /\ \A q \in Requests : Sound(q)
  /\ \A a \in Addresses : Uses(a)

KeepOwner == \A c \in Taken : sellers'[c].account = sellers[c].account

\* As codes keep their owners, a good use stays good.
LEMMA UsesStay ==
  ASSUME TypeOK, TypeOK', KeepOwner
  PROVE  /\ Taken \subseteq Taken'
         /\ \A a, c : UsesWell(a, c) => UsesWell(a, c)'
<1>1. Taken \subseteq Taken'
  BY DEF KeepOwner, Taken
<1>2. ASSUME NEW a, NEW c, UsesWell(a, c) PROVE UsesWell(a, c)'
  <2>1. c \in Taken /\ c \in Taken' /\ sellers'[c].account = sellers[c].account
    BY <1>1, <1>2 DEF UsesWell, KeepOwner
  <2>2. CASE sellers[c].account # a
    BY <2>1, <2>2 DEF UsesWell
  <2>3. ASSUME NEW d \in CodesOf(sellers[c].account), d # c
        PROVE  UsesWell(a, c)'
    <3>1. d \in Taken
      BY <2>1, <2>3 DEF CodesOf, Taken
    <3>2. d \in CodesOf(sellers[c].account)'
      BY <2>1, <2>3, <3>1 DEF CodesOf, KeepOwner
    <3> QED BY <2>1, <2>3, <3>2 DEF UsesWell
  <2> QED BY <1>2, <2>2, <2>3 DEF UsesWell
<1> QED BY <1>1, <1>2

\* Only an insert and a whole-row save write sellers.
LEMMA OwnersKept == IInv /\ [Next]_vars => KeepOwner
<1> SUFFICES ASSUME IInv, [Next]_vars PROVE KeepOwner
  OBVIOUS
<1>1. CASE UNCHANGED sellers
  BY <1>1 DEF KeepOwner
<1>2. ASSUME NEW q \in Requests, CreateSeller(q) PROVE KeepOwner
  BY <1>2 DEF CreateSeller, KeepOwner, IInv, TypeOK, Taken
<1>3. ASSUME NEW q \in Requests, UpdateSeller(q) PROVE KeepOwner
  <2>1. sellers[request[q].code].account = request[q].address
    BY <1>3 DEF UpdateSeller, IInv, Sound
  <2> QED BY <1>3, <2>1 DEF UpdateSeller, KeepOwner, IInv, TypeOK, Taken
<1> QED
  BY <1>1, <1>2, <1>3
  DEF Next, AdminStep, BuyerStep, NewSeller, AddressHasCode, CodeIsFree,
      FindSeller, AddSellerCode, LookUpCode, RefuseOwnCode, UseCode,
      ReadAccount, UpdateAccount, Fail, vars

LEMMA InitIInv == Init => IInv
<1> SUFFICES ASSUME Init PROVE IInv
  OBVIOUS
<1>1. \A q \in Requests : Sound(q)
  BY DEF Init, Sound, Idle
<1>2. \A a \in Addresses : Uses(a)
  BY DEF Init, Uses
<1> QED BY <1>1, <1>2, TypeInit DEF IInv

\* After a step of q, what the other requests rely on still holds.
LEMMA OthersSound ==
  ASSUME NEW q \in Requests, NEW r, Step(q, r), IInv, TypeOK', KeepOwner,
         Sound(q)'
  PROVE  \A p \in Requests : Sound(p)'
<1> SUFFICES ASSUME NEW p \in Requests, p # q PROVE Sound(p)'
  OBVIOUS
<1>1. request'[p] = request[p]
  BY DEF Step, IInv, TypeOK
<1>2. Sound(p)
  BY DEF IInv
<1>3. request[p].phase = "update" =>
        /\ request[p].code \in Taken'
        /\ sellers'[request[p].code].account = request[p].address
  BY <1>2, UsesStay DEF Sound, KeepOwner, IInv
<1> QED BY <1>1, <1>2, <1>3, UsesStay DEF Sound, IInv

\* A request that is answered, or is at a query, relies on nothing.
LEMMA NothingFound ==
  ASSUME NEW q \in Requests, NEW r, Step(q, r), TypeOK,
         r.phase \notin {"update", "own", "use", "save"}
  PROVE  Sound(q)'
BY DEF Step, TypeOK, Sound

\* A step that leaves used as it is and of which q relies on what holds.
LEMMA StepSound ==
  ASSUME NEW q \in Requests, NEW r, Step(q, r), IInv, TypeOK', KeepOwner,
         UNCHANGED used, Sound(q)'
  PROVE  IInv'
<1>1. \A p \in Requests : Sound(p)'
  BY OthersSound
<1>2. \A a \in Addresses : Uses(a)'
  BY UsesStay DEF IInv, Uses
<1> QED BY <1>1, <1>2 DEF IInv

LEMMA AnswerSound ==
  ASSUME NEW q \in Requests, Answer(q), IInv, TypeOK', KeepOwner, UNCHANGED used
  PROVE  IInv'
<1>1. Idle.phase \notin {"update", "own", "use", "save"}
  BY DEF Idle
<1>2. Sound(q)'
  BY <1>1, NothingFound DEF Answer, IInv
<1> QED BY <1>2, StepSound DEF Answer

\* A request that goes on to a query or to the insert.
LEMMA GoSound ==
  ASSUME NEW q \in Requests, NEW phase, Go(q, phase), IInv, TypeOK', KeepOwner,
         UNCHANGED used, phase \notin {"update", "own", "use", "save"}
  PROVE  IInv'
<1> DEFINE r == [request[q] EXCEPT !.phase = phase]
<1>1. Step(q, r) /\ r.phase = phase
  BY DEF Go, IInv, TypeOK, Request
<1>2. Sound(q)'
  BY <1>1, NothingFound DEF IInv
<1> QED BY <1>1, <1>2, StepSound

LEMMA AdminIInv ==
  ASSUME NEW q \in Requests, IInv, TypeOK', KeepOwner, AdminStep(q)
  PROVE  IInv'
<1>1. ASSUME NEW a \in Addresses, NEW c \in Codes, NewSeller(q, a, c)
      PROVE  IInv'
  <2> DEFINE r == [Idle EXCEPT !.phase = "has", !.address = a, !.code = c]
  <2>1. Step(q, r) /\ r.phase = "has" /\ UNCHANGED used
    BY <1>1 DEF NewSeller, Idle
  <2>2. Sound(q)'
    BY <2>1, NothingFound DEF IInv
  <2> QED BY <2>1, <2>2, StepSound
<1>2. CASE AddressHasCode(q)
  BY <1>2, GoSound, AnswerSound DEF AddressHasCode, Check
<1>3. CASE CodeIsFree(q)
  BY <1>3, GoSound, AnswerSound DEF CodeIsFree, Check
<1>4. CASE CreateSeller(q)
  BY <1>4, AnswerSound DEF CreateSeller
<1>5. ASSUME NEW c \in Codes, NEW disable \in BOOLEAN,
             FindSeller(q, c, disable)
      PROVE  IInv'
  <2> DEFINE r == [phase |-> "update", address |-> sellers[c].account,
                   code |-> c, disabled |-> disable]
  <2>1. Step(q, r) /\ UNCHANGED <<sellers, used>> /\ c \in Taken
    BY <1>5 DEF FindSeller
  <2>2. request'[q] = r
    BY <2>1 DEF Step, IInv, TypeOK
  <2>3. Sound(q)'
    BY <2>1, <2>2 DEF Sound, Taken
  <2> QED BY <2>1, <2>3, StepSound
<1>6. CASE UpdateSeller(q)
  BY <1>6, AnswerSound DEF UpdateSeller
<1> QED BY <1>1, <1>2, <1>3, <1>4, <1>5, <1>6 DEF AdminStep

\* The account's column is written: what is saved is used well.
LEMMA SaveIInv ==
  ASSUME NEW q \in Requests, IInv, TypeOK', KeepOwner, Answer(q),
         UNCHANGED sellers,
         used' = [used EXCEPT ![request[q].address] = request[q].code],
         \/ request[q].code = None
         \/ UsesWell(request[q].address, request[q].code)
  PROVE  IInv'
<1>1. Sound(q)'
  BY NothingFound DEF Answer, Idle, IInv
<1>2. \A p \in Requests : Sound(p)'
  BY <1>1, OthersSound DEF Answer
<1>3. ASSUME NEW a \in Addresses PROVE Uses(a)'
  <2>1. CASE a = request[q].address
    <3>1. used'[a] = request[q].code
      BY <2>1 DEF IInv, TypeOK
    <3> QED BY <2>1, <3>1, UsesStay DEF Uses, IInv
  <2>2. CASE a # request[q].address
    <3>1. used'[a] = used[a]
      BY <2>2 DEF IInv, TypeOK
    <3> QED BY <3>1, UsesStay DEF Uses, IInv
  <2> QED BY <2>1, <2>2
<1> QED BY <1>2, <1>3 DEF IInv

LEMMA BuyerIInv ==
  ASSUME NEW q \in Requests, IInv, TypeOK', KeepOwner, BuyerStep(q)
  PROVE  IInv'
<1>1. ASSUME NEW a \in Addresses, NEW c \in Codes, AddSellerCode(q, a, c)
      PROVE  IInv'
  <2> DEFINE r == [Idle EXCEPT !.phase = "lookup", !.address = a, !.code = c]
  <2>1. Step(q, r) /\ r.phase = "lookup" /\ UNCHANGED used
    BY <1>1 DEF AddSellerCode, Idle
  <2>2. Sound(q)'
    BY <2>1, NothingFound DEF IInv
  <2> QED BY <2>1, <2>2, StepSound
<1>2. CASE LookUpCode(q)
  <2>1. ASSUME SellerCodeDoExist(request[q].code), Go(q, "own") PROVE IInv'
    <3> DEFINE r == [request[q] EXCEPT !.phase = "own"]
    <3>1. Step(q, r) /\ request'[q] = r /\ r.phase = "own"
            /\ r.code = request[q].code
      BY <2>1 DEF Go, Step, IInv, TypeOK, Request
    <3>2. UNCHANGED <<sellers, used>> /\ request[q].code \in Taken
      BY <1>2, <2>1 DEF LookUpCode, SellerCodeDoExist
    <3>3. Sound(q)'
      BY <3>1, <3>2 DEF Sound, Taken
    <3> QED BY <3>1, <3>2, <3>3, StepSound
  <2> QED BY <1>2, <2>1, AnswerSound DEF LookUpCode, Check
<1>3. CASE RefuseOwnCode(q)
  <2> DEFINE a == request[q].address
             c == request[q].code
  <2>1. c \in Taken /\ UNCHANGED <<sellers, used>>
    BY <1>3 DEF RefuseOwnCode, IInv, Sound
  <2>2. ASSUME Go(q, "use"), UsesWell(a, c) PROVE IInv'
    <3> DEFINE r == [request[q] EXCEPT !.phase = "use"]
    <3>1. Step(q, r) /\ request'[q] = r /\ r.phase = "use"
            /\ r.code = c /\ r.address = a
      BY <2>2 DEF Go, Step, IInv, TypeOK, Request
    <3>2. Sound(q)'
      BY <2>2, <3>1, UsesStay DEF Sound, IInv
    <3> QED BY <2>1, <3>1, <3>2, StepSound
  <2>3. CASE CodesOf(a) = {} /\ Go(q, "use")
    <3>1. UsesWell(a, c)
      BY <2>1, <2>3 DEF UsesWell, CodesOf, Taken
    <3> QED BY <2>2, <2>3, <3>1
  <2>4. ASSUME NEW own \in CodesOf(a), own # c, Go(q, "use") PROVE IInv'
    <3>1. UsesWell(a, c)
      BY <2>1, <2>4 DEF UsesWell
    <3> QED BY <2>2, <2>4, <3>1
  <2> QED BY <1>3, <2>1, <2>3, <2>4, AnswerSound DEF RefuseOwnCode, Check
<1>4. CASE UseCode(q)
  BY <1>4, SaveIInv DEF UseCode, IInv, Sound
<1>5. ASSUME NEW a \in Addresses, ReadAccount(q, a) PROVE IInv'
  <2> DEFINE r == [Idle EXCEPT !.phase = "save", !.address = a,
                               !.code = used[a]]
  <2>1. Step(q, r) /\ UNCHANGED <<sellers, used>>
    BY <1>5 DEF ReadAccount
  <2>2. request'[q] = r /\ r.phase = "save" /\ r.address = a
          /\ r.code = used[a]
    BY <2>1 DEF Step, IInv, TypeOK, Idle
  <2>3. Sound(q)'
    BY <2>1, <2>2, UsesStay DEF Sound, IInv, Uses
  <2> QED BY <2>1, <2>3, StepSound
<1>6. CASE UpdateAccount(q)
  BY <1>6, SaveIInv DEF UpdateAccount, IInv, Sound
<1> QED BY <1>1, <1>2, <1>3, <1>4, <1>5, <1>6 DEF BuyerStep

LEMMA NextIInv == IInv /\ [Next]_vars => IInv'
<1> SUFFICES ASSUME IInv, [Next]_vars PROVE IInv'
  OBVIOUS
<1>1. TypeOK' /\ KeepOwner
  BY TypeNext, OwnersKept DEF IInv
<1>2. CASE UNCHANGED vars
  BY <1>2 DEF vars, IInv, TypeOK, Sound, Uses, UsesWell, Taken, CodesOf
<1>3. ASSUME NEW q \in Requests, Fail(q) PROVE IInv'
  BY <1>1, <1>3, AnswerSound DEF Fail
<1> QED BY <1>1, <1>2, <1>3, AdminIInv, BuyerIInv DEF Next

LEMMA IInvHolds == Spec => []IInv
BY InitIInv, NextIInv, PTL DEF Spec

(***************************************************************************)
(* A code is never given away, whatever requests overlap: the primary key  *)
(* refuses a second insert, and who disables or enables a code saves the   *)
(* owner that it has (sellerStorer.go:8-25, 129-146).                      *)
(***************************************************************************)
THEOREM OwnersStay == Spec => CodesKeepOwner
<1>1. IInv /\ [Next]_vars =>
        [\A c \in Taken : sellers'[c].account = sellers[c].account]_vars
  BY OwnersKept DEF KeepOwner
<1> QED BY <1>1, IInvHolds, PTL DEF Spec, CodesKeepOwner

(***************************************************************************)
(* A code that an account buys with has a row, is not the account's own    *)
(* and shows the account to its seller, but for sellers with several codes *)
(* (account.go:575-599, seller.go:171-198).                                *)
(***************************************************************************)
THEOREM UsesExplained == Spec => []UsedCodesExplained
<1>1. IInv => UsedCodesExplained
  <2> SUFFICES ASSUME IInv, NEW a \in Addresses, used[a] # None
               PROVE  LET seller == sellers[used[a]].account IN
                      /\ used[a] \in Taken
                      /\ \/ Cardinality(CodesOf(seller)) > 1
                         \/ /\ seller # a
                            /\ \A c \in ShownCode(seller) : a \in Clients(c)
    BY DEF UsedCodesExplained
  <2> DEFINE c == used[a]
             S == CodesOf(sellers[c].account)
  <2>1. UsesWell(a, c)
    BY DEF IInv, Uses
  <2>2. c \in S /\ IsFiniteSet(S)
    <3>1. S \subseteq Codes /\ c \in S
      BY <2>1 DEF CodesOf, UsesWell, Taken
    <3> QED BY <3>1, CodesAssumption, FS_Subset
  <2>3. ASSUME NEW d \in S, d # c PROVE Cardinality(S) > 1
    <3>1. Cardinality({c, d}) = 2
      <4>1. IsFiniteSet({c}) /\ Cardinality({c}) = 1
        BY FS_Singleton
      <4>2. d \notin {c} /\ {c} \cup {d} = {c, d}
        BY <2>3
      <4>3. Cardinality({c} \cup {d}) = Cardinality({c}) + 1
        BY <4>1, <4>2, FS_AddElement
      <4> QED BY <4>1, <4>2, <4>3
    <3>2. Cardinality({c, d}) <= Cardinality(S)
      BY <2>2, <2>3, FS_Subset, {c, d} \subseteq S
    <3>3. Cardinality(S) \in Nat
      BY <2>2, FS_CardinalityType
    <3> QED BY <3>1, <3>2, <3>3
  <2>4. CASE \A d \in S : d = c
    <3>1. ShownCode(sellers[c].account) = {c}
      BY <2>2, <2>4 DEF ShownCode
    <3>2. sellers[c].account # a
      BY <2>1, <2>4 DEF UsesWell
    <3> QED BY <2>1, <3>1, <3>2 DEF Clients, UsesWell
  <2> QED BY <2>1, <2>3, <2>4 DEF UsesWell
<1> QED BY <1>1, IInvHolds, PTL

-----------------------------------------------------------------------------
(* How many codes an address gets.                                         *)

\* CodesBounded of one address.
Bound(a) ==
  Cardinality(CodesOf(a)) + Cardinality(Making(a)) <= Cardinality(Requests)

LEMMA FiniteCounts ==
  ASSUME NEW a
  PROVE  /\ IsFiniteSet(CodesOf(a)) /\ Cardinality(CodesOf(a)) \in Nat
         /\ IsFiniteSet(Making(a)) /\ Cardinality(Making(a)) \in Nat
         /\ Cardinality(Making(a)) <= Cardinality(Requests)
         /\ Cardinality(Requests) \in Nat
<1>1. CodesOf(a) \subseteq Codes /\ Making(a) \subseteq Requests
  BY DEF CodesOf, Making
<1> QED BY <1>1, CodesAssumption, RequestsAssumption, FS_Subset,
           FS_CardinalityType

\* A step that gives a no code, and after which no other request makes one.
LEMMA BoundStays ==
  ASSUME NEW a, Bound(a), CodesOf(a)' \subseteq CodesOf(a),
         Making(a)' \subseteq Making(a)
  PROVE  Bound(a)'
<1>1. /\ Cardinality(CodesOf(a)') <= Cardinality(CodesOf(a))
      /\ Cardinality(Making(a)') <= Cardinality(Making(a))
  BY FiniteCounts, FS_Subset
<1>2. /\ Cardinality(CodesOf(a)') \in Nat
      /\ Cardinality(Making(a)') \in Nat
  BY FiniteCounts, FS_Subset, FS_CardinalityType
<1> QED BY <1>1, <1>2, FiniteCounts DEF Bound

\* The insert: one code more, and one request less that makes one.
LEMMA BoundInsert ==
  ASSUME NEW a, NEW c, NEW q \in Making(a), Bound(a),
         CodesOf(a)' \subseteq CodesOf(a) \cup {c},
         Making(a)' \subseteq Making(a) \ {q}
  PROVE  Bound(a)'
<1>1. /\ IsFiniteSet(CodesOf(a) \cup {c})
      /\ Cardinality(CodesOf(a) \cup {c}) <= Cardinality(CodesOf(a)) + 1
  <2>1. /\ IsFiniteSet(CodesOf(a)) /\ Cardinality(CodesOf(a)) \in Nat
    BY FiniteCounts
  <2>2. CASE c \in CodesOf(a)
    <3>1. CodesOf(a) \cup {c} = CodesOf(a)
      BY <2>2
    <3>2. Cardinality(CodesOf(a)) <= Cardinality(CodesOf(a)) + 1
      BY <2>1
    <3> QED BY <2>1, <3>1, <3>2, Zenon
  <2>3. CASE c \notin CodesOf(a)
    <3>1. /\ IsFiniteSet(CodesOf(a) \cup {c})
          /\ Cardinality(CodesOf(a) \cup {c}) = Cardinality(CodesOf(a)) + 1
      <4>1. IsFiniteSet(CodesOf(a))
        BY <2>1
      <4> DEFINE S == CodesOf(a)
      <4>2. c \notin S /\ IsFiniteSet(S)
        BY <2>3, <4>1
      <4> HIDE DEF S
      <4>3. IsFiniteSet(S \cup {c}) /\ Cardinality(S \cup {c}) = Cardinality(S) + 1
        BY <4>2, FS_AddElement
      <4> QED BY <4>3 DEF S
    <3> QED BY <2>1, <3>1
  <2> QED BY <2>2, <2>3
<1>2. /\ IsFiniteSet(Making(a) \ {q})
      /\ Cardinality(Making(a) \ {q}) = Cardinality(Making(a)) - 1
  BY FiniteCounts, FS_RemoveElement
<1>3. /\ Cardinality(CodesOf(a)') <= Cardinality(CodesOf(a) \cup {c})
      /\ Cardinality(Making(a)') <= Cardinality(Making(a) \ {q})
  BY <1>1, <1>2, FS_Subset
<1>4. /\ Cardinality(CodesOf(a)') \in Nat
      /\ Cardinality(Making(a)') \in Nat
      /\ Cardinality(CodesOf(a) \cup {c}) \in Nat
  BY <1>1, <1>2, FS_Subset, FS_CardinalityType
<1> QED BY <1>1, <1>2, <1>3, <1>4, FiniteCounts DEF Bound

\* A request that found no code is one of all requests.
LEMMA BoundFound ==
  ASSUME NEW a, CodesOf(a)' = {}, Making(a)' \subseteq Requests
  PROVE  Bound(a)'
<1>1. Cardinality(CodesOf(a)') = 0
  BY FS_EmptySet
<1>2. /\ Cardinality(Making(a)') <= Cardinality(Requests)
      /\ Cardinality(Making(a)') \in Nat
  BY RequestsAssumption, FS_Subset, FS_CardinalityType
<1> QED BY <1>1, <1>2, FiniteCounts DEF Bound

\* An answered request makes no code.
LEMMA AnswerMaking ==
  ASSUME NEW q \in Requests, NEW a, TypeOK, Answer(q)
  PROVE  Making(a)' \subseteq Making(a) \ {q}
BY DEF Answer, Step, Idle, Making, TypeOK

\* Nor does one whose phase is another one.
LEMMA StepMaking ==
  ASSUME NEW q \in Requests, NEW a, NEW r, TypeOK, Step(q, r),
         r.phase \notin {"exists", "create"}
  PROVE  Making(a)' \subseteq Making(a)
BY DEF Step, Making, TypeOK

LEMMA BoundAdmin ==
  ASSUME NEW q \in Requests, NEW a \in Addresses, IInv, Bound(a),
         KeepOwner, AdminStep(q)
  PROVE  Bound(a)'
<1>1. ASSUME NEW b \in Addresses, NEW c \in Codes, NewSeller(q, b, c)
      PROVE  Bound(a)'
  <2> DEFINE r == [Idle EXCEPT !.phase = "has", !.address = b, !.code = c]
  <2>1. Step(q, r) /\ r.phase = "has" /\ UNCHANGED sellers
    BY <1>1 DEF NewSeller, Idle
  <2> QED BY <2>1, StepMaking, BoundStays DEF IInv, CodesOf
<1>2. CASE AddressHasCode(q)
  <2>1. UNCHANGED sellers /\ CodesOf(a)' = CodesOf(a)
    BY <1>2 DEF AddressHasCode, CodesOf
  <2>2. CASE Answer(q)
    BY <2>1, <2>2, AnswerMaking, BoundStays DEF IInv
  <2>3. CASE CodesOf(request[q].address) = {} /\ Go(q, "exists")
    <3>1. CASE a = request[q].address
      BY <2>1, <2>3, <3>1, BoundFound DEF Making
    <3>2. CASE a # request[q].address
      <4>1. Making(a)' \subseteq Making(a)
        BY <2>3, <3>2 DEF Go, Step, Making, IInv, TypeOK, Request
      <4> QED BY <2>1, <4>1, BoundStays
    <3> QED BY <3>1, <3>2
  <2> QED BY <1>2, <2>2, <2>3 DEF AddressHasCode, Check
<1>3. CASE CodeIsFree(q)
  <2>1. CodesOf(a)' = CodesOf(a)
    BY <1>3 DEF CodeIsFree, CodesOf
  <2>2. Making(a)' \subseteq Making(a)
    <3>1. CASE Answer(q)
      BY <3>1, AnswerMaking DEF IInv
    <3>2. CASE Go(q, "create")
      BY <1>3, <3>2 DEF CodeIsFree, Go, Step, Making, IInv, TypeOK, Request
    <3> QED BY <1>3, <3>1, <3>2 DEF CodeIsFree, Check
  <2> QED BY <2>1, <2>2, BoundStays
<1>4. CASE CreateSeller(q)
  <2>1. Making(a)' \subseteq Making(a) \ {q}
    BY <1>4, AnswerMaking DEF CreateSeller, IInv
  <2>2. CASE UNCHANGED sellers
    BY <2>1, <2>2, BoundStays DEF CodesOf
  <2>3. CASE request[q].address # a /\ ~UNCHANGED sellers
    <3>1. CodesOf(a)' \subseteq CodesOf(a)
      BY <1>4, <2>3 DEF CreateSeller, CodesOf, IInv, TypeOK
    <3> QED BY <2>1, <3>1, BoundStays
  <2>4. CASE request[q].address = a /\ ~UNCHANGED sellers
    <3>1. CodesOf(a)' \subseteq CodesOf(a) \cup {request[q].code}
      BY <1>4, <2>4 DEF CreateSeller, CodesOf, IInv, TypeOK
    <3>2. q \in Making(a)
      BY <1>4, <2>4 DEF CreateSeller, Making
    <3> QED BY <2>1, <3>1, <3>2, BoundInsert
  <2> QED BY <2>2, <2>3, <2>4
<1>5. ASSUME NEW c \in Codes, NEW disable \in BOOLEAN,
             FindSeller(q, c, disable)
      PROVE  Bound(a)'
  <2> DEFINE r == [phase |-> "update", address |-> sellers[c].account,
                   code |-> c, disabled |-> disable]
  <2>1. Step(q, r) /\ r.phase = "update" /\ UNCHANGED sellers
    BY <1>5 DEF FindSeller
  <2> QED BY <2>1, StepMaking, BoundStays DEF IInv, CodesOf
<1>6. CASE UpdateSeller(q)
  <2>1. Making(a)' \subseteq Making(a)
    BY <1>6, AnswerMaking DEF UpdateSeller, IInv
  <2>2. CodesOf(a)' \subseteq CodesOf(a)
    BY <1>6 DEF UpdateSeller, CodesOf, IInv, TypeOK, Sound
  <2> QED BY <2>1, <2>2, BoundStays
<1> QED BY <1>1, <1>2, <1>3, <1>4, <1>5, <1>6 DEF AdminStep

LEMMA BoundBuyer ==
  ASSUME NEW q \in Requests, NEW a \in Addresses, IInv, Bound(a),
         BuyerStep(q) \/ Fail(q)
  PROVE  Bound(a)'
<1>1. CodesOf(a)' = CodesOf(a)
  BY DEF BuyerStep, Fail, AddSellerCode, LookUpCode, RefuseOwnCode, UseCode,
         ReadAccount, UpdateAccount, CodesOf
<1>2. Making(a)' \subseteq Making(a)
  <2>1. CASE Answer(q)
    BY <2>1, AnswerMaking DEF IInv
  <2>2. CASE Go(q, "own") \/ Go(q, "use")
    BY <2>2 DEF Go, Step, Making, IInv, TypeOK, Request
  <2>3. ASSUME NEW b \in Addresses, NEW c \in Codes, AddSellerCode(q, b, c)
        PROVE  Making(a)' \subseteq Making(a)
    BY <2>3, StepMaking DEF AddSellerCode, Idle, IInv
  <2>4. ASSUME NEW b \in Addresses, ReadAccount(q, b)
        PROVE  Making(a)' \subseteq Making(a)
    BY <2>4, StepMaking DEF ReadAccount, Idle, IInv
  <2> QED BY <2>1, <2>2, <2>3, <2>4
          DEF BuyerStep, Fail, LookUpCode, RefuseOwnCode, UseCode,
              UpdateAccount, Check
<1> QED BY <1>1, <1>2, BoundStays

(***************************************************************************)
(* An address never has more codes than there are requests at once; with   *)
(* one request at a time, it has one (seller.go:115-152).                  *)
(***************************************************************************)
THEOREM CodesAreBounded == Spec => []CodesBounded
<1>1. Init => CodesBounded
  <2> SUFFICES ASSUME Init, NEW a \in Addresses PROVE Bound(a)
    BY DEF CodesBounded, Bound
  <2>1. CodesOf(a) = {} /\ Making(a) = {}
    BY NoneAssumption DEF Init, CodesOf, Making, NoSeller, Idle
  <2> QED BY <2>1, FS_EmptySet, FiniteCounts DEF Bound
<1>2. IInv /\ CodesBounded /\ [Next]_vars => CodesBounded'
  <2> SUFFICES ASSUME IInv, CodesBounded, [Next]_vars, NEW a \in Addresses
               PROVE  Bound(a)'
    BY DEF CodesBounded, Bound
  <2>1. Bound(a)
    BY DEF CodesBounded, Bound
  <2>2. KeepOwner
    BY OwnersKept
  <2>3. CASE UNCHANGED vars
    BY <2>1, <2>3 DEF Bound, CodesOf, Making, vars
  <2> QED BY <2>1, <2>2, <2>3, BoundAdmin, BoundBuyer DEF Next
<1> QED BY <1>1, <1>2, IInvHolds, PTL DEF Spec
=============================================================================
