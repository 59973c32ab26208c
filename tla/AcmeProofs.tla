----------------------------- MODULE AcmeProofs -----------------------------
(***************************************************************************)
(* What Acme guarantees of any number of orders, names and requests that   *)
(* overlap, although a challenge writes what it decided before it waited.  *)
(***************************************************************************)
EXTENDS Acme, TLAPS

USE KeeperAssumption DEF Worker

-----------------------------------------------------------------------------
(* The inductive invariant *)

Proof(o, n) == authz[o][n].proof # "none"

\* Every name but n is proven.
OthersProven(o, n) == \A m \in Name \ {n} : Proof(o, m)

\* Some name other than n is not valid.
OtherLeft(o, n) == \E m \in Name \ {n} : authz[o][m].status # "valid"

\* A new order is one request's own until it is created.
CreateFit(r) ==
  work[r].pc = "create" =>
    /\ work[r].order \in Order
    /\ order[work[r].order] = "none"
    /\ \A q \in Req \ {r} : work[q].order # work[r].order

\* A challenge that is under way belongs to an order that exists.  An order that
\* is pending was pending when the challenge loaded it.
ChallengeFit(r) ==
  work[r].pc \in {"validate", "look", "update"} =>
    /\ work[r].order \in Order /\ work[r].name \in Name
    /\ order[work[r].order] # "none"
    /\ order[work[r].order] = "pending" => work[r].seen = "pending"

\* What a challenge is about to write to the order is right.
PutFit(r) ==
  work[r].pc = "update" =>
    /\ work[r].put = "ready" =>
         work[r].ok /\ OthersProven(work[r].order, work[r].name)
    /\ ~work[r].ok /\ work[r].seen = "pending" => work[r].put = "invalid"

\* An order that is being issued stays proven, even if it is closed meanwhile.
SignFit(r) ==
  work[r].pc = "sign" =>
    /\ work[r].order \in Order
    /\ order[work[r].order] # "none"
    /\ Proven(work[r].order)

Fit(r) == CreateFit(r) /\ ChallengeFit(r) /\ PutFit(r) /\ SignFit(r)

WorkFit == \A r \in Req : Fit(r)

KeeperFit == work[Keeper].pc \in {"idle", "close"}

ValidProven ==
  \A o \in Order, n \in Name : authz[o][n].status = "valid" => Proof(o, n)

\* What is to be deleted was made.
PurgeMade == \A w \in Worker : \A o \in work[w].purge : order[o] # "none"

IssuedMade == \A o \in Order : issued[o] => order[o] # "none"

\* The event loop runs one handler at a time.
Waiting(r) == work[r].pc \in {"idle", "validate"}

Serial == loops = "one" =>
  \A r, q \in Req : r # q => Waiting(r) \/ Waiting(q)

\* What a challenge of a single replica saw is still so when it writes.
LookFresh == loops = "one" =>
  \A r \in Req :
    work[r].pc = "update" /\ work[r].ok /\ work[r].put # "ready"
      /\ order[work[r].order] = "pending"
      => OtherLeft(work[r].order, work[r].name)

IInv ==
  /\ TypeOK
  /\ WorkFit
  /\ KeeperFit
  /\ PurgeMade
  /\ ValidProven
  /\ IssuedMade
  /\ IssuedProven
  /\ Serial
  /\ LookFresh
  /\ ReadyWhenProven

LEMMA InitInv == Init => IInv
<1>. SUFFICES ASSUME Init PROVE IInv
  OBVIOUS
<1>1. TypeOK
  BY DEF Init, TypeOK, OrderStatus, Open, Authz, Pending, Work, Idle
<1>2. WorkFit /\ KeeperFit /\ PurgeMade /\ Serial /\ LookFresh
  BY DEF Init, PurgeMade, WorkFit, Fit, CreateFit, ChallengeFit, PutFit, SignFit, KeeperFit,
     Serial, Waiting, LookFresh, Idle
<1>3. ValidProven /\ IssuedMade /\ IssuedProven /\ ReadyWhenProven
  BY DEF Init, ValidProven, IssuedMade, IssuedProven, ReadyWhenProven, Pending
<1> QED
  BY <1>1, <1>2, <1>3 DEF IInv

-----------------------------------------------------------------------------
(* What a step does to the work of the others *)

\* The tables only move forward: an order that was made stays made, is never
\* pending again, and no proof is lost.
Forward ==
  \A o \in Order : order[o] # "none" =>
    /\ order'[o] # "none"
    /\ order'[o] = "pending" => order[o] = "pending"
    /\ \A n \in Name : Proof(o, n) => Proof(o, n)'

\* w alone makes an order, and it does not take one that another is to make.
Own(w) ==
  /\ \A o \in Order : order[o] = "none" /\ order'[o] # "none" =>
       w \in Req /\ work[w].pc = "create" /\ work[w].order = o
  /\ \A q \in Req \ {w} : work[q].pc = "create" =>
       work'[w].order # work[q].order

LEMMA OthersFit ==
  ASSUME IInv, NEW w \in Worker, NEW t,
         work' = [work EXCEPT ![w] = t], Forward, Own(w),
         NEW q \in Req, q # w
  PROVE  Fit(q)'
<1>1. work'[q] = work[q] /\ Fit(q)
  BY DEF IInv, TypeOK, WorkFit
<1>2. CreateFit(q)'
  <2>. SUFFICES ASSUME work[q].pc = "create"
       PROVE  /\ order'[work[q].order] = "none"
              /\ \A p \in Req \ {q} : work'[p].order # work[q].order
    BY <1>1 DEF Fit, CreateFit
  <2>1. /\ work[q].order \in Order
        /\ order[work[q].order] = "none"
        /\ \A p \in Req \ {q} : work[p].order # work[q].order
    BY <1>1 DEF Fit, CreateFit
  <2>2. order'[work[q].order] = "none"
    BY <2>1 DEF Own
  <2>3. ASSUME NEW p \in Req \ {q} PROVE work'[p].order # work[q].order
    <3>1. CASE p = w
      BY <3>1 DEF Own
    <3>2. CASE p # w
      BY <3>2, <2>1 DEF IInv, TypeOK
    <3> QED
      BY <3>1, <3>2
  <2> QED
    BY <2>2, <2>3
<1>3. ChallengeFit(q)'
  BY <1>1 DEF Fit, ChallengeFit, Forward
<1>4. PutFit(q)'
  BY <1>1 DEF Fit, PutFit, ChallengeFit, Forward, OthersProven
<1>5. SignFit(q)'
  BY <1>1 DEF Fit, SignFit, Forward, Proven, Proof
<1> QED
  BY <1>2, <1>3, <1>4, <1>5 DEF Fit

\* A step that writes no table keeps the invariant if the worker's new state fits.
LEMMA ReadInv ==
  ASSUME IInv, TypeOK', NEW w \in Worker, NEW t,
         Goes(w, t), Unwritten,
         \A q \in Req \ {w} : work[q].pc = "create" => t.order # work[q].order,
         \A o \in t.purge : order[o] # "none",
         w \in Req => Fit(w)',
         w = Keeper => t.pc \in {"idle", "close"},
         loops = "one" => LoopFree(w) \/ t.pc \in {"idle", "validate"}
                            \/ w = Keeper,
         LookFresh'
  PROVE  IInv'
<1>1. work' = [work EXCEPT ![w] = t] /\ work'[w] = t
  BY DEF Goes, IInv, TypeOK
<1>2. UNCHANGED <<loops, account, order, authz, age, issued>>
  BY DEF Unwritten
<1>3. Forward
  BY <1>2 DEF Forward, Proof
<1>4. Own(w)
  BY <1>1, <1>2 DEF Own
<1>5. WorkFit'
  <2>1. ASSUME NEW q \in Req PROVE Fit(q)'
    <3>1. CASE q = w
      BY <3>1
    <3>2. CASE q # w
      BY <3>2, <1>1, <1>3, <1>4, OthersFit
    <3> QED
      BY <3>1, <3>2
  <2> QED
    BY <2>1 DEF WorkFit
<1>6. KeeperFit'
  BY <1>1 DEF KeeperFit, IInv
<1>7. ValidProven' /\ IssuedMade' /\ IssuedProven' /\ ReadyWhenProven'
  BY <1>2 DEF IInv, ValidProven, IssuedMade, IssuedProven, ReadyWhenProven, Proof, Proven
<1>8. Serial'
  <2>. SUFFICES ASSUME loops = "one", NEW r \in Req, NEW q \in Req, r # q
       PROVE  Waiting(r)' \/ Waiting(q)'
    BY <1>2 DEF Serial
  <2>1. Waiting(r) \/ Waiting(q)
    BY DEF IInv, Serial
  <2>2. \A p \in Req \ {w} : Waiting(p)' <=> Waiting(p)
    BY <1>1 DEF Waiting, IInv, TypeOK
  <2>3. CASE r # w /\ q # w
    BY <2>1, <2>2, <2>3
  <2>4. CASE r = w \/ q = w
    <3>1. CASE t.pc \in {"idle", "validate"}
      BY <3>1, <2>4, <1>1 DEF Waiting
    <3>2. CASE LoopFree(w)
      BY <3>2, <2>4, <2>2 DEF LoopFree, Waiting
    <3> QED
      BY <3>1, <3>2, <2>4
  <2> QED
    BY <2>3, <2>4
<1>9. PurgeMade'
  BY <1>1, <1>2 DEF PurgeMade, IInv, TypeOK
<1> QED
  BY <1>5, <1>6, <1>7, <1>8, <1>9 DEF IInv

-----------------------------------------------------------------------------
(* Types *)

LEMMA IdleType == Idle \in Work
  BY DEF Idle, Work, OrderStatus, Open

LEMMA NextWorkType ==
  ASSUME NEW t \in Work, NEW ok \in BOOLEAN, NEW put \in {"none", "ready", "invalid"}
  PROVE  /\ [t EXCEPT !.pc = "look", !.ok = ok] \in Work
         /\ [t EXCEPT !.pc = "update", !.put = put] \in Work
  BY DEF Work

LEMMA AuthzType ==
  ASSUME NEW a \in Authz, NEW v \in {"deactivated", "expired"}
  PROVE  [a EXCEPT !.status = v] \in Authz
  BY DEF Authz

LEMMA TypeInv == ASSUME IInv, Next PROVE TypeOK'
<1>. TypeOK
  BY DEF IInv
<1>. USE DEF TypeOK
<1>0. \A w \in Worker : work[w] \in Work
  OBVIOUS
<1>1. ASSUME NEW w \in Worker, NEW t \in Work, Goes(w, t) PROVE work' \in [Worker -> Work]
  BY <1>1 DEF Goes
<1>2. ASSUME NEW w \in Worker, NEW t \in Work, Goes(w, t), Unwritten PROVE TypeOK'
  BY <1>1, <1>2 DEF Unwritten
<1>3. ASSUME NEW w \in Worker, Close(w) PROVE TypeOK'
  <2>1. work[w].to \in {"deactivated", "expired"}
    BY <1>0 DEF Work
  <2>2. \A o \in Order, n \in Name : [authz[o][n] EXCEPT !.status = work[w].to] \in Authz
    <3>1. ASSUME NEW o \in Order, NEW n \in Name PROVE authz[o][n] \in Authz
      OBVIOUS
    <3> QED
      BY <3>1, <2>1, AuthzType
  <2>3. authz' \in [Order -> [Name -> Authz]]
    BY <2>2, <1>3 DEF Close
  <2>4. order' \in [Order -> OrderStatus]
    BY <1>3 DEF Close, OrderStatus, Open
  <2> QED
    BY <2>3, <2>4, <1>1, <1>3, IdleType DEF Close
<1>4. ASSUME NEW r \in Req, Request(r) PROVE TypeOK'
  <2>1. ASSUME NEW o \in Order, NEW scope \in BOOLEAN, NewOrder(r, o, scope) PROVE TypeOK'
    <3>1. [Idle EXCEPT !.pc = "create", !.order = o, !.ok = scope] \in Work
      BY IdleType DEF Work
    <3> QED
      BY <3>1, <2>1, <1>2 DEF NewOrder
  <2>2. ASSUME NEW o \in Order, NEW n \in Name, Challenge(r, o, n) PROVE TypeOK'
    <3>1. [Idle EXCEPT !.pc = "validate", !.order = o, !.name = n, !.seen = order[o]] \in Work
      BY IdleType DEF Work
    <3> QED
      BY <3>1, <2>2, <1>2 DEF Challenge
  <2>3. ASSUME NEW o \in Order, NEW n \in Name, GiveUp(r, o, n) PROVE TypeOK'
    <3>. DEFINE x == {<<o, n>>}
                S == IF order[o] \in {"pending", "ready"} THEN {o} ELSE {}
    <3>1. x \in SUBSET (Order \X Name) /\ S \in SUBSET Order
      OBVIOUS
    <3>. HIDE DEF x, S
    <3>2. [Idle EXCEPT !.pc = "close", !.authzs = x, !.orders = S] \in Work
      BY <3>1, IdleType DEF Work
    <3> QED
      BY <3>2, <2>3, <1>2 DEF GiveUp, x, S
  <2>4. ASSUME NEW o \in Order, Finalize(r, o) PROVE TypeOK'
    <3>1. [Idle EXCEPT !.pc = "sign", !.order = o, !.seen = "ready"] \in Work
      BY IdleType DEF Work, OrderStatus, Open
    <3> QED
      BY <3>1, <2>4, <1>2 DEF Finalize
  <2>5. ASSUME NEW o \in Order, Expire(r, o) PROVE TypeOK'
    <3>1. [Idle EXCEPT !.pc = "close", !.orders = {o}] \in Work
      BY IdleType, ZenonT(60) DEF Work
    <3> QED
      BY <3>1, <2>5, <1>2 DEF Expire
  <2>6. ASSUME Leave(r) PROVE TypeOK'
    <3>. DEFINE open == {o \in Order : order[o] \in Open}
                mine == {x \in open \X Name :
                           authz[x[1]][x[2]].status \in {"pending", "valid"}}
    <3>1. open \in SUBSET Order /\ mine \in SUBSET (Order \X Name)
      OBVIOUS
    <3>. HIDE DEF open, mine
    <3>2. [Idle EXCEPT !.pc = "close", !.leave = TRUE, !.orders = open,
             !.authzs = mine] \in Work
      BY <3>1, IdleType DEF Work
    <3> QED
      BY <3>2, <2>6, <1>2 DEF Leave, open, mine
  <2> QED
    BY ONLY <1>4, <2>1, <2>2, <2>3, <2>4, <2>5, <2>6 DEF Request
<1>5. ASSUME NEW r \in Req, GoesOn(r) PROVE TypeOK'
  <2>1. CASE CreateOrder(r)
    BY <2>1, <1>1, IdleType DEF CreateOrder, OrderStatus, Open, Authz, InScope, Pending
  <2>2. ASSUME NEW ok \in BOOLEAN, Validated(r, ok) PROVE TypeOK'
    <3>1. [work[r] EXCEPT !.pc = "look", !.ok = ok] \in Work
      BY <1>0, NextWorkType
    <3> QED
      BY <3>1, <2>2, <1>2 DEF Validated
  <2>3. CASE Look(r)
    <3>1. ASSUME NEW put \in {"none", "ready", "invalid"}
          PROVE  [work[r] EXCEPT !.pc = "update", !.put = put] \in Work
      BY <1>0, NextWorkType
    <3> QED
      BY <3>1, <2>3, <1>2 DEF Look
  <2>4. CASE Update(r)
    <3>. DEFINE o == work[r].order
                n == work[r].name
                v == IF work[r].ok THEN "valid" ELSE "invalid"
                a == [status |-> v, challenge |-> v,
                      proof |-> IF work[r].ok THEN "challenge" ELSE authz[o][n].proof]
    <3>1. o \in Order /\ n \in Name
      BY <2>4 DEF Update, IInv, WorkFit, Fit, ChallengeFit
    <3>2. authz[o][n] \in Authz
      BY <3>1
    <3>3. a \in Authz
      BY <3>2 DEF Authz
    <3>4. authz' = [authz EXCEPT ![o][n] = a]
      BY <2>4, <3>1 DEF Update
    <3>5. authz' \in [Order -> [Name -> Authz]]
      BY <3>1, <3>3, <3>4
    <3>6. work[r].put \in {"none", "ready", "invalid"}
      BY <1>0 DEF Work
    <3>7. order' \in [Order -> OrderStatus]
      BY <3>1, <3>6, <2>4 DEF Update, OrderStatus, Open
    <3> QED
      BY <3>5, <3>7, <2>4, <1>1, IdleType DEF Update
  <2>5. CASE Issue(r)
    BY <2>5, <1>1, IdleType DEF Issue, OrderStatus, Open
  <2>6. CASE Refuse(r)
    <3>1. work[r].order \in Order
      BY <2>6 DEF Refuse, IInv, WorkFit, Fit, SignFit
    <3>2. [Idle EXCEPT !.pc = "close", !.orders = {work[r].order}] \in Work
      BY <3>1, IdleType, ZenonT(60) DEF Work
    <3> QED
      BY <3>1, <3>2, <2>6, <1>1 DEF Refuse, OrderStatus, Open
  <2>7. CASE Close(r)
    BY <2>7, <1>3
  <2> QED
    BY <1>5, <2>1, <2>2, <2>3, <2>4, <2>5, <2>6, <2>7 DEF GoesOn
<1>6. CASE Keep
  <2>. DEFINE late == {o \in Order : Overdue(o)}
              mine == {x \in late \X Name : authz[x[1]][x[2]].status = "pending"}
              gone == {o \in Order : age[o] = "old" /\ (order[o] = "invalid" \/ o \in late)}
  <2>1. late \in SUBSET Order /\ mine \in SUBSET (Order \X Name) /\ gone \in SUBSET Order
    OBVIOUS
  <2>2. Sweep(late) = [Idle EXCEPT !.pc = "close", !.orders = late, !.to = "expired",
                         !.authzs = mine, !.purge = gone]
    BY DEF Sweep
  <2>. HIDE DEF mine, gone
  <2>3. Sweep(late) \in Work
    BY <2>1, <2>2, IdleType, ZenonT(60) DEF Work
  <2> QED
    BY <2>3, <1>2, <1>6 DEF Keep
<1>7. ASSUME NEW w \in Worker, Fail(w) PROVE TypeOK'
  BY <1>7, <1>2, IdleType DEF Fail
<1>8. ASSUME NEW o \in Order, Ages(o) PROVE TypeOK'
  BY <1>8 DEF Ages
<1> QED
  BY <1>3, <1>5, <1>6, <1>4, <1>7, <1>8 DEF Next

-----------------------------------------------------------------------------
(* Steps that only load rows *)

LEMMA LookFreshKept ==
  ASSUME IInv, NEW w \in Worker, NEW t, Goes(w, t), Unwritten, t.pc # "update"
  PROVE  LookFresh'
<1>1. \A q \in Req : work'[q].pc = "update" => work'[q] = work[q]
  BY DEF Goes, IInv, TypeOK
<1> QED
  BY <1>1 DEF Unwritten, IInv, LookFresh, OtherLeft

\* An order that exists, or the placeholder, is not one about to be made.
LEMMA NotBeingMade ==
  ASSUME IInv, NEW o, o \in Order => order[o] # "none", NEW q \in Req,
         work[q].pc = "create"
  PROVE  o # work[q].order
  BY DEF IInv, WorkFit, Fit, CreateFit

LEMMA NewOrderInv ==
  ASSUME IInv, TypeOK', NEW r \in Req, NEW o \in Order, NEW scope \in BOOLEAN,
         NewOrder(r, o, scope)
  PROVE  IInv'
<1>. DEFINE t == [Idle EXCEPT !.pc = "create", !.order = o, !.ok = scope]
<1>1. t.pc = "create" /\ t.order = o /\ t.purge = {}
  BY DEF Idle
<1>2. /\ Goes(r, t) /\ Unwritten /\ LoopFree(r)
      /\ order[o] = "none" /\ \A q \in Req : work[q].order # o
  BY DEF NewOrder, Accepted
<1>. HIDE DEF t
<1>3. work'[r] = t /\ \A q \in Req \ {r} : work'[q] = work[q]
  BY <1>2 DEF Goes, IInv, TypeOK
<1>4. Fit(r)'
  BY <1>1, <1>2, <1>3 DEF Fit, CreateFit, ChallengeFit, PutFit, SignFit, Unwritten
<1>5. LookFresh'
  BY <1>1, <1>2, LookFreshKept
<1> QED
  BY <1>1, <1>2, <1>4, <1>5, ReadInv

LEMMA ChallengeInv ==
  ASSUME IInv, TypeOK', NEW r \in Req, NEW o \in Order, NEW n \in Name,
         Challenge(r, o, n)
  PROVE  IInv'
<1>. DEFINE t == [Idle EXCEPT !.pc = "validate", !.order = o, !.name = n,
                    !.seen = order[o]]
<1>1. /\ t.pc = "validate" /\ t.order = o /\ t.name = n /\ t.seen = order[o]
      /\ t.purge = {}
  BY DEF Idle
<1>2. Goes(r, t) /\ Unwritten /\ LoopFree(r) /\ order[o] # "none"
  BY DEF Challenge, Accepted, Exists
<1>. HIDE DEF t
<1>3. work'[r] = t
  BY <1>2 DEF Goes, IInv, TypeOK
<1>4. Fit(r)'
  BY <1>1, <1>2, <1>3 DEF Fit, CreateFit, ChallengeFit, PutFit, SignFit, Unwritten
<1>5. LookFresh'
  BY <1>1, <1>2, LookFreshKept
<1>6. \A q \in Req : work[q].pc = "create" => t.order # work[q].order
  BY <1>1, <1>2, NotBeingMade
<1> QED
  BY <1>1, <1>2, <1>4, <1>5, <1>6, ReadInv

LEMMA ValidatedInv ==
  ASSUME IInv, TypeOK', NEW r \in Req, NEW ok \in BOOLEAN, Validated(r, ok)
  PROVE  IInv'
<1>. DEFINE t == [work[r] EXCEPT !.pc = "look", !.ok = ok]
<1>1. /\ t.pc = "look" /\ t.order = work[r].order /\ t.name = work[r].name
      /\ t.seen = work[r].seen /\ t.purge = work[r].purge
  BY DEF IInv, TypeOK, Work
<1>2. Goes(r, t) /\ Unwritten /\ LoopFree(r)
  BY DEF Validated
<1>3. ChallengeFit(r) /\ work[r].pc = "validate"
  BY DEF Validated, IInv, WorkFit, Fit
<1>. HIDE DEF t
<1>4. work'[r] = t
  BY <1>2 DEF Goes, IInv, TypeOK
<1>5. Fit(r)'
  BY <1>1, <1>2, <1>3, <1>4 DEF Fit, CreateFit, ChallengeFit, PutFit, SignFit, Unwritten
<1>6. LookFresh'
  BY <1>1, <1>2, LookFreshKept
<1>7. \A q \in Req : work[q].pc = "create" => t.order # work[q].order
  BY <1>1, <1>3, NotBeingMade DEF ChallengeFit
<1>8. \A x \in t.purge : order[x] # "none"
  BY <1>1 DEF IInv, PurgeMade
<1> QED
  BY <1>1, <1>2, <1>5, <1>6, <1>7, <1>8, ReadInv

\* A handler of a single replica that is not waiting runs alone.
LEMMA ValidatesAlone ==
  ASSUME IInv, NEW r \in Req, ~Waiting(r), loops = "one"
  PROVE  LoopFree(r)
  BY DEF IInv, Serial, LoopFree, Waiting

LEMMA LookInv ==
  ASSUME IInv, TypeOK', NEW r \in Req, Look(r)
  PROVE  IInv'
<1>. DEFINE o == work[r].order
            n == work[r].name
            ready == /\ work[r].ok /\ work[r].seen = "pending"
                     /\ \A m \in Name \ {n} : authz[o][m].status = "valid"
            put == IF ready THEN "ready"
                   ELSE IF ~work[r].ok /\ work[r].seen # "invalid" THEN "invalid"
                   ELSE "none"
            t == [work[r] EXCEPT !.pc = "update", !.put = put]
<1>1. /\ t.pc = "update" /\ t.order = o /\ t.name = n /\ t.put = put
      /\ t.seen = work[r].seen /\ t.ok = work[r].ok /\ t.purge = work[r].purge
  BY DEF IInv, TypeOK, Work
<1>2. Goes(r, t) /\ Unwritten /\ work[r].pc = "look"
  BY DEF Look
<1>3. ChallengeFit(r)
  BY DEF IInv, WorkFit, Fit
<1>4. /\ o \in Order /\ n \in Name /\ order[o] # "none"
      /\ order[o] = "pending" => work[r].seen = "pending"
  BY <1>2, <1>3 DEF ChallengeFit
<1>5. put = "ready" => work[r].ok /\ OthersProven(o, n)
  BY <1>4 DEF OthersProven, IInv, ValidProven
<1>6. ~work[r].ok /\ work[r].seen = "pending" => put = "invalid"
  OBVIOUS
<1>7. work[r].ok /\ put # "ready" /\ order[o] = "pending" => OtherLeft(o, n)
  BY <1>4 DEF OtherLeft
<1>. HIDE DEF t, put, ready
<1>8. \A x \in t.purge : order[x] # "none"
  BY <1>1 DEF IInv, PurgeMade
<1>9. work'[r] = t /\ \A q \in Req \ {r} : work'[q] = work[q]
  BY <1>2 DEF Goes, IInv, TypeOK
<1>10. Fit(r)'
  BY <1>1, <1>2, <1>4, <1>5, <1>6, <1>9
     DEF Fit, CreateFit, ChallengeFit, PutFit, SignFit, Unwritten, OthersProven, Proof
<1>11. LookFresh'
  BY <1>1, <1>2, <1>7, <1>9 DEF LookFresh, IInv, OtherLeft, Unwritten
<1>12. \A q \in Req : work[q].pc = "create" => t.order # work[q].order
  BY <1>1, <1>4, NotBeingMade
<1>13. loops = "one" => LoopFree(r)
  BY <1>2, ValidatesAlone DEF Waiting
<1> QED
  BY <1>1, <1>2, <1>10, <1>11, <1>12, <1>13, <1>8, ReadInv

LEMMA FinalizeInv ==
  ASSUME IInv, TypeOK', NEW r \in Req, NEW o \in Order, Finalize(r, o)
  PROVE  IInv'
<1>. DEFINE t == [Idle EXCEPT !.pc = "sign", !.order = o, !.seen = "ready"]
<1>1. t.pc = "sign" /\ t.order = o /\ t.purge = {}
  BY DEF Idle
<1>2. Goes(r, t) /\ Unwritten /\ LoopFree(r) /\ order[o] = "ready"
  BY DEF Finalize, Accepted
<1>3. Proven(o)
  BY <1>2 DEF IInv, IssuedProven
<1>. HIDE DEF t
<1>4. work'[r] = t
  BY <1>2 DEF Goes, IInv, TypeOK
<1>5. Fit(r)'
  BY <1>1, <1>2, <1>3, <1>4
     DEF Fit, CreateFit, ChallengeFit, PutFit, SignFit, Unwritten, Proven
<1>6. LookFresh'
  BY <1>1, <1>2, LookFreshKept
<1>7. \A q \in Req : work[q].pc = "create" => t.order # work[q].order
  BY <1>1, <1>2, NotBeingMade
<1> QED
  BY <1>1, <1>2, <1>5, <1>6, <1>7, ReadInv

\* A worker that is to close orders, or is idle, has no order of its own.
LEMMA NoOrderInv ==
  ASSUME IInv, TypeOK', NEW w \in Worker, NEW t, Goes(w, t), Unwritten,
         t.pc = "idle" \/ (t.pc = "close" /\ (LoopFree(w) \/ w = Keeper)),
         t.order = Keeper, \A o \in t.purge : order[o] # "none"
  PROVE  IInv'
<1>1. work'[w] = t
  BY DEF Goes, IInv, TypeOK
<1>2. w \in Req => Fit(w)'
  BY <1>1 DEF Fit, CreateFit, ChallengeFit, PutFit, SignFit
<1>3. LookFresh'
  BY LookFreshKept
<1>4. \A q \in Req : work[q].pc = "create" => t.order # work[q].order
  BY NotBeingMade
<1> QED
  BY <1>2, <1>3, <1>4, ReadInv

-----------------------------------------------------------------------------
(* Steps that write *)

LEMMA WriteInv ==
  ASSUME IInv, TypeOK', NEW w \in Worker, NEW t, Goes(w, t), loops' = loops,
         Forward, Own(w), t.order = Keeper, t.purge = {},
         t.pc = "idle" \/ (t.pc = "close" /\ w \in Req /\ ~Waiting(w)),
         ValidProven', IssuedMade', IssuedProven', ReadyWhenProven', LookFresh'
  PROVE  IInv'
<1>1. work' = [work EXCEPT ![w] = t] /\ work'[w] = t
  BY DEF Goes, IInv, TypeOK
<1>2. ASSUME NEW q \in Req PROVE Fit(q)'
  <2>1. CASE q = w
    BY <2>1, <1>1 DEF Fit, CreateFit, ChallengeFit, PutFit, SignFit
  <2>2. CASE q # w
    BY <2>2, <1>1, OthersFit
  <2> QED
    BY <2>1, <2>2
<1>3. WorkFit'
  BY <1>2 DEF WorkFit
<1>4. KeeperFit'
  BY <1>1 DEF KeeperFit, IInv
<1>5. \A q \in Req : Waiting(q) => Waiting(q)'
  BY <1>1 DEF Waiting, IInv, TypeOK
<1>6. Serial'
  BY <1>5 DEF Serial, IInv
<1>7. PurgeMade'
  <2>1. \A q \in Worker : work'[q].purge \subseteq work[q].purge
    BY <1>1 DEF IInv, TypeOK
  <2>2. \A q \in Worker : work[q].purge \subseteq Order
    BY DEF IInv, TypeOK, Work
  <2> QED
    BY <2>1, <2>2 DEF PurgeMade, IInv, Forward
<1> QED
  BY <1>3, <1>4, <1>6, <1>7 DEF IInv

\* While a handler of a single replica writes, no other is about to.
LEMMA LookFreshAlone ==
  ASSUME IInv, NEW r \in Req, NEW t, Goes(r, t), loops' = loops, ~Waiting(r),
         t.pc # "update"
  PROVE  LookFresh'
<1>1. loops = "one" => \A q \in Req : work'[q].pc # "update"
  BY DEF Goes, IInv, TypeOK, Serial, Waiting
<1> QED
  BY <1>1 DEF LookFresh

LEMMA CreateOrderInv ==
  ASSUME IInv, TypeOK', NEW r \in Req, CreateOrder(r)
  PROVE  IInv'
<1>. DEFINE o == work[r].order
<1>. Idle.pc = "idle" /\ Idle.order = Keeper /\ Idle.purge = {}
  BY DEF Idle
<1>1. /\ o \in Order /\ order[o] = "none"
      /\ \A q \in Req \ {r} : work[q].order # o
  BY DEF CreateOrder, IInv, WorkFit, Fit, CreateFit
<1>2. /\ Goes(r, Idle) /\ UNCHANGED <<loops, issued>> /\ work[r].pc = "create"
      /\ \A x \in Order \ {o} : order'[x] = order[x] /\ authz'[x] = authz[x]
      /\ order'[o] = IF work[r].ok THEN "ready" ELSE "pending"
      /\ \A n \in Name : authz'[o][n] = IF work[r].ok THEN InScope ELSE Pending
  BY <1>1 DEF CreateOrder, IInv, TypeOK
<1>3. work'[r] = Idle
  BY <1>2 DEF Goes, IInv, TypeOK
<1>4. Forward
  BY <1>1, <1>2 DEF Forward, Proof
<1>5. Own(r)
  BY <1>1, <1>2, <1>3, NotBeingMade DEF Own
<1>6. ValidProven'
  BY <1>2 DEF ValidProven, Proof, IInv, InScope, Pending
<1>7. IssuedMade'
  BY <1>2 DEF IssuedMade, IInv
<1>8. IssuedProven'
  BY <1>1, <1>2 DEF IssuedProven, IssuedMade, Proven, IInv, InScope
<1>9. ReadyWhenProven'
  <2>1. order'[o] = "pending" => \E n \in Name : authz'[o][n].status # "valid"
    BY <1>2, NameAssumption DEF Pending
  <2> QED
    BY <1>2, <2>1 DEF ReadyWhenProven, IInv
<1>10. LookFresh'
  BY <1>2, LookFreshAlone DEF Waiting
<1> QED
  BY <1>2, <1>4, <1>5, <1>6, <1>7, <1>8, <1>9, <1>10, WriteInv

LEMMA UpdateInv ==
  ASSUME IInv, TypeOK', NEW r \in Req, Update(r)
  PROVE  IInv'
<1>. DEFINE o == work[r].order
            n == work[r].name
            v == IF work[r].ok THEN "valid" ELSE "invalid"
            put == work[r].put
<1>. Idle.pc = "idle" /\ Idle.order = Keeper /\ Idle.purge = {}
  BY DEF Idle
<1>1. Fit(r) /\ work[r].pc = "update"
  BY DEF Update, IInv, WorkFit
<1>2. /\ o \in Order /\ n \in Name /\ order[o] # "none"
      /\ order[o] = "pending" => work[r].seen = "pending"
      /\ put = "ready" => work[r].ok /\ OthersProven(o, n)
      /\ ~work[r].ok /\ work[r].seen = "pending" => put = "invalid"
  BY <1>1 DEF Fit, ChallengeFit, PutFit
<1>3. put \in {"none", "ready", "invalid"}
  BY DEF IInv, TypeOK, Work
<1>4. /\ Goes(r, Idle) /\ UNCHANGED <<loops, issued>>
      /\ \A x \in Order \ {o} : order'[x] = order[x] /\ authz'[x] = authz[x]
      /\ order'[o] = IF put = "none" THEN order[o] ELSE put
      /\ \A m \in Name \ {n} : authz'[o][m] = authz[o][m]
      /\ authz'[o][n].status = v
      /\ authz'[o][n].proof =
           IF work[r].ok THEN "challenge" ELSE authz[o][n].proof
  BY <1>2 DEF Update, IInv, TypeOK
<1>5. work'[r] = Idle
  BY <1>4 DEF Goes, IInv, TypeOK
<1>6. \A x \in Order, m \in Name : Proof(x, m) => Proof(x, m)'
  BY <1>4 DEF Proof
<1>7. Forward
  BY <1>2, <1>3, <1>4, <1>6 DEF Forward
<1>8. Own(r)
  BY <1>2, <1>4, <1>5, NotBeingMade DEF Own
<1>9. ValidProven'
  <2>1. ASSUME NEW x \in Order, NEW m \in Name, authz'[x][m].status = "valid"
        PROVE  Proof(x, m)'
    <3>1. CASE x = o /\ m = n
      BY <3>1, <2>1, <1>4 DEF Proof
    <3>2. CASE ~(x = o /\ m = n)
      BY <3>2, <2>1, <1>4 DEF Proof, IInv, ValidProven
    <3> QED
      BY <3>1, <3>2
  <2> QED
    BY <2>1 DEF ValidProven
<1>10. IssuedMade'
  BY <1>4, <1>7 DEF IssuedMade, IInv, Forward
<1>11. IssuedProven'
  <2>. SUFFICES ASSUME NEW x \in Order,
                       order'[x] \in {"ready", "processing", "valid"} \/ issued'[x],
                       NEW m \in Name
       PROVE  Proof(x, m)'
    BY DEF IssuedProven, Proven, Proof
  <2>1. CASE order[x] \in {"ready", "processing", "valid"} \/ issued[x]
    BY <2>1, <1>6 DEF IInv, IssuedProven, Proven, Proof
  <2>2. CASE ~(order[x] \in {"ready", "processing", "valid"} \/ issued[x])
    <3>1. x = o /\ put = "ready"
      BY <2>2, <1>3, <1>4
    <3>2. work[r].ok /\ OthersProven(o, n)
      BY <3>1, <1>2
    <3>3. CASE m = n
      BY <3>1, <3>2, <3>3, <1>4 DEF Proof
    <3>4. CASE m # n
      BY <3>1, <3>2, <3>4, <1>4 DEF Proof, OthersProven
    <3> QED
      BY <3>3, <3>4
  <2> QED
    BY <2>1, <2>2
<1>12. ReadyWhenProven'
  <2>. SUFFICES ASSUME loops = "one", NEW x \in Order, order'[x] = "pending"
       PROVE  \E m \in Name : authz'[x][m].status # "valid"
    BY <1>4 DEF ReadyWhenProven
  <2>1. CASE x = o
    <3>1. order[o] = "pending" /\ put = "none"
      BY <2>1, <1>3, <1>4
    <3>2. work[r].ok
      BY <3>1, <1>2
    <3>3. OtherLeft(o, n)
      BY <3>1, <3>2, <1>1 DEF IInv, LookFresh
    <3> QED
      BY <3>3, <2>1, <1>4 DEF OtherLeft
  <2>2. CASE x # o
    BY <2>2, <1>4 DEF IInv, ReadyWhenProven
  <2> QED
    BY <2>1, <2>2
<1>13. LookFresh'
  BY <1>1, <1>4, LookFreshAlone DEF Waiting
<1> QED
  BY <1>4, <1>7, <1>8, <1>9, <1>10, <1>11, <1>12, <1>13, WriteInv

\* The order that is issued or refused was ready and is proven still.
LEMMA SignedInv ==
  ASSUME IInv, TypeOK', NEW r \in Req, Issue(r) \/ Refuse(r)
  PROVE  IInv'
<1>. DEFINE o == work[r].order
            t == IF Issue(r) THEN Idle ELSE [Idle EXCEPT !.pc = "close", !.orders = {o}]
<1>1. t.order = Keeper /\ t.purge = {} /\ t.pc \in {"idle", "close"}
  BY DEF Idle
<1>2. Goes(r, t) /\ work[r].pc = "sign"
  BY DEF Issue, Refuse
<1>. HIDE DEF t
<1>3. o \in Order /\ order[o] # "none" /\ Proven(o)
  BY <1>2 DEF IInv, WorkFit, Fit, SignFit
<1>4. /\ UNCHANGED <<loops, authz>>
      /\ \A x \in Order \ {o} : order'[x] = order[x] /\ issued'[x] = issued[x]
      /\ order'[o] \in {"valid", "processing"}
  BY <1>3 DEF Issue, Refuse, IInv, TypeOK
<1>5. work'[r] = t
  BY <1>2 DEF Goes, IInv, TypeOK
<1>6. Forward
  BY <1>3, <1>4 DEF Forward, Proof
<1>7. Own(r)
  BY <1>1, <1>3, <1>4, <1>5, NotBeingMade DEF Own
<1>8. ValidProven' /\ IssuedMade' /\ IssuedProven' /\ ReadyWhenProven'
  BY <1>3, <1>4 DEF IInv, ValidProven, IssuedMade, IssuedProven, ReadyWhenProven,
     Proof, Proven
<1>9. LookFresh'
  BY <1>1, <1>2, <1>4, LookFreshAlone DEF Waiting
<1> QED
  BY <1>1, <1>2, <1>4, <1>6, <1>7, <1>8, <1>9, WriteInv DEF Waiting

LEMMA CloseInv ==
  ASSUME IInv, TypeOK', NEW w \in Worker, Close(w)
  PROVE  IInv'
<1>. DEFINE t == work[w]
<1>. Idle.pc = "idle" /\ Idle.order = Keeper /\ Idle.purge = {}
  BY DEF Idle
<1>1. t.to \in {"deactivated", "expired"}
  BY DEF IInv, TypeOK, Work
<1>2. /\ Goes(w, Idle) /\ UNCHANGED <<loops, issued>>
      /\ \A o \in Order : order'[o] \in {order[o], "invalid", "purged"}
      /\ \A o \in Order : o \in t.orders => order[o] # "none"
      /\ \A o \in Order : order'[o] # order[o] => o \in t.purge \/ o \in t.orders
  BY DEF Close, Exists
<1>3. \A o \in Order, n \in Name :
        /\ authz'[o][n].proof = authz[o][n].proof
        /\ authz'[o][n].status \in {authz[o][n].status, t.to}
  <2>1. ASSUME NEW o \in Order, NEW n \in Name PROVE authz[o][n] \in Authz
    BY DEF IInv, TypeOK
  <2>2. \A a \in Authz : /\ [a EXCEPT !.status = t.to].proof = a.proof
                         /\ [a EXCEPT !.status = t.to].status = t.to
    BY DEF Authz
  <2> QED
    BY <2>1, <2>2 DEF Close
<1>4. \A o \in Order : order'[o] # order[o] => order[o] # "none"
  BY <1>2 DEF IInv, PurgeMade
<1>5. work'[w] = Idle
  BY <1>2 DEF Goes, IInv, TypeOK
<1>6. Forward
  BY <1>2, <1>3 DEF Forward, Proof
<1>7. Own(w)
  BY <1>4, <1>5, NotBeingMade DEF Own
<1>8. ValidProven'
  BY <1>1, <1>3 DEF ValidProven, Proof, IInv
<1>9. IssuedMade'
  BY <1>2, <1>6 DEF IssuedMade, IInv, Forward
<1>10. IssuedProven'
  BY <1>2, <1>3 DEF IssuedProven, IInv, Proven
<1>11. \A o \in Order : order'[o] = "pending" => order[o] = "pending"
  BY <1>2
<1>12. ReadyWhenProven'
  BY <1>1, <1>2, <1>3, <1>11 DEF ReadyWhenProven, IInv
<1>13. LookFresh'
  <2>. SUFFICES ASSUME loops = "one", NEW q \in Req,
                       work'[q].pc = "update", work'[q].ok, work'[q].put # "ready",
                       order'[work'[q].order] = "pending"
       PROVE  OtherLeft(work[q].order, work[q].name)' /\ work'[q] = work[q]
    BY <1>2 DEF LookFresh, OtherLeft
  <2>1. work'[q] = work[q]
    BY <1>2, <1>5 DEF Goes, IInv, TypeOK
  <2>2. work[q].order \in Order
    BY <2>1 DEF IInv, WorkFit, Fit, ChallengeFit
  <2>3. OtherLeft(work[q].order, work[q].name)
    BY <2>1, <2>2, <1>11 DEF IInv, LookFresh
  <2> QED
    BY <2>1, <2>2, <2>3, <1>1, <1>3 DEF OtherLeft
<1> QED
  BY <1>2, <1>6, <1>7, <1>8, <1>9, <1>10, <1>12, <1>13, WriteInv

-----------------------------------------------------------------------------
(* The whole *)

\* Requests that only load the orders they close.
LEMMA ClosingInv ==
  ASSUME IInv, TypeOK', NEW r \in Req,
         \/ \E o \in Order : Expire(r, o)
         \/ \E o \in Order, n \in Name : GiveUp(r, o, n)
         \/ Leave(r)
  PROVE  IInv'
<1>1. Unwritten /\ LoopFree(r)
  BY DEF Expire, GiveUp, Leave, Accepted
<1>2. ASSUME NEW t, Goes(r, t), t.pc = "close", t.order = Keeper, t.purge = {}
      PROVE  IInv'
  BY <1>1, <1>2, NoOrderInv
<1>3. CASE \E o \in Order : Expire(r, o)
  <2>1. PICK o \in Order : Expire(r, o)
    BY <1>3
  <2>. DEFINE t == [Idle EXCEPT !.pc = "close", !.orders = {o}]
  <2>2. t.pc = "close" /\ t.order = Keeper /\ t.purge = {}
    BY DEF Idle
  <2>3. Goes(r, t)
    BY <2>1 DEF Expire
  <2>. HIDE DEF t
  <2> QED
    BY <2>2, <2>3, <1>2
<1>4. CASE \E o \in Order, n \in Name : GiveUp(r, o, n)
  <2>1. PICK o \in Order, n \in Name : GiveUp(r, o, n)
    BY <1>4
  <2>. DEFINE t == [Idle EXCEPT !.pc = "close", !.authzs = {<<o, n>>},
                !.orders = IF order[o] \in {"pending", "ready"} THEN {o} ELSE {}]
  <2>2. t.pc = "close" /\ t.order = Keeper /\ t.purge = {}
    BY DEF Idle
  <2>3. Goes(r, t)
    BY <2>1 DEF GiveUp
  <2>. HIDE DEF t
  <2> QED
    BY <2>2, <2>3, <1>2
<1>5. CASE Leave(r)
  <2>. DEFINE open == {o \in Order : order[o] \in Open}
              t == [Idle EXCEPT !.pc = "close", !.leave = TRUE, !.orders = open,
                      !.authzs = {x \in open \X Name :
                                    authz[x[1]][x[2]].status \in {"pending", "valid"}}]
  <2>1. t.pc = "close" /\ t.order = Keeper /\ t.purge = {}
    BY DEF Idle
  <2>2. Goes(r, t)
    BY <1>5 DEF Leave
  <2>. HIDE DEF t
  <2> QED
    BY <2>1, <2>2, <1>2
<1> QED
  BY <1>3, <1>4, <1>5

LEMMA KeepInv == ASSUME IInv, TypeOK', Keep PROVE IInv'
<1>. DEFINE t == Sweep({o \in Order : Overdue(o)})
<1>1. Goes(Keeper, t) /\ Unwritten
  BY DEF Keep
<1>2. t.pc = "close" /\ t.order = Keeper
  BY DEF Sweep, Idle
<1>3. \A o \in t.purge : order[o] # "none"
  BY DEF Sweep, Idle, Overdue, Open
<1>. HIDE DEF t
<1> QED
  BY <1>1, <1>2, <1>3, NoOrderInv

LEMMA FailInv == ASSUME IInv, TypeOK', NEW w \in Worker, Fail(w) PROVE IInv'
<1>1. Idle.pc = "idle" /\ Idle.order = Keeper /\ Idle.purge = {}
  BY DEF Idle
<1> QED
  BY <1>1, NoOrderInv DEF Fail

LEMMA SameInv ==
  ASSUME IInv, TypeOK', UNCHANGED <<loops, order, authz, issued, work>>
  PROVE  IInv'
<1>1. WorkFit' /\ KeeperFit' /\ PurgeMade' /\ Serial' /\ LookFresh'
  BY DEF IInv, WorkFit, Fit, CreateFit, ChallengeFit, PutFit, SignFit, KeeperFit,
     PurgeMade, Serial, Waiting, LookFresh, OtherLeft, OthersProven, Proven, Proof
<1>2. ValidProven' /\ IssuedMade' /\ IssuedProven' /\ ReadyWhenProven'
  BY DEF IInv, ValidProven, IssuedMade, IssuedProven, ReadyWhenProven, Proven, Proof
<1> QED
  BY <1>1, <1>2 DEF IInv

LEMMA NextInv == ASSUME IInv, [Next]_vars PROVE IInv'
<1>1. CASE UNCHANGED vars
  <2>1. TypeOK'
    BY <1>1 DEF vars, IInv, TypeOK
  <2> QED
    BY <2>1, <1>1, SameInv DEF vars
<1>2. CASE Next
  <2>. TypeOK'
    BY <1>2, TypeInv
  <2>1. ASSUME NEW r \in Req, Request(r) PROVE IInv'
    BY <2>1, ClosingInv, NewOrderInv, ChallengeInv, FinalizeInv DEF Request
  <2>2. ASSUME NEW r \in Req, GoesOn(r) PROVE IInv'
    BY <2>2, CreateOrderInv, ValidatedInv, LookInv, UpdateInv, SignedInv, CloseInv
       DEF GoesOn
  <2>3. CASE Keep
    BY <2>3, KeepInv
  <2>4. CASE Close(Keeper)
    BY <2>4, CloseInv
  <2>5. ASSUME NEW w \in Worker, Fail(w) PROVE IInv'
    BY <2>5, FailInv
  <2>6. ASSUME NEW o \in Order, Ages(o) PROVE IInv'
    BY <2>6, SameInv DEF Ages
  <2> QED
    BY <1>2, <2>1, <2>2, <2>3, <2>4, <2>5, <2>6 DEF Next
<1> QED
  BY <1>1, <1>2

LEMMA Invariance == Spec => []IInv
BY InitInv, NextInv, PTL DEF Spec

-----------------------------------------------------------------------------
(* The theorems *)

\* The tables of ACME and the work of each request keep their types.
THEOREM TypeCorrect == Spec => []TypeOK
<1>1. IInv => TypeOK
  BY DEF IInv
<1> QED
  BY <1>1, Invariance, PTL

\* For any number of names and overlapping requests an order is ready, being
\* issued or issued only with every name proven (the challenge handler and
\* finalize).
THEOREM IssuedProvenAlways == Spec => []IssuedProven
<1>1. IInv => IssuedProven
  BY DEF IInv
<1> QED
  BY <1>1, Invariance, PTL

\* For any number of overlapping challenges on one replica no order stays
\* pending with all its names valid (the challenge handler).
THEOREM ReadyWhenProvenAlways == Spec => []ReadyWhenProven
<1>1. IInv => ReadyWhenProven
  BY DEF IInv
<1> QED
  BY <1>1, Invariance, PTL

=============================================================================
