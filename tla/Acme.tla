-------------------------------- MODULE Acme --------------------------------
(***************************************************************************)
(* The orders of an ACME account (enrollment/acme.py).  A request is a     *)
(* transaction that loads rows, decides on the copies it loaded and writes *)
(* the columns it changed; its writes take effect at its commit.  Row      *)
(* locks only order the commits of transactions that write the same row,   *)
(* so they are left out.                                                   *)
(*                                                                         *)
(* The handlers are coroutines.  Those of one replica take turns, and give *)
(* way only where the challenge handler waits for the validation of a name *)
(* in another thread, between loading the order and writing it.  Handlers  *)
(* of different replicas interleave anywhere, and so does housekeeping.    *)
(*                                                                         *)
(* Nonces and accounts are taken as checked: a request here is one that    *)
(* _parse accepted, or would have but for the account's status.            *)
(***************************************************************************)
CONSTANTS
  Order,    \* the orders there can be
  Name,     \* the names of an order
  Req,      \* requests that are handled at the same time
  Keeper    \* housekeeping

ASSUME KeeperAssumption == Keeper \notin Req \cup Order \cup Name

\* new-order refuses an order without names.
ASSUME NameAssumption == Name # {}

Worker == Req \cup {Keeper}

VARIABLES
  loops,    \* "one" replica or "many"; does not change
  account,  \* the account's status
  order,    \* the status of each order
  authz,    \* the authorization of each name of each order
  age,      \* whether an order is past its expiry, or 30 days past it
  issued,   \* whether a certificate was issued for an order
  work      \* what each worker is doing

vars == <<loops, account, order, authz, age, issued, work>>

-----------------------------------------------------------------------------

Open == {"pending", "ready", "processing"}

OrderStatus == Open \cup {"none", "valid", "invalid", "purged"}

\* proof: what made it valid, and when (challenge_type and validated_at).
Authz == [status : {"pending", "valid", "invalid", "deactivated", "expired"},
          challenge : {"pending", "valid", "invalid"},
          proof : {"none", "scope", "challenge"}]

Pending == [status |-> "pending", challenge |-> "pending", proof |-> "none"]

\* Mutant: the authorization gets the status of the order.
InScope_Ready == [status |-> "ready", challenge |-> "valid", proof |-> "scope"]

\* CERTADILLO_ACME_CHALLENGE=ra-scope: no challenge for names in the app's scope.
InScope == [status |-> "valid", challenge |-> "valid", proof |-> "scope"]

Work ==
  [pc : {"idle", "validate", "look", "sign", "create", "update", "close"},
   order : Order \cup {Keeper},    \* the order at hand
   name : Name \cup {Keeper},      \* and the name
   seen : OrderStatus,             \* its status when it was loaded
   ok : BOOLEAN,                   \* the validation succeeded, or ra-scope
   put : {"none", "ready", "invalid"},  \* the status to write to it, if any
   orders : SUBSET Order,          \* the orders to close
   authzs : SUBSET (Order \X Name),     \* and the authorizations
   to : {"deactivated", "expired"},     \* what these become
   purge : SUBSET Order,           \* the orders to delete
   leave : BOOLEAN]                \* the account is deactivated

Idle == [pc |-> "idle", order |-> Keeper, name |-> Keeper, seen |-> "none",
         ok |-> FALSE, put |-> "none", orders |-> {}, authzs |-> {},
         to |-> "deactivated", purge |-> {}, leave |-> FALSE]

Goes(w, t) == work' = [work EXCEPT ![w] = t]

Unwritten == UNCHANGED <<loops, account, order, authz, age, issued>>

\* Mutant: the handlers run in a pool of threads.
LoopFree_Threads(r) == r \in Req

\* The event loop of a single replica runs one handler between two awaits.
LoopFree(r) ==
  loops = "one" => \A q \in Req \ {r} : work[q].pc \in {"idle", "validate"}

\* A request that _parse accepts is loaded.
Accepted(r) == work[r].pc = "idle" /\ LoopFree(r) /\ account = "valid"

Exists(o) == order[o] \notin {"none", "purged"}

\* _own_order(live=True) finds the order past its expiry.
Overdue(o) == order[o] \in Open /\ age[o] # "live"

-----------------------------------------------------------------------------
(* new-order *)

NewOrder(r, o, scope) ==
  /\ Accepted(r)
  /\ order[o] = "none" /\ \A q \in Req : work[q].order # o
  /\ Goes(r, [Idle EXCEPT !.pc = "create", !.order = o, !.ok = scope])
  /\ Unwritten

CreateOrder(r) ==
  LET o == work[r].order
  IN  /\ work[r].pc = "create"
      /\ order' = [order EXCEPT ![o] = IF work[r].ok THEN "ready" ELSE "pending"]
      /\ authz' = [authz EXCEPT ![o] =
                     [n \in Name |-> IF work[r].ok THEN InScope ELSE Pending]]
      /\ Goes(r, Idle)
      /\ UNCHANGED <<loops, account, age, issued>>

-----------------------------------------------------------------------------
(* The challenge handler *)

Challenge(r, o, n) ==
  /\ Accepted(r)
  /\ Exists(o) /\ ~Overdue(o)
  /\ authz[o][n].status = "pending" /\ authz[o][n].challenge = "pending"
  /\ Goes(r, [Idle EXCEPT !.pc = "validate", !.order = o, !.name = n,
                !.seen = order[o]])
  /\ Unwritten

\* The name was looked up; the handler goes on.
Validated(r, ok) ==
  /\ work[r].pc = "validate"
  /\ LoopFree(r)
  /\ Goes(r, [work[r] EXCEPT !.pc = "look", !.ok = ok])
  /\ Unwritten

\* Mutant: one valid name is enough.
Look_AnyName(r) ==
  LET t == work[r]
      ready == t.ok /\ t.seen = "pending"
  IN  /\ t.pc = "look"
      /\ Goes(r, [t EXCEPT !.pc = "update",
           !.put = IF ready THEN "ready"
                   ELSE IF ~t.ok /\ t.seen # "invalid" THEN "invalid" ELSE "none"])
      /\ Unwritten

\* The other names are queried.  The order it loaded becomes ready if it was
\* pending and all are valid, and invalid if this one is not.
Look(r) ==
  LET t == work[r]
      ready == /\ t.ok /\ t.seen = "pending"
               /\ \A n \in Name \ {t.name} : authz[t.order][n].status = "valid"
  IN  /\ t.pc = "look"
      /\ Goes(r, [t EXCEPT !.pc = "update",
           !.put = IF ready THEN "ready"
                   ELSE IF ~t.ok /\ t.seen # "invalid" THEN "invalid" ELSE "none"])
      /\ Unwritten

Update(r) ==
  LET t == work[r]
      v == IF t.ok THEN "valid" ELSE "invalid"
  IN  /\ t.pc = "update"
      /\ Exists(t.order)
      /\ authz' = [authz EXCEPT ![t.order][t.name] =
           [status |-> v, challenge |-> v,
            proof |-> IF t.ok THEN "challenge" ELSE @.proof]]
      /\ order' = IF t.put = "none" THEN order
                  ELSE [order EXCEPT ![t.order] = t.put]
      /\ Goes(r, Idle)
      /\ UNCHANGED <<loops, account, age, issued>>

-----------------------------------------------------------------------------
(* finalize *)

Finalize(r, o) ==
  /\ Accepted(r)
  /\ order[o] = "ready" /\ ~Overdue(o)
  /\ Goes(r, [Idle EXCEPT !.pc = "sign", !.order = o, !.seen = "ready"])
  /\ Unwritten

Issue(r) ==
  LET o == work[r].order
  IN  /\ work[r].pc = "sign"
      /\ Exists(o)
      /\ order' = [order EXCEPT ![o] = "valid"]
      /\ issued' = [issued EXCEPT ![o] = TRUE]
      /\ Goes(r, Idle)
      /\ UNCHANGED <<loops, account, authz, age>>

\* The policy refuses the request.  The refusal is committed, and with it the
\* order as it is then; the handler closes it afterwards.
Refuse(r) ==
  LET o == work[r].order
  IN  /\ work[r].pc = "sign"
      /\ Exists(o)
      /\ order' = [order EXCEPT ![o] = "processing"]
      /\ Goes(r, [Idle EXCEPT !.pc = "close", !.orders = {o}])
      /\ UNCHANGED <<loops, account, authz, age, issued>>

-----------------------------------------------------------------------------
(* What closes orders *)

\* _own_order: an order past its expiry is closed by the request that finds it.
Expire(r, o) ==
  /\ Accepted(r)
  /\ Overdue(o)
  /\ Goes(r, [Idle EXCEPT !.pc = "close", !.orders = {o}])
  /\ Unwritten

\* A client gives up an authorization.
GiveUp(r, o, n) ==
  /\ Accepted(r)
  /\ Exists(o)
  /\ authz[o][n].status \in {"pending", "valid"}
  /\ Goes(r, [Idle EXCEPT !.pc = "close", !.authzs = {<<o, n>>},
                !.orders = IF order[o] \in {"pending", "ready"} THEN {o} ELSE {}])
  /\ Unwritten

\* deactivate_account: it closes the open orders it finds.
Leave(r) ==
  LET open == {o \in Order : order[o] \in Open}
  IN  /\ Accepted(r)
      /\ Goes(r, [Idle EXCEPT !.pc = "close", !.leave = TRUE, !.orders = open,
           !.authzs = {x \in open \X Name :
                         authz[x[1]][x[2]].status \in {"pending", "valid"}}])
      /\ Unwritten

\* Orders that are late are closed; old ones are deleted, those included that
\* were only just closed.
Sweep(late) ==
  [Idle EXCEPT !.pc = "close", !.orders = late, !.to = "expired",
     !.authzs = {x \in late \X Name : authz[x[1]][x[2]].status = "pending"},
     !.purge = {o \in Order : age[o] = "old" /\ (order[o] = "invalid" \/ o \in late)}]

\* Mutant: an order a refusal left behind is not looked for.
Keep_NotProcessing ==
  /\ work[Keeper].pc = "idle"
  /\ Goes(Keeper, Sweep({o \in Order : order[o] # "processing" /\ Overdue(o)}))
  /\ Unwritten

\* housekeeping, in a thread of its own.
Keep ==
  /\ work[Keeper].pc = "idle"
  /\ Goes(Keeper, Sweep({o \in Order : Overdue(o)}))
  /\ Unwritten

Close(w) ==
  LET t == work[w]
      gone == t.purge
  IN  /\ t.pc = "close"
      /\ \A o \in t.orders \cup {x[1] : x \in t.authzs} : Exists(o)
      /\ order' = [o \in Order |-> IF o \in gone THEN "purged"
                                   ELSE IF o \in t.orders THEN "invalid"
                                   ELSE order[o]]
      /\ authz' = [o \in Order |-> [n \in Name |->
                     IF <<o, n>> \in t.authzs
                     THEN [authz[o][n] EXCEPT !.status = t.to] ELSE authz[o][n]]]
      /\ account' = IF t.leave THEN "deactivated" ELSE account
      /\ Goes(w, Idle)
      /\ UNCHANGED <<loops, age, issued>>

\* A handler fails or its process dies.
Fail(w) ==
  /\ work[w].pc # "idle"
  /\ Goes(w, Idle)
  /\ Unwritten

\* Time passes.  No handler runs for 30 days.
Ages(o) ==
  /\ order[o] # "none"
  /\ \/ age[o] = "live" /\ age' = [age EXCEPT ![o] = "expired"]
     \/ /\ age[o] = "expired" /\ \A w \in Worker : work[w].pc = "idle"
        /\ age' = [age EXCEPT ![o] = "old"]
  /\ UNCHANGED <<loops, account, order, authz, issued, work>>

-----------------------------------------------------------------------------

Init ==
  /\ loops \in {"one", "many"}
  /\ account = "valid"
  /\ order = [o \in Order |-> "none"]
  /\ authz = [o \in Order |-> [n \in Name |-> Pending]]
  /\ age = [o \in Order |-> "live"]
  /\ issued = [o \in Order |-> FALSE]
  /\ work = [w \in Worker |-> Idle]

Request(r) ==
  \/ \E o \in Order, scope \in BOOLEAN : NewOrder(r, o, scope)
  \/ \E o \in Order, n \in Name : Challenge(r, o, n) \/ GiveUp(r, o, n)
  \/ \E o \in Order : Finalize(r, o) \/ Expire(r, o)
  \/ Leave(r)

GoesOn(r) ==
  \/ CreateOrder(r)
  \/ \E ok \in BOOLEAN : Validated(r, ok)
  \/ Look(r)
  \/ Update(r)
  \/ Issue(r)
  \/ Refuse(r)
  \/ Close(r)

Next ==
  \/ \E r \in Req : Request(r) \/ GoesOn(r)
  \/ Keep
  \/ Close(Keeper)
  \/ \E w \in Worker : Fail(w)
  \/ \E o \in Order : Ages(o)

Spec == Init /\ [][Next]_vars

\* The background loop runs housekeeping again and again, and does not fail
\* for ever; the clock goes on.
FairSpec ==
  /\ Spec
  /\ WF_vars(Keep)
  /\ SF_vars(Close(Keeper))
  /\ \A o \in Order : WF_vars(Ages(o))

-----------------------------------------------------------------------------
(* Properties *)

TypeOK ==
  /\ loops \in {"one", "many"}
  /\ account \in {"valid", "deactivated"}
  /\ order \in [Order -> OrderStatus]
  /\ authz \in [Order -> [Name -> Authz]]
  /\ age \in [Order -> {"live", "expired", "old"}]
  /\ issued \in [Order -> BOOLEAN]
  /\ work \in [Worker -> Work]

Proven(o) == \A n \in Name : authz[o][n].proof # "none"

\* An order is ready to be issued, or has been, only if every one of its names
\* was validated or is in the app's scope, whatever challenges of its names
\* overlap, fail or are repeated and whoever closes it meanwhile.
IssuedProven ==
  \A o \in Order : order[o] \in {"ready", "processing", "valid"} \/ issued[o]
                     => Proven(o)

\* With one replica an order does not stay behind when its last name has been
\* validated: handlers that overlap in their waits see each other's result.
ReadyWhenProven ==
  loops = "one" =>
    \A o \in Order : order[o] = "pending" =>
      \E n \in Name : authz[o][n].status # "valid"

\* Every order ends: in the end it is closed for good, also when a late
\* challenge opened it again or a refusal left it half way.
OrdersEnd == \A o \in Order : <>[](order[o] \notin Open)

\* An authorization a client gave up ("a client gives up an authorization it no
\* longer wants", acme.py:399), or lost with its account, is not valid again.
GivenUpForGood ==
  [][\A o \in Order, n \in Name :
       authz[o][n].status = "deactivated" => authz'[o][n].status # "valid"]_vars

=============================================================================
