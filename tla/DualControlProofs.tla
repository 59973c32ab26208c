------------------------- MODULE DualControlProofs -------------------------
(***************************************************************************)
(* What DualControl guarantees for any number of people, requests and      *)
(* overlapping decisions, although a decision acts on what it loaded.      *)
(***************************************************************************)
EXTENDS DualControl, TLAPS

USE RoleAssumption

-----------------------------------------------------------------------------
(* The inductive invariant *)

Asked(a) == req[a].status # "none"

\* me may decide a; nothing that this rests on ever changes again.
SecondPerson(me, a) ==
  /\ me \in Approver
  /\ me # req[a].by
  /\ principal[me].by \notin {"none", req[a].by}

\* What a call has loaded stays good for its decision.
LoadedFit ==
  \A s \in Session : session[s].pc = "loaded" =>
    /\ session[s].approval \in Approval
    /\ Asked(session[s].approval)
    /\ SecondPerson(session[s].me, session[s].approval)

\* What was carried out: by a call that ended, under a request that was made,
\* with the mark that keeps it from being carried out again.
EffectsFit ==
  \A e \in effects :
    /\ session[e.session].pc = "done"
    /\ Asked(e.approval)
    /\ SecondPerson(e.by, e.approval)
    /\ req[e.approval].action = "code_sign" => req[e.approval].signing = "signed"
    /\ req[e.approval].action = "create_ca" => req[e.approval].on \in cas

\* Each onboarding has an app of its own.
OwnApp ==
  /\ \A a \in Approval :
       /\ req[a].action # "none" <=> Asked(a)
       /\ req[a].action = "onboard" =>
            req[a].on \in App /\ app[req[a].on] # "none"
       /\ req[a].action = "create_ca" => req[a].on \in Name
  /\ \A a, b \in Approval :
       req[a].action = "onboard" /\ req[b].action = "onboard"
         /\ req[a].on = req[b].on => a = b

\* Who is not in the table cannot log in.
ActiveMade ==
  \A x \in Person : principal[x].active => principal[x].by # "none"

IInv ==
  /\ TypeOK
  /\ ActiveMade
  /\ LoadedFit
  /\ EffectsFit
  /\ OwnApp
  /\ OnboardingAgrees
  /\ ExecutedOnce

LEMMA InitInv == Init => IInv
<1>. SUFFICES ASSUME Init PROVE IInv
  OBVIOUS
<1>1. TypeOK
  BY DEF Init, TypeOK, Person, Principal, Request, Call, Effect, Blank, NoRequest
<1>2. ActiveMade
  BY DEF Init, ActiveMade
<1>3. LoadedFit /\ EffectsFit /\ ExecutedOnce
  BY DEF Init, LoadedFit, EffectsFit, ExecutedOnce, Blank
<1>4. OwnApp /\ OnboardingAgrees
  BY DEF Init, OwnApp, OnboardingAgrees, NoRequest, Asked
<1> QED
  BY <1>1, <1>2, <1>3, <1>4 DEF IInv

-----------------------------------------------------------------------------
(* Principals: a creator is never changed *)

LEMMA PrincipalInv ==
  ASSUME IInv, NEW p \in Person, NEW x \in Person,
         CreatePrincipal(p, x) \/ DeactivatePrincipal(p, x)
  PROVE  IInv'
<1>1. /\ UNCHANGED <<app, cas, req, session, effects>>
      /\ principal' \in [Person -> Principal]
  <2>1. CASE CreatePrincipal(p, x)
    BY <2>1 DEF CreatePrincipal, IInv, TypeOK, Principal
  <2>2. CASE DeactivatePrincipal(p, x)
    BY <2>2, ZenonT(60) DEF DeactivatePrincipal, IInv, TypeOK, Principal
  <2> QED
    BY <2>1, <2>2
<1>2. ASSUME NEW me \in Person, principal[me].by # "none"
      PROVE  principal'[me].by = principal[me].by
  BY <1>2 DEF CreatePrincipal, DeactivatePrincipal, Exists, IInv, TypeOK, Principal
<1>3. ASSUME NEW me, NEW a \in Approval, SecondPerson(me, a)
      PROVE  SecondPerson(me, a)'
  BY <1>1, <1>2, <1>3 DEF SecondPerson, Person
<1>4. TypeOK' /\ OwnApp' /\ OnboardingAgrees' /\ ExecutedOnce'
  BY <1>1 DEF IInv, TypeOK, OwnApp, OnboardingAgrees, ExecutedOnce, Asked
<1>5. LoadedFit'
  BY <1>1, <1>3 DEF IInv, LoadedFit, Asked
<1>6. EffectsFit'
  BY <1>1, <1>3 DEF IInv, EffectsFit, Asked, TypeOK, Effect
<1>7. ActiveMade'
  <2>1. CASE CreatePrincipal(p, x)
    BY <2>1 DEF CreatePrincipal, IInv, TypeOK, ActiveMade
  <2>2. CASE DeactivatePrincipal(p, x)
    BY <2>2 DEF DeactivatePrincipal, IInv, TypeOK, Principal, ActiveMade
  <2> QED
    BY <2>1, <2>2
<1> QED
  BY <1>4, <1>5, <1>6, <1>7 DEF IInv

-----------------------------------------------------------------------------
(* Asking: a request is new, and so is the app of an onboarding *)

LEMMA AskInv ==
  ASSUME IInv, NEW p \in Person, NEW a \in Approval, NEW x \in App \cup Name,
         NEW action \in Action,
         \/ x \in App /\ (OnboardApp(p, a, x) \/ AskForApp(p, a, action, x))
         \/ x \in Name /\ AskForCa(p, a, x)
  PROVE  IInv'
<1>1. /\ UNCHANGED <<principal, cas, session, effects>>
      /\ ~Asked(a)
      /\ \A b \in Approval \ {a} : req'[b] = req[b]
      /\ \A y \in App : app'[y] # app[y] =>
           y = x /\ app[x] = "none" /\ x \in App /\ OnboardApp(p, a, x)
      /\ req'[a].status = "pending" /\ req'[a].action \in Action
      /\ req'[a].action = "onboard" => x \in App /\ OnboardApp(p, a, x)
      /\ x \in App /\ OnboardApp(p, a, x) =>
           /\ req'[a].on = x /\ req'[a].action = "onboard"
           /\ app'[x] = "pending_approval" /\ app[x] = "none"
      /\ req'[a].action = "create_ca" => req'[a].on \in Name
  BY DEF OnboardApp, AskForApp, AskForCa, Ask, Asked, IInv, TypeOK, Action
<1>2. TypeOK'
  BY DEF OnboardApp, AskForApp, AskForCa, Ask, IInv, TypeOK, Action, Request
<1>3. LoadedFit' /\ EffectsFit' /\ ExecutedOnce' /\ ActiveMade'
  BY <1>1 DEF IInv, ActiveMade, LoadedFit, EffectsFit, ExecutedOnce, Asked, SecondPerson,
     TypeOK, Effect
<1>4. OwnApp' /\ OnboardingAgrees'
  BY <1>1 DEF IInv, OwnApp, OnboardingAgrees, Asked, Action
<1> QED
  BY <1>2, <1>3, <1>4 DEF IInv

LEMMA OnboardDevInv ==
  ASSUME IInv, NEW p \in Person, NEW x \in App, OnboardDevApp(p, x)
  PROVE  IInv'
BY DEF OnboardDevApp, IInv, ActiveMade, TypeOK, LoadedFit, EffectsFit, OwnApp,
       OnboardingAgrees, ExecutedOnce, Asked, SecondPerson

-----------------------------------------------------------------------------
(* Deciding *)

LEMMA ReadInv ==
  ASSUME IInv, NEW s \in Session, NEW me \in Person, NEW a \in Approval,
         NEW approve \in BOOLEAN, DecideRead(s, me, a, approve)
  PROVE  IInv'
<1>1. /\ UNCHANGED <<principal, app, cas, req, effects>>
      /\ session[s].pc = "idle"
      /\ session'[s].pc = "loaded" /\ session'[s].me = me
      /\ session'[s].approval = a
      /\ \A t \in Session \ {s} : session'[t] = session[t]
  BY DEF DecideRead, IInv, TypeOK
<1>2. Asked(a) /\ SecondPerson(me, a)
  <2>1. req[a].status = "pending" /\ me \in Approver /\ principal[me].active
    BY DEF DecideRead, MayDecide, Active
  <2>2. req[a].by # me /\ principal[me].by # req[a].by
    BY DEF DecideRead, MayDecide
  <2>3. principal[me].by # "none"
    BY <2>1 DEF IInv, ActiveMade
  <2> QED
    BY <2>1, <2>2, <2>3 DEF Asked, SecondPerson
<1>3. TypeOK'
  BY DEF DecideRead, IInv, TypeOK, Call
<1>4. LoadedFit'
  BY <1>1, <1>2 DEF IInv, LoadedFit, Asked, SecondPerson
<1>5. EffectsFit'
  BY <1>1 DEF IInv, EffectsFit, Asked, SecondPerson, TypeOK, Effect
<1>6. OwnApp' /\ OnboardingAgrees' /\ ExecutedOnce' /\ ActiveMade'
  BY <1>1 DEF IInv, OwnApp, OnboardingAgrees, ExecutedOnce, ActiveMade, Asked
<1> QED
  BY <1>3, <1>4, <1>5, <1>6 DEF IInv

LEMMA RejectInv ==
  ASSUME IInv, NEW s \in Session, DecideWrite(s), Reject(s)
  PROVE  IInv'
<1>. DEFINE a == session[s].approval
<1>1. /\ session[s].pc = "loaded" /\ a \in Approval /\ Asked(a)
      /\ UNCHANGED <<principal, cas, effects>>
      /\ session'[s].pc = "done"
      /\ \A t \in Session \ {s} : session'[t] = session[t]
  BY DEF DecideWrite, Reject, IInv, TypeOK, LoadedFit
<1>2. /\ \A b \in Approval \ {a} : req'[b] = req[b]
      /\ req'[a].status = "rejected" /\ req'[a].action = req[a].action
      /\ req'[a].by = req[a].by /\ req'[a].on = req[a].on
      /\ req'[a].signing = IF req[a].signing = "pending" THEN "rejected"
                           ELSE req[a].signing
  BY <1>1 DEF Reject, IInv, TypeOK, Request
<1>3. IF req[a].action = "onboard"
      THEN /\ app'[req[a].on] = "rejected"
           /\ \A x \in App : x # req[a].on => app'[x] = app[x]
      ELSE app' = app
  BY <1>1 DEF Reject, IInv, TypeOK, OwnApp
<1>4. TypeOK'
  <2>1. req[a] \in Request
    BY <1>1 DEF IInv, TypeOK
  <2>2. [[req[a] EXCEPT !.status = "rejected"] EXCEPT
           !.signing = IF @ = "pending" THEN "rejected" ELSE @] \in Request
    BY <2>1 DEF Request
  <2>3. req' \in [Approval -> Request]
    BY <1>1, <2>2, ZenonT(60) DEF Reject, IInv, TypeOK
  <2>4. session' \in [Session -> Call]
    BY DEF DecideWrite, IInv, TypeOK, Call
  <2>5. app' \in [App -> {"none", "pending_approval", "active", "rejected"}]
    BY DEF Reject, IInv, TypeOK
  <2> QED
    BY <1>1, <2>3, <2>4, <2>5 DEF IInv, TypeOK
<1>5. LoadedFit' /\ EffectsFit'
  BY <1>1, <1>2 DEF IInv, TypeOK, Effect, LoadedFit, EffectsFit, Asked,
     SecondPerson
<1>6. OwnApp' /\ OnboardingAgrees'
  BY <1>1, <1>2, <1>3 DEF IInv, OwnApp, OnboardingAgrees, Asked
<1>7. ExecutedOnce' /\ ActiveMade'
  BY <1>1, <1>2 DEF IInv, TypeOK, Effect, ExecutedOnce, ActiveMade
<1> QED
  BY <1>4, <1>5, <1>6, <1>7 DEF IInv

\* Carried out or, for a logon certificate, approved and refused.
LEMMA ApproveInv ==
  ASSUME IInv, NEW s \in Session, DecideWrite(s), Execute(s) \/ ExecuteRefused(s)
  PROVE  IInv'
<1>. DEFINE a == session[s].approval
            e == [session |-> s, approval |-> a, by |-> session[s].me]
<1>1. /\ session[s].pc = "loaded" /\ a \in Approval /\ Asked(a)
      /\ SecondPerson(session[s].me, a)
      /\ UNCHANGED principal
      /\ session'[s].pc = "done"
      /\ \A t \in Session \ {s} : session'[t] = session[t]
  BY DEF DecideWrite, IInv, TypeOK, LoadedFit
<1>2. /\ \A b \in Approval \ {a} : req'[b] = req[b]
      /\ req'[a].status = "approved" /\ req'[a].action = req[a].action
      /\ req'[a].by = req[a].by /\ req'[a].on = req[a].on
      /\ req[a].action = "code_sign" =>
           req[a].signing = "pending" /\ req'[a].signing = "signed"
  BY <1>1 DEF Execute, ExecuteRefused, Executable, IInv, TypeOK, Request
<1>3. IF req[a].action = "onboard"
      THEN /\ app'[req[a].on] = "active"
           /\ \A x \in App : x # req[a].on => app'[x] = app[x]
      ELSE app' = app
  BY <1>1 DEF Execute, ExecuteRefused, IInv, TypeOK, OwnApp
<1>4. /\ effects' \subseteq effects \cup {e}
      /\ cas \subseteq cas'
      /\ e \in effects' /\ req[a].action = "create_ca" =>
           e \in effects \/ (req[a].on \notin cas /\ req[a].on \in cas')
  BY DEF Execute, ExecuteRefused, Executable
<1>5. e \notin effects
  BY <1>1 DEF IInv, EffectsFit
<1>6. TypeOK'
  <2>1. req[a] \in Request
    BY <1>1 DEF IInv, TypeOK
  <2>2. /\ [req[a] EXCEPT !.status = "approved"] \in Request
        /\ [[req[a] EXCEPT !.status = "approved"] EXCEPT
             !.signing = IF req[a].action = "code_sign" THEN "signed" ELSE @]
             \in Request
    BY <2>1 DEF Request
  <2>3. req' \in [Approval -> Request]
    <3>1. CASE Execute(s)
      BY <1>1, <2>2, <3>1 DEF Execute, IInv, TypeOK
    <3>2. CASE ExecuteRefused(s)
      BY <1>1, <2>2, <3>2 DEF ExecuteRefused, IInv, TypeOK
    <3> QED
      BY <3>1, <3>2
  <2>4. session' \in [Session -> Call]
    BY DEF DecideWrite, IInv, TypeOK, Call
  <2>5. app' \in [App -> {"none", "pending_approval", "active", "rejected"}]
    BY DEF Execute, ExecuteRefused, IInv, TypeOK
  <2>6. cas' \subseteq Name
    BY <1>1 DEF Execute, ExecuteRefused, IInv, TypeOK, OwnApp
  <2>7. effects' \subseteq Effect
    BY <1>1, <1>4 DEF IInv, TypeOK, Effect, SecondPerson, Person
  <2> QED
    BY <1>1, <2>3, <2>4, <2>5, <2>6, <2>7 DEF IInv, TypeOK
<1>7. LoadedFit' /\ ActiveMade'
  BY <1>1, <1>2, SMTT(60) DEF IInv, LoadedFit, ActiveMade, Asked, SecondPerson
<1>8. EffectsFit'
  BY <1>1, <1>2, <1>4, <1>5 DEF IInv, TypeOK, Effect, EffectsFit, Asked,
     SecondPerson
<1>9. OwnApp' /\ OnboardingAgrees'
  BY <1>1, <1>2, <1>3 DEF IInv, OwnApp, OnboardingAgrees, Asked
<1>10. ExecutedOnce'
  BY <1>1, <1>2, <1>4, <1>5 DEF IInv, TypeOK, Effect, EffectsFit, ExecutedOnce
<1> QED
  BY <1>6, <1>7, <1>8, <1>9, <1>10 DEF IInv

LEMMA FailInv ==
  ASSUME IInv, NEW s \in Session, Fail(s)
  PROVE  IInv'
BY DEF Fail, IInv, ActiveMade, TypeOK, Call, Effect, LoadedFit, EffectsFit,
       OwnApp, OnboardingAgrees, ExecutedOnce, Asked, SecondPerson

LEMMA NextInv == IInv /\ [Next]_vars => IInv'
<1>. SUFFICES ASSUME IInv, [Next]_vars PROVE IInv'
  OBVIOUS
<1>1. ASSUME NEW p \in Person, NEW x \in Person,
             CreatePrincipal(p, x) \/ DeactivatePrincipal(p, x)
      PROVE  IInv'
  BY <1>1, PrincipalInv
<1>2. ASSUME NEW p \in Person, NEW x \in App, OnboardDevApp(p, x) PROVE IInv'
  BY <1>2, OnboardDevInv
<1>3. ASSUME NEW p \in Person, NEW a \in Approval, NEW x \in App,
             NEW action \in Action,
             OnboardApp(p, a, x) \/ AskForApp(p, a, action, x)
      PROVE  IInv'
  BY <1>3, AskInv
<1>4. ASSUME NEW p \in Person, NEW a \in Approval, NEW n \in Name,
             AskForCa(p, a, n)
      PROVE  IInv'
  BY <1>4, AskInv DEF Action
<1>5. ASSUME NEW s \in Session, NEW me \in Person, NEW a \in Approval,
             NEW approve \in BOOLEAN, DecideRead(s, me, a, approve)
      PROVE  IInv'
  BY <1>5, ReadInv
<1>6. ASSUME NEW s \in Session, DecideWrite(s) PROVE IInv'
  BY <1>6, ApproveInv, RejectInv DEF DecideWrite
<1>7. ASSUME NEW s \in Session, Fail(s) PROVE IInv'
  BY <1>7, FailInv
<1>8. CASE UNCHANGED vars
  BY <1>8 DEF vars, IInv, ActiveMade, TypeOK, LoadedFit, EffectsFit, OwnApp,
     OnboardingAgrees, ExecutedOnce, Asked, SecondPerson
<1> QED
  BY <1>1, <1>2, <1>3, <1>4, <1>5, <1>6, <1>7, <1>8 DEF Next, Action

LEMMA Invariant == Spec => []IInv
BY InitInv, NextInv, PTL DEF Spec

-----------------------------------------------------------------------------
(* The theorems *)

\* The tables keep their types under any overlap of decisions.
THEOREM TypeCorrect == Spec => []TypeOK
<1>1. IInv => TypeOK
  BY DEF IInv
<1> QED
  BY <1>1, Invariant, PTL

\* No approved action was ever decided by its requester, or by a credential
\* its requester issued.
THEOREM MakerCheckerAlways == Spec => []MakerChecker
<1>1. IInv => MakerChecker
  BY DEF IInv, EffectsFit, SecondPerson, MakerChecker
<1> QED
  BY <1>1, Invariant, PTL

\* The app follows the decision that stands, whichever of two came last.
THEOREM OnboardingAgreesAlways == Spec => []OnboardingAgrees
<1>1. IInv => OnboardingAgrees
  BY DEF IInv
<1> QED
  BY <1>1, Invariant, PTL

\* Two decisions of one request cannot both sign, nor both create a CA.
THEOREM ExecutedOnceAlways == Spec => []ExecutedOnce
<1>1. IInv => ExecutedOnce
  BY DEF IInv
<1> QED
  BY <1>1, Invariant, PTL

=============================================================================
