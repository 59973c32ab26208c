---------------------------- MODULE DualControl ----------------------------
(***************************************************************************)
(* Dual control (services.py, Platform.decide): a maker asks, an approver  *)
(* decides, and an approval carries the action out in the same             *)
(* transaction.                                                            *)
(*                                                                         *)
(* decide loads the approval, the approver, the requester and, for an      *)
(* approval, the app, and checks them without a lock: DecideRead.  Its     *)
(* first record takes the audit lock, so all it writes up to the commit is *)
(* one step for the others, who also record: DecideWrite.  A column it     *)
(* loaded is not read again, so a second approver may act on an approval   *)
(* that is not pending any more.  What _execute loads first (the signing   *)
(* request, the CA name) it reads as it is then.                           *)
(*                                                                         *)
(* Four of the actions stand for all: an onboarding sets an app's status,  *)
(* an issuance adds something each time it runs (as does a trust anchor),  *)
(* a signature is guarded by the signing request's status, a CA by the     *)
(* uniqueness of its name (as is a signing key).                           *)
(***************************************************************************)
CONSTANTS
  Maker,      \* admins and operators, who may ask
  Approver,   \* principals with the approver role
  Founder,    \* the principals the system created
  System,     \* their creator; also fills what is empty
  Approval,   \* the approval requests there can be
  App,        \* the apps there can be
  Name,       \* names a CA can be given
  Session     \* calls of approve or reject

Person == Maker \cup Approver

ASSUME RoleAssumption ==
  /\ Maker \cap Approver = {}
  /\ Founder \subseteq Person
  /\ System \notin Person \cup Approval
  /\ "none" \notin Person \cup {System}
  /\ App \cap Name = {}

VARIABLES
  principal,  \* the principals table
  app,        \* the status of each app
  cas,        \* the names of the CAs created
  req,        \* the approvals table, with the signing request of a code_sign
  session,    \* what each call of decide has loaded
  effects     \* what was carried out: by which call, for which approval

vars == <<principal, app, cas, req, session, effects>>

-----------------------------------------------------------------------------

\* by: who created it; the row that is not there yet has no creator.
Principal == [active : BOOLEAN, by : Person \cup {System, "none"}]

Action == {"onboard", "issue", "code_sign", "create_ca"}

\* on: the app or the CA name an approval is about.
Request == [action : Action \cup {"none"}, by : Person \cup {System},
            status : {"none", "pending", "approved", "rejected"},
            on : App \cup Name \cup {System},
            signing : {"none", "pending", "signed", "rejected"}]

Call == [pc : {"idle", "loaded", "done"}, me : Person \cup {System},
         approval : Approval \cup {System}, approve : BOOLEAN]

Effect == [session : Session, approval : Approval, by : Person]

Exists(x) == principal[x].by # "none"

Active(x) == principal[x].active

-----------------------------------------------------------------------------
(* Principals *)

\* create_principal; names are unique, so a name is never used again.
CreatePrincipal(admin, x) ==
  /\ Active(admin) /\ admin \in Maker
  /\ ~Exists(x)
  /\ principal' = [principal EXCEPT ![x] = [active |-> TRUE, by |-> admin]]
  /\ UNCHANGED <<app, cas, req, session, effects>>

DeactivatePrincipal(admin, x) ==
  /\ Active(admin) /\ admin \in Maker
  /\ Exists(x)
  /\ principal' = [principal EXCEPT ![x].active = FALSE]
  /\ UNCHANGED <<app, cas, req, session, effects>>

-----------------------------------------------------------------------------
(* Asking *)

\* _request_approval
Ask(p, a, action, x) ==
  /\ Active(p) /\ p \in Maker
  /\ req[a].status = "none"
  /\ req' = [req EXCEPT ![a] =
       [action |-> action, status |-> "pending", by |-> p, on |-> x,
        signing |-> IF action = "code_sign" THEN "pending" ELSE "none"]]

\* Mutant: the app waits in a status that decide does not know.
OnboardApp_OtherStatus(p, a, x) ==
  /\ app[x] = "none"
  /\ Ask(p, a, "onboard", x)
  /\ app' = [app EXCEPT ![x] = "pending"]
  /\ UNCHANGED <<principal, cas, session, effects>>

\* onboard_app outside the dev zones
OnboardApp(p, a, x) ==
  /\ app[x] = "none"
  /\ Ask(p, a, "onboard", x)
  /\ app' = [app EXCEPT ![x] = "pending_approval"]
  /\ UNCHANGED <<principal, cas, session, effects>>

\* onboard_app with a scope inside the dev zones
OnboardDevApp(p, x) ==
  /\ Active(p) /\ p \in Maker
  /\ app[x] = "none"
  /\ app' = [app EXCEPT ![x] = "active"]
  /\ UNCHANGED <<principal, cas, req, session, effects>>

\* request_certificate for a profile that needs approval, request_signature
\* with a release key
AskForApp(p, a, action, x) ==
  /\ action \in {"issue", "code_sign"}
  /\ app[x] = "active"
  /\ Ask(p, a, action, x)
  /\ UNCHANGED <<principal, app, cas, session, effects>>

AskForCa(p, a, n) ==
  /\ Ask(p, a, "create_ca", n)
  /\ UNCHANGED <<principal, app, cas, session, effects>>

-----------------------------------------------------------------------------
(* Deciding *)

\* Mutant: the creator of the approver's credential is not looked at.
MayDecide_AnyCreator(me, a) ==
  /\ Active(me) /\ me \in Approver
  /\ req[a].status = "pending"
  /\ req[a].by # me

\* The checks of decide before it branches.
MayDecide(me, a) ==
  /\ Active(me) /\ me \in Approver
  /\ req[a].status = "pending"
  /\ req[a].by # me
  /\ principal[me].by # req[a].by

\* _still_valid; code_sign and create_ca have no app to look at.
StillValid(a) ==
  /\ req[a].action = "onboard" => app[req[a].on] = "pending_approval"
  /\ req[a].action = "issue" => app[req[a].on] = "active"
  /\ principal[req[a].by].active

DecideRead(s, me, a, approve) ==
  /\ session[s].pc = "idle"
  /\ MayDecide(me, a)
  /\ approve => StillValid(a)
  /\ session' = [session EXCEPT ![s] =
       [pc |-> "loaded", me |-> me, approval |-> a, approve |-> approve]]
  /\ UNCHANGED <<principal, app, cas, req, effects>>

\* Mutant: sign_now does not ask whether the request is still pending.
Executable_SignAgain(a) == req[a].action = "create_ca" => req[a].on \notin cas

\* _execute raises otherwise, and the whole decision is rolled back: sign_now
\* finds the request decided, or the unique name is taken.
Executable(a) ==
  /\ req[a].action = "code_sign" => req[a].signing = "pending"
  /\ req[a].action = "create_ca" => req[a].on \notin cas

\* Approve: the status, and the action carried out.
Execute(s) ==
  LET a == session[s].approval
  IN  /\ Executable(a)
      /\ req' = [req EXCEPT ![a].status = "approved",
                            ![a].signing = IF req[a].action = "code_sign"
                                           THEN "signed" ELSE @]
      /\ app' = IF req[a].action = "onboard"
                THEN [app EXCEPT ![req[a].on] = "active"] ELSE app
      /\ cas' = IF req[a].action = "create_ca" THEN cas \cup {req[a].on} ELSE cas
      /\ effects' = effects \cup
           {[session |-> s, approval |-> a, by |-> session[s].me]}

\* An issuance for a logon certificate whose account the directory does not
\* vouch for any more: the refusal is recorded and committed, and the decision
\* with it, so the approval stays approved and nothing was issued.
ExecuteRefused(s) ==
  LET a == session[s].approval
  IN  /\ req[a].action = "issue"
      /\ req' = [req EXCEPT ![a].status = "approved"]
      /\ UNCHANGED <<app, cas, effects>>

\* Mutant: only an app that still waits for approval is rejected.
Reject_PendingOnly(s) ==
  LET a == session[s].approval
  IN  /\ req' = [req EXCEPT ![a].status = "rejected",
                            ![a].signing = IF @ = "pending" THEN "rejected" ELSE @]
      /\ app' = IF req[a].action = "onboard" /\ app[req[a].on] = "pending_approval"
                THEN [app EXCEPT ![req[a].on] = "rejected"] ELSE app
      /\ UNCHANGED <<cas, effects>>

\* Reject: the status, and what the request left waiting.
Reject(s) ==
  LET a == session[s].approval
  IN  /\ req' = [req EXCEPT ![a].status = "rejected",
                            ![a].signing = IF @ = "pending" THEN "rejected" ELSE @]
      /\ app' = IF req[a].action = "onboard"
                THEN [app EXCEPT ![req[a].on] = "rejected"] ELSE app
      /\ UNCHANGED <<cas, effects>>

DecideWrite(s) ==
  /\ session[s].pc = "loaded"
  /\ \/ session[s].approve /\ (Execute(s) \/ ExecuteRefused(s))
     \/ ~session[s].approve /\ Reject(s)
  /\ session' = [session EXCEPT ![s].pc = "done"]
  /\ UNCHANGED principal

\* The call fails: the execution raises, a connection is lost, the replica dies.
Fail(s) ==
  /\ session[s].pc = "loaded"
  /\ session' = [session EXCEPT ![s].pc = "done"]
  /\ UNCHANGED <<principal, app, cas, req, effects>>

-----------------------------------------------------------------------------

Blank == [pc |-> "idle", me |-> System, approval |-> System, approve |-> FALSE]

NoRequest == [action |-> "none", by |-> System, status |-> "none",
              on |-> System, signing |-> "none"]

Init ==
  /\ principal = [x \in Person |-> IF x \in Founder
                    THEN [active |-> TRUE, by |-> System]
                    ELSE [active |-> FALSE, by |-> "none"]]
  /\ app = [x \in App |-> "none"]
  /\ cas = {}
  /\ req = [a \in Approval |-> NoRequest]
  /\ session = [s \in Session |-> Blank]
  /\ effects = {}

Next ==
  \/ \E p, x \in Person : CreatePrincipal(p, x) \/ DeactivatePrincipal(p, x)
  \/ \E p \in Person, x \in App : OnboardDevApp(p, x)
  \/ \E p \in Person, a \in Approval, x \in App :
       \/ OnboardApp(p, a, x)
       \/ \E action \in Action : AskForApp(p, a, action, x)
  \/ \E p \in Person, a \in Approval, n \in Name : AskForCa(p, a, n)
  \/ \E s \in Session :
       \/ \E me \in Person, a \in Approval, approve \in BOOLEAN :
            DecideRead(s, me, a, approve)
       \/ DecideWrite(s)
       \/ Fail(s)

Spec == Init /\ [][Next]_vars

-----------------------------------------------------------------------------
(* Properties *)

TypeOK ==
  /\ principal \in [Person -> Principal]
  /\ app \in [App -> {"none", "pending_approval", "active", "rejected"}]
  /\ cas \subseteq Name
  /\ req \in [Approval -> Request]
  /\ session \in [Session -> Call]
  /\ effects \subseteq Effect

\* Whatever is carried out under an approval was decided by a second person:
\* an approver who is not the requester and whose credential the requester did
\* not issue, also when credentials are issued or withdrawn while it waits
\* (docs/SECURITY.md, maker-checker).
MakerChecker ==
  \A e \in effects : /\ e.by \in Approver
                     /\ e.by # req[e.approval].by
                     /\ principal[e.by].by # req[e.approval].by

\* An app and the approval of its onboarding never disagree, also when two
\* approvers decide the same request at once, one each way: the app has the
\* status of the decision that stands.
OnboardingAgrees ==
  \A a \in Approval : req[a].action = "onboard" =>
    /\ req[a].status = "pending" => app[req[a].on] = "pending_approval"
    /\ req[a].status = "approved" => app[req[a].on] = "active"
    /\ req[a].status = "rejected" => app[req[a].on] = "rejected"

\* A release signature is made once and a CA name is given once, however many
\* approvers decide the same request, or requests for the same name, at once.
ExecutedOnce ==
  \A d, e \in effects :
    req[d.approval].action = req[e.approval].action =>
      /\ req[d.approval].action = "code_sign" /\ d.approval = e.approval => d = e
      /\ req[d.approval].action = "create_ca"
         /\ req[d.approval].on = req[e.approval].on => d = e

\* services.py:462: "approval already ..." - a decision is not taken twice.
DecisionIsFinal ==
  [][\A a \in Approval :
       req[a].status \in {"approved", "rejected"} => req'[a] = req[a]]_vars

=============================================================================
