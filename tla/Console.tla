------------------------------ MODULE Console ------------------------------
(***************************************************************************)
(* The web console (web/static/console.js).  Every handler of the page is  *)
(* a function that runs to its next await: it sends a request and goes on  *)
(* when the answer comes, while the user clicks and other answers arrive   *)
(* in any order.  A request carries the key of the moment it is sent; what *)
(* it renders is what that key was shown.                                  *)
(*                                                                         *)
(* A loader fills the regions of its tab: sections one after the other in  *)
(* a chain, several chains side by side.  A section under part403 shows    *)
(* the error in place of its content and the chain goes on; any other      *)
(* error ends the chain and leaves the region as it was (toasts, which     *)
(* overwrite the name of the user, are left out).                          *)
(*                                                                         *)
(* Of a region the model keeps for which key and which choice of its       *)
(* filter it was read, and whether the user's own change came after that.  *)
(* What a form offers to choose from (apps, teams, kinds, the names of the *)
(* settings) is left out, and so is what is looked up in memory alone.     *)
(***************************************************************************)
EXTENDS Sequences, Naturals, FiniteSets

CONSTANTS
  AdminKey, OperatorKey, ReaderKey,   \* API keys by the role behind them
  BadKey,                             \* what is typed in and is no key
  NoKey,
  Choice, NoChoice,                   \* of the filters
  App, NoApp,
  Folder, NoFolder,
  Opened,          \* bound: the tabs that are opened
  MaxInputs,       \* bound: what the user does
  MaxFailures      \* bound: refusals of a key that is one, for whatever reason

ValidKey == AdminKey \cup OperatorKey \cup ReaderKey
Key == ValidKey \cup BadKey

ASSUME ConsoleAssumption ==
  /\ NoKey \notin Key /\ BadKey \cap ValidKey = {}
  /\ NoChoice \notin Choice /\ NoApp \notin App /\ NoFolder \notin Folder
  /\ {MaxInputs, MaxFailures} \subseteq Nat

VARIABLES
  KEY,
  body,      \* the classes of the page's body: [ro, noadmin]
  tab,       \* the tab shown, also sessionStorage cdl_tab
  requests,  \* requests that are not answered
  shown,     \* what each region shows
  filter,    \* the filters of the regions that have one
  busy,      \* regions with a disabled button
  last,      \* history: how the last request for a region went
  OB,        \* the onboarding wizard: [team, app, active, step, cred]
  server,    \* the applications the wizard created, at the server
  EDITING,   \* the folder whose rules are edited, or NoFolder
  rules,     \* the rules in the editor: [of, typed]
  inputs, failures

session == <<KEY, body, tab>>
pageVars == <<requests, shown, last, busy>>
wizard == <<OB, server>>
editor == <<EDITING, rules>>
bounds == <<inputs, failures>>
consoleVars == <<session, pageVars, filter, wizard, editor, bounds>>

-----------------------------------------------------------------------------
(* Loaders *)

Part(el)  == [el |-> el, guarded |-> TRUE, at |-> el]    \* part403
Plain(el) == [el |-> el, guarded |-> FALSE, at |-> el]

loadOverview     == {<<Plain("overview")>>}
loadOnboard      == {<<Plain("onboard")>>}
loadInventory    == {<<Plain("inventory")>>}
loadApprovals    == {<<Plain("approvals")>>}
loadFindings     == {<<Plain("findings")>>}
loadSources      == {<<Plain("sources")>>}
loadDiscovery    == {<<Part("findings")>>, <<Part("sources")>>}
loadProvisioning == {<<Part("targets"), Part("installs")>>}
showRuns         == {<<Plain("runs")>>}
\* An error of the apps is shown where the policy of one app is.
loadPolicy       == {<<Part("tree"), [Part("apps") EXCEPT !.at = "policy"]>>}
loadEffective    == {<<Part("policy")>>}
loadSigning      == {<<Part("keys"), Part("signings")>>}
loadIssuers      == {<<Plain("issuers")>>}
loadSshKeys      == {<<Plain("sshkeys")>>}
loadAudit        == {<<Part("shipping")>>, <<Plain("audit")>>}
loadReports      == {<<Part("cas")>>, <<Plain("crypto")>>}

Loader == [
  overview |-> loadOverview, onboard |-> loadOnboard,
  inventory |-> loadInventory, approvals |-> loadApprovals,
  discovery |-> loadDiscovery, provisioning |-> loadProvisioning,
  policy |-> loadPolicy, issuers |-> loadIssuers, signing |-> loadSigning,
  sshkeys |-> loadSshKeys, audit |-> loadAudit, reports |-> loadReports]

Tab == DOMAIN Loader

ASSUME OpenedAssumption == Opened \subseteq Tab

Sections(chains) == UNION {{c[i] : i \in DOMAIN c} : c \in chains}

Region ==
  {s.el : s \in Sections(UNION {Loader[t] : t \in Tab})}
  \cup {"runs", "policy", "scan", "me", "wizard"}

Filtered == {"findings", "sshkeys", "policy"}

-----------------------------------------------------------------------------
(* Requests *)

Content(k, arg, old) == [key |-> k, arg |-> arg, old |-> old]
Blank == Content(NoKey, "blank", FALSE)
Refused == Content(NoKey, "error", FALSE)

Arg(el, f) == IF el \in Filtered THEN f[el] ELSE NoChoice

Load(c, k, f) ==
  [kind |-> "load", chain |-> c, key |-> k, arg |-> Arg(c[1].el, f), old |-> FALSE]

Loads(rs, el) == {r \in rs : r.kind = "load" /\ r.chain[1].el = el}

\* l: how the last requests went, before the first sections of chains are asked
\* for in the name of k while rs are on their way.  A request that meets another
\* one for its region with another key, choice or age has raced.
Marked(l, rs, chains, k, f) ==
  LET asked == {c[1].el : c \in chains}
      Other(el) == {r \in Loads(rs, el) : <<r.key, r.arg, r.old>> # <<k, Arg(el, f), FALSE>>}
  IN [el \in Region |->
        IF el \notin asked THEN l[el]
        ELSE IF Other(el) # {} THEN "raced"
        ELSE IF Loads(rs, el) # {} THEN l[el]
        ELSE "sent"]

\* The chains are started while the requests rs are on their way.
Start(chains, rs, l, k, f) ==
  /\ requests' = rs \cup {Load(c, k, f) : c \in chains}
  /\ last' = Marked(l, rs, chains, k, f)

Input == inputs < MaxInputs /\ inputs' = inputs + 1 /\ UNCHANGED failures

Ended(l, el, how) == [l EXCEPT ![el] = IF @ = "sent" THEN how ELSE @]

\* Nothing of a chain comes after a section that fails unguarded.
Dropped(l, chain) ==
  [el \in Region |-> IF \E s \in Sections({chain}) : s.el = el THEN "failed" ELSE l[el]]

\* A request that has been sent with key k is refused.
Refuse(k) ==
  /\ IF k \in ValidKey THEN failures < MaxFailures /\ failures' = failures + 1
     ELSE UNCHANGED failures
  /\ UNCHANGED inputs

-----------------------------------------------------------------------------
(* The session *)

\* show(): a tab loads each time it is opened, when there is a key.
Show ==
  /\ Input
  /\ tab' \in Opened
  /\ IF KEY = NoKey THEN UNCHANGED <<requests, last>>
     ELSE Start(Loader[tab'], requests, last, KEY, filter)
  /\ UNCHANGED <<KEY, body, shown, filter, busy, wizard, editor>>

Me(k) == [kind |-> "me", key |-> k]

Connect ==
  /\ Input
  /\ KEY' \in Key
  /\ requests' = requests \cup {Me(KEY')}
  /\ last' = [last EXCEPT !["me"] =
                IF \E r \in requests : r.kind = "me" THEN "raced" ELSE "sent"]
  /\ UNCHANGED <<body, tab, shown, filter, busy, wizard, editor>>

Classes(k) == [ro |-> k \notin AdminKey \cup OperatorKey, noadmin |-> k \notin AdminKey]

\* Mutant: the tab is not shown again.
AnswerMe_NoShow ==
  \E r \in requests :
    /\ r.kind = "me" /\ r.key \in ValidKey
    /\ body' = Classes(r.key)
    /\ requests' = requests \ {r} /\ last' = Ended(last, "me", "ok")
    /\ UNCHANGED <<KEY, tab, shown, filter, busy, wizard, editor, bounds>>

\* Mutant: the classes are added and never taken away.
AnswerMe_AddsClasses ==
  \E r \in requests :
    /\ r.kind = "me" /\ r.key \in ValidKey
    /\ body' = [ro |-> body.ro \/ Classes(r.key).ro,
                noadmin |-> body.noadmin \/ Classes(r.key).noadmin]
    /\ Start(Loader[tab], requests \ {r}, Ended(last, "me", "ok"), KEY, filter)
    /\ UNCHANGED <<KEY, tab, shown, filter, busy, wizard, editor, bounds>>

\* Who the key is of: hide changes the role cannot make and show the tab again.
AnswerMe ==
  \E r \in requests :
    /\ r.kind = "me"
    /\ \/ /\ r.key \in ValidKey
          /\ body' = Classes(r.key)
          /\ Start(Loader[tab], requests \ {r}, Ended(last, "me", "ok"),
                   KEY, filter)
          /\ UNCHANGED bounds
       \/ /\ Refuse(r.key)
          /\ requests' = requests \ {r}
          /\ last' = Ended(last, "me", "failed")
          /\ UNCHANGED body
    /\ UNCHANGED <<KEY, tab, shown, filter, busy, wizard, editor>>

-----------------------------------------------------------------------------
(* Answers to loaders *)

\* The list of apps, drawn again, asks for the policy of the one picked.
FollowUps(el) ==
  IF el = "apps" /\ filter["policy"] # NoChoice THEN loadEffective ELSE {}

Rest(r) == IF Len(r.chain) = 1 THEN {} ELSE {Tail(r.chain)}

\* Mutant: steps counted from 0.
Rendered_FromZero(el) ==
  /\ OB' = IF el = "onboard" THEN [OB EXCEPT !.step = 0] ELSE OB
  /\ rules' = IF el = "tree" /\ EDITING = NoFolder
              THEN [of |-> NoFolder, typed |-> FALSE] ELSE rules

\* Mutant: without "if (!EDITING)".
Rendered_WhileEditing(el) ==
  /\ OB' = IF el = "onboard" THEN [OB EXCEPT !.step = 1] ELSE OB
  /\ rules' = IF el = "tree" THEN [of |-> NoFolder, typed |-> FALSE] ELSE rules

\* A loaded team list puts the wizard back to its first step; a loaded tree
\* empties the editor, but not while it edits a folder.
Rendered(el) ==
  /\ OB' = IF el = "onboard" THEN [OB EXCEPT !.step = 1] ELSE OB
  /\ rules' = IF el = "tree" /\ EDITING = NoFolder
              THEN [of |-> NoFolder, typed |-> FALSE] ELSE rules

AnswerLoad ==
  \E r \in requests :
    /\ r.kind = "load" /\ r.key \in ValidKey
    /\ LET el == r.chain[1].el
       IN /\ shown' = [shown EXCEPT ![el] = Content(r.key, r.arg, r.old)]
          /\ busy' = busy \ {el}
          /\ Rendered(el)
          /\ Start(Rest(r) \cup FollowUps(el), requests \ {r},
                   Ended(last, el, "ok"), KEY, filter)
    /\ UNCHANGED <<session, filter, server, EDITING, bounds>>

RefuseLoad ==
  \E r \in requests :
    /\ r.kind = "load" /\ Refuse(r.key)
    /\ LET s == r.chain[1]
       IN IF s.guarded
          THEN /\ shown' = [shown EXCEPT ![s.at] = Refused]
               /\ busy' = busy \ {s.at}
               /\ Start(Rest(r), requests \ {r},
                        Ended(last, s.el, IF s.at = s.el THEN "ok" ELSE "failed"),
                        KEY, filter)
          ELSE /\ requests' = requests \ {r}
               /\ last' = Dropped(last, r.chain)
               /\ UNCHANGED <<shown, busy>>
    /\ UNCHANGED <<session, filter, wizard, editor>>

-----------------------------------------------------------------------------
(* Changes: a button sends one, the answer reloads its list *)

\* The list a change is about, where its button is, the classes that hide it.
Change == [el : {"inventory", "approvals"}, hidden : {"-"}, row : {TRUE}]
     \cup [el : {"findings", "sources", "sshkeys"}, hidden : {"ro"}, row : {TRUE}]
     \cup [el : {"targets"}, hidden : {"noadmin"}, row : {FALSE}]
     \cup [el : {"installs", "keys"}, hidden : {"ro"}, row : {FALSE}]
     \cup [el : {"onboard", "apps"}, hidden : {"-"}, row : {FALSE}]
     \cup [el : {"tree"}, hidden : {"noadmin"}, row : {FALSE}]

ReloadAfter == [
  inventory |-> loadInventory, approvals |-> loadApprovals,
  findings |-> loadFindings, sources |-> loadSources, sshkeys |-> loadSshKeys,
  targets |-> loadProvisioning, installs |-> loadProvisioning,
  keys |-> loadSigning, onboard |-> loadOnboard, tree |-> loadPolicy,
  apps |-> loadPolicy]

InTab(el) == \E s \in Sections(Loader[tab]) : s.el = el

Visible(c) ==
  /\ InTab(c.el)
  /\ c.hidden = "ro" => ~body.ro
  /\ c.hidden = "noadmin" => ~body.noadmin
  /\ c.row => shown[c.el] \notin {Blank, Refused}
  /\ c.el = "onboard" => OB.step = 1
  /\ c.el = "sources" => c.el \notin busy

Send(r) == requests' = requests \cup {r} /\ UNCHANGED last

Click ==
  /\ Input
  /\ \E c \in Change :
       /\ Visible(c)
       /\ Send([kind |-> "change", key |-> KEY, el |-> c.el])
       /\ busy' = IF c.el = "sources" THEN busy \cup {c.el} ELSE busy
  /\ UNCHANGED <<session, shown, filter, wizard, editor>>

\* The list is older than the change, and so is what was asked for before it.
Aged(rs, el) ==
  {IF r \in Loads(rs, el) THEN [r EXCEPT !.old = TRUE] ELSE r : r \in rs}

AnswerChange ==
  \E r \in requests :
    /\ r.kind = "change" /\ r.key \in ValidKey
    /\ shown' = [shown EXCEPT ![r.el].old = @ \/ shown[r.el] \notin {Blank, Refused}]
    /\ Start(ReloadAfter[r.el], Aged(requests \ {r}, r.el), last, KEY, filter)
    /\ UNCHANGED <<session, filter, busy, wizard, editor, bounds>>

\* Mutant: loadSources() stands in the try.
RefuseChange_InTry ==
  \E r \in requests :
    /\ r.kind = "change" /\ Refuse(r.key)
    /\ requests' = requests \ {r}
    /\ UNCHANGED <<session, shown, last, busy, filter, wizard, editor>>

\* Nothing is reloaded but the sources, after their button was disabled.
RefuseChange ==
  \E r \in requests :
    /\ r.kind = "change" /\ Refuse(r.key)
    /\ IF r.el = "sources"
       THEN Start(loadSources, requests \ {r}, last, KEY, filter)
       ELSE requests' = requests \ {r} /\ UNCHANGED last
    /\ UNCHANGED <<session, shown, filter, busy, wizard, editor>>

\* Push now: whatever the answer, the last run is shown and then the list.
Push ==
  /\ Input
  /\ tab = "provisioning" /\ ~body.ro /\ shown["installs"] \notin {Blank, Refused}
  /\ Send([kind |-> "push", key |-> KEY])
  /\ busy' = busy \cup {"installs"}
  /\ UNCHANGED <<session, shown, filter, wizard, editor>>

AnswerPush ==
  \E r \in requests :
    /\ r.kind = "push"
    /\ \E run \in showRuns, list \in loadProvisioning :
         Start({run \o list}, Aged(requests \ {r}, "installs"), last, KEY, filter)
    /\ shown' = [shown EXCEPT !["installs"].old =
                   @ \/ shown["installs"] \notin {Blank, Refused}]
    /\ UNCHANGED <<session, filter, busy, wizard, editor, bounds>>

\* Runs of one installation, or a scan: a section of its own.
Look ==
  /\ Input
  /\ \/ tab = "provisioning" /\ shown["installs"] \notin {Blank, Refused}
        /\ Start(showRuns, requests, last, KEY, filter)
     \/ tab = "discovery" /\ Start({<<Part("scan")>>}, requests, last, KEY, filter)
  /\ UNCHANGED <<session, shown, filter, busy, wizard, editor>>

\* A filter reads its list again; no app picked reads nothing.
Pick ==
  /\ Input
  /\ \E v \in Choice \cup {NoChoice} :
       \/ /\ tab = "discovery" /\ filter' = [filter EXCEPT !["findings"] = v]
          /\ Start(loadFindings, requests, last, KEY, filter')
       \/ /\ tab = "sshkeys" /\ filter' = [filter EXCEPT !["sshkeys"] = v]
          /\ Start(loadSshKeys, requests, last, KEY, filter')
       \/ /\ tab = "policy" /\ filter' = [filter EXCEPT !["policy"] = v]
          /\ Start(IF v = NoChoice THEN {} ELSE loadEffective, requests, last, KEY,
                   filter')
  /\ UNCHANGED <<session, shown, busy, wizard, editor>>

-----------------------------------------------------------------------------
(* The onboarding wizard *)

ToWizard(r) ==
  /\ requests' = requests \cup {r}
  /\ last' = [last EXCEPT !["wizard"] =
       IF \E q \in requests : q.kind \in {"create", "status"} THEN "raced" ELSE "ok"]

Next1 ==
  /\ tab = "onboard" /\ OB.step = 1
  /\ \E picked \in BOOLEAN :
       OB' = [OB EXCEPT !.team = picked, !.step = IF picked THEN 2 ELSE @]
  /\ UNCHANGED <<session, pageVars, filter, server, editor, bounds>>

Back2 ==
  /\ tab = "onboard" /\ OB.step = 2
  /\ OB' = [OB EXCEPT !.step = 1]
  /\ UNCHANGED <<session, pageVars, filter, server, editor, bounds>>

Next2 ==
  /\ Input /\ tab = "onboard" /\ OB.step = 2
  /\ ToWizard([kind |-> "create", key |-> KEY])
  /\ UNCHANGED <<session, shown, busy, filter, wizard, editor>>

Status(k, a) == [kind |-> "status", key |-> k, app |-> a, was |-> server[a]]

\* Mutant: the status of the new app is not looked at.
AnswerCreate_AnyStatus ==
  \E r \in requests, a \in App, s \in {"pending", "active"} :
    /\ r.kind = "create" /\ r.key \in ValidKey /\ server[a] = "none"
    /\ server' = [server EXCEPT ![a] = s]
    /\ OB' = [OB EXCEPT !.app = a, !.active = (s = "active"), !.step = 4]
    /\ requests' = requests \ {r}
    /\ UNCHANGED <<session, shown, last, busy, filter, editor, bounds>>

\* Production waits for an approver; obStatus() is called without await.
AnswerCreate ==
  \E r \in requests, a \in App, s \in {"pending", "active"} :
    /\ r.kind = "create" /\ r.key \in ValidKey /\ server[a] = "none"
    /\ server' = [server EXCEPT ![a] = s]
    /\ OB' = [OB EXCEPT !.app = a, !.active = (s = "active"),
                        !.step = IF s = "active" THEN 4 ELSE 3]
    /\ IF s = "active"
       THEN requests' = requests \ {r} /\ UNCHANGED last
       ELSE /\ requests' = (requests \ {r})
                 \cup {[kind |-> "status", key |-> KEY, app |-> a, was |-> s]}
            /\ last' = [last EXCEPT !["wizard"] =
                 IF \E q \in requests : q.kind = "status" THEN "raced" ELSE @]
    /\ UNCHANGED <<session, shown, busy, filter, editor, bounds>>

obStatus ==
  /\ Input /\ tab = "onboard" /\ OB.step = 3
  /\ ToWizard(Status(KEY, OB.app))
  /\ UNCHANGED <<session, shown, busy, filter, wizard, editor>>

\* The server read the app at some moment since it was asked.
AnswerStatus ==
  \E r \in requests :
    /\ r.kind = "status" /\ r.key \in ValidKey
    /\ \E s \in {r.was, server[r.app]} :
         OB' = [OB EXCEPT !.app = r.app, !.active = (s = "active"),
                          !.step = IF s = "active" THEN 4 ELSE @]
    /\ requests' = requests \ {r}
    /\ UNCHANGED <<session, shown, last, busy, filter, server, editor, bounds>>

\* A second person approves.
Approve ==
  /\ \E a \in App : server[a] = "pending" /\ server' = [server EXCEPT ![a] = "active"]
  /\ UNCHANGED <<session, pageVars, filter, OB, editor, bounds>>

Credential ==
  /\ Input /\ tab = "onboard" /\ OB.step = 4
  /\ Send([kind |-> "cred", key |-> KEY, app |-> OB.app])
  /\ UNCHANGED <<session, shown, busy, filter, wizard, editor>>

AnswerCredential ==
  \E r \in requests :
    /\ r.kind = "cred" /\ r.key \in ValidKey /\ server[r.app] = "active"
    /\ OB' = [OB EXCEPT !.cred = r.app]
    /\ requests' = requests \ {r}
    /\ UNCHANGED <<session, shown, last, busy, filter, server, editor, bounds>>

\* The error is shown, nothing else happens.
RefuseWizard ==
  \E r \in requests :
    /\ r.kind \in {"create", "status", "cred"} /\ Refuse(r.key)
    /\ requests' = requests \ {r}
    /\ UNCHANGED <<session, shown, last, busy, filter, wizard, editor>>

-----------------------------------------------------------------------------
(* The policy editor; fe-save and mv-go are changes of "tree" and "apps" *)

\* Mutant: the rules are not drawn again.
editFolder_KeepsRules(f) == EDITING' = f /\ UNCHANGED rules

editFolder(f) ==
  /\ EDITING' = f
  /\ rules' = [of |-> f, typed |-> FALSE]

EditFolder ==
  /\ Input /\ tab = "policy" /\ ~body.noadmin
  /\ \/ shown["tree"] \notin {Blank, Refused} /\ \E f \in Folder : editFolder(f)
     \/ editFolder(NoFolder)    \* fe-reset
  /\ UNCHANGED <<session, pageVars, filter, wizard>>

\* A rule is added, typed, locked or removed.
TypeRule ==
  /\ tab = "policy" /\ ~body.noadmin
  /\ rules' = [rules EXCEPT !.typed = TRUE]
  /\ UNCHANGED <<session, pageVars, filter, wizard, EDITING, bounds>>

-----------------------------------------------------------------------------

\* The page opens with the key and the tab the session's storage holds: the tab
\* loads, and the connect button is pressed.
ConsoleInit ==
  /\ KEY \in ValidKey \cup {NoKey}
  /\ tab \in Opened
  /\ body = [ro |-> FALSE, noadmin |-> FALSE]
  /\ filter = [el \in Filtered |-> NoChoice]
  /\ LET chains == IF KEY = NoKey THEN {} ELSE Loader[tab]
     IN /\ requests = {Load(c, KEY, filter) : c \in chains}
                      \cup IF KEY = NoKey THEN {} ELSE {Me(KEY)}
        /\ last = [el \in Region |->
             IF el \in {c[1].el : c \in chains} \/ (el = "me" /\ KEY # NoKey)
             THEN "sent" ELSE "none"]
  /\ shown = [el \in Region |-> Blank]
  /\ busy = {}
  /\ OB = [team |-> FALSE, app |-> NoApp, active |-> FALSE, step |-> 1, cred |-> NoApp]
  /\ server = [a \in App |-> "none"]
  /\ EDITING = NoFolder /\ rules = [of |-> NoFolder, typed |-> FALSE]
  /\ inputs = 0 /\ failures = 0

User ==
  \/ Show \/ Connect \/ Click \/ Push \/ Look \/ Pick
  \/ Next1 \/ Back2 \/ Next2 \/ obStatus \/ Credential
  \/ EditFolder \/ TypeRule

Answer ==
  \/ AnswerMe \/ AnswerLoad \/ RefuseLoad
  \/ AnswerChange \/ RefuseChange \/ AnswerPush
  \/ AnswerCreate \/ AnswerStatus \/ AnswerCredential \/ RefuseWizard

ConsoleNext == User \/ Answer \/ Approve

ConsoleSpec == ConsoleInit /\ [][ConsoleNext]_consoleVars

-----------------------------------------------------------------------------
(* Properties *)

RequestType(r) ==
  /\ r.key \in Key \cup {NoKey}
  /\ r.kind \in {"me", "load", "change", "push", "create", "status", "cred"}
  /\ r.kind = "load" => r.chain # <<>> /\ r.old \in BOOLEAN

ConsoleTypeOK ==
  /\ KEY \in Key \cup {NoKey} /\ tab \in Opened
  /\ body \in [ro : BOOLEAN, noadmin : BOOLEAN]
  /\ \A r \in requests : RequestType(r)
  /\ DOMAIN shown = Region /\ \A el \in Region : shown[el].old \in BOOLEAN
  /\ last \in [Region -> {"none", "sent", "ok", "failed", "raced"}]
  /\ filter \in [Filtered -> Choice \cup {NoChoice}]
  /\ busy \subseteq Region
  /\ OB \in [team : BOOLEAN, app : App \cup {NoApp}, active : BOOLEAN,
             step : 1 .. 4, cred : App \cup {NoApp}]
  /\ server \in [App -> {"none", "pending", "active"}]
  /\ EDITING \in Folder \cup {NoFolder}
  /\ rules \in [of : Folder \cup {NoFolder}, typed : BOOLEAN]
  /\ inputs \in 0 .. MaxInputs /\ failures \in 0 .. MaxFailures

Connected == requests = {} /\ last["me"] = "ok"

\* When all is answered, the tab shows what the key typed in may see under the
\* filters as they are, no older than the user's own changes, or the refusal,
\* unless two different requests for the same region were on their way at once
\* or the last one failed: whatever was clicked, switched and answered before.
SettledPage ==
  Connected =>
    \A s \in Sections(Loader[tab]) :
      last[s.el] = "ok" =>
        \/ shown[s.el] = Content(KEY, Arg(s.el, filter), FALSE)
        \/ s.guarded /\ shown[s.el] = Refused

\* "hide changes this role cannot make": the classes fit the key, unless two
\* connections were under way at once.
ChangesHidden == Connected => body = Classes(KEY)

\* A disabled button comes back, unless the request that redraws it failed.
ButtonsComeBack ==
  requests = {} =>
    \A el \in {"installs", "sources"} \cap busy : last[el] = "failed"

\* The wizard waits at its third step for no app it was told is active, and is at
\* the fourth with an active one unless its requests overtook each other.
WizardFits ==
  /\ OB.step = 3 => ~OB.active
  /\ OB.step = 4 /\ last["wizard"] = "ok" => OB.active /\ server[OB.app] = "active"

\* The rules in the editor, which fe-save sends to the folder being edited, are
\* those of that folder.
RulesOfFolder == rules.of = EDITING

\* No answer touches the rules of a folder while they are edited.
AnswersKeepEdits ==
  [][requests \ requests' # {} /\ EDITING # NoFolder => rules' = rules]_consoleVars
=============================================================================
