--------------------------- MODULE ConsoleProofs ---------------------------
(***************************************************************************)
(* Proofs about the web console, for any number of keys, applications,     *)
(* folders, inputs and refusals.  Most actions leave the requests that the *)
(* session and the wizard wait for alone (Quiet); what is to be proved of  *)
(* both follows from that, and from the few actions that are not quiet.    *)
(***************************************************************************)
EXTENDS Console, SequenceTheorems, TLAPS

-----------------------------------------------------------------------------
(* Requests *)

\* The names of the sections.
SectionName ==
  {"overview", "onboard", "inventory", "approvals", "findings", "sources", "runs",
   "policy", "issuers", "sshkeys", "shipping", "audit", "cas", "crypto", "targets",
   "installs", "keys", "signings", "scan", "tree", "apps"}

\* Sections that no loader guards.
OnlyPlain ==
  {"overview", "onboard", "inventory", "approvals", "issuers", "sshkeys", "audit", "crypto"}

\* What a loader is made of: what is never guarded never shows an error, and a
\* guarded section with a button shows its error where the button is.
Section ==
  {s \in [el : SectionName, guarded : BOOLEAN, at : SectionName] :
     /\ s.guarded => s.at \notin OnlyPlain
     /\ s.el = "installs" => s.guarded
     /\ s.guarded /\ s.el \in {"installs", "sources"} => s.at = s.el}

Chain == Seq(Section) \ {<<>>}

LoadShape(r) ==
  /\ r.chain \in Chain
  /\ r = [kind |-> "load", chain |-> r.chain, key |-> r.key, arg |-> r.arg,
          old |-> r.old]

\* The lists a change is about.
ChangeName ==
  {"inventory", "approvals", "findings", "sources", "sshkeys", "targets",
   "installs", "keys", "onboard", "apps", "tree"}

Shaped(rs) ==
  \A r \in rs : /\ r.kind = "load" => LoadShape(r)
                /\ r.kind = "me" => r = Me(r.key)
                /\ r.kind = "change" => r.el \in ChangeName

LastShape(l) == l = [el \in Region |-> l[el]]

Waited == {"me", "create", "status"}

\* The requests rs and the record l of how requests went, as the session and
\* the wizard see them.
QuietFrom(rs, l) ==
  /\ Shaped(requests') /\ LastShape(last')
  /\ last'["me"] = l["me"] /\ last'["wizard"] = l["wizard"]
  /\ \A r \in requests' : r.kind \in Waited => r \in rs

Quiet == QuietFrom(requests, last)

ReqInv == Shaped(requests) /\ LastShape(last) /\ tab \in Opened

-----------------------------------------------------------------------------

\* A one-section chain and a two-section chain are chains.
LEMMA ChainOfOne ==
  ASSUME NEW s \in Section
  PROVE  <<s>> \in Chain
BY DEF Chain

LEMMA ChainOfTwo ==
  ASSUME NEW s \in Section, NEW t \in Section
  PROVE  <<s, t>> \in Chain
BY DEF Chain

LEMMA PartSection ==
  ASSUME NEW el \in SectionName \ OnlyPlain
  PROVE  Part(el) \in Section
BY DEF Part, Section

LEMMA PlainSection ==
  ASSUME NEW el \in SectionName \ {"installs"}
  PROVE  Plain(el) \in Section
<1> DEFINE no == FALSE
<1>1. Plain(el) = [el |-> el, guarded |-> no, at |-> el] /\ ~no /\ no \in BOOLEAN
  BY DEF Plain
<1> HIDE DEF no
<1> QED BY <1>1 DEF Section

LEMMA OnePart ==
  ASSUME NEW el \in SectionName \ OnlyPlain
  PROVE  {<<Part(el)>>} \subseteq Chain
BY PartSection, ChainOfOne

LEMMA OnePlain ==
  ASSUME NEW el \in SectionName \ {"installs"}
  PROVE  {<<Plain(el)>>} \subseteq Chain
BY PlainSection, ChainOfOne

LEMMA TwoSections ==
  ASSUME NEW el \in SectionName \ OnlyPlain, NEW m \in SectionName \ OnlyPlain
  PROVE  {<<Part(el), Part(m)>>} \subseteq Chain
BY PartSection, ChainOfTwo

\* Every loader of the page is a set of chains.
LEMMA LoaderChains ==
  /\ \A t \in Tab : Loader[t] \subseteq Chain
  /\ loadFindings \subseteq Chain /\ loadSources \subseteq Chain
  /\ loadProvisioning \subseteq Chain /\ showRuns \subseteq Chain
  /\ loadPolicy \subseteq Chain /\ loadEffective \subseteq Chain
  /\ loadSigning \subseteq Chain /\ loadSshKeys \subseteq Chain
  /\ loadInventory \subseteq Chain /\ loadApprovals \subseteq Chain
  /\ loadOnboard \subseteq Chain
  /\ {<<Part("scan")>>} \subseteq Chain
<1>1. loadOverview \subseteq Chain
  <2>1. "overview" \in SectionName \ {"installs"}
    BY DEF SectionName, OnlyPlain
  <2> QED BY <2>1, OnePlain DEF loadOverview
<1>2. loadOnboard \subseteq Chain
  <2>1. "onboard" \in SectionName \ {"installs"}
    BY DEF SectionName, OnlyPlain
  <2> QED BY <2>1, OnePlain DEF loadOnboard
<1>3. loadInventory \subseteq Chain
  <2>1. "inventory" \in SectionName \ {"installs"}
    BY DEF SectionName, OnlyPlain
  <2> QED BY <2>1, OnePlain DEF loadInventory
<1>4. loadApprovals \subseteq Chain
  <2>1. "approvals" \in SectionName \ {"installs"}
    BY DEF SectionName, OnlyPlain
  <2> QED BY <2>1, OnePlain DEF loadApprovals
<1>5. loadFindings \subseteq Chain
  <2>1. "findings" \in SectionName \ {"installs"}
    BY DEF SectionName, OnlyPlain
  <2> QED BY <2>1, OnePlain DEF loadFindings
<1>6. loadSources \subseteq Chain
  <2>1. "sources" \in SectionName \ {"installs"}
    BY DEF SectionName, OnlyPlain
  <2> QED BY <2>1, OnePlain DEF loadSources
<1>7. showRuns \subseteq Chain
  <2>1. "runs" \in SectionName \ {"installs"}
    BY DEF SectionName, OnlyPlain
  <2> QED BY <2>1, OnePlain DEF showRuns
<1>8. loadEffective \subseteq Chain
  <2>1. "policy" \in SectionName \ OnlyPlain
    BY DEF SectionName, OnlyPlain
  <2> QED BY <2>1, OnePart DEF loadEffective
<1>9. loadIssuers \subseteq Chain
  <2>1. "issuers" \in SectionName \ {"installs"}
    BY DEF SectionName, OnlyPlain
  <2> QED BY <2>1, OnePlain DEF loadIssuers
<1>10. loadSshKeys \subseteq Chain
  <2>1. "sshkeys" \in SectionName \ {"installs"}
    BY DEF SectionName, OnlyPlain
  <2> QED BY <2>1, OnePlain DEF loadSshKeys
<1>11. loadDiscovery \subseteq Chain
  <2>1. "findings" \in SectionName \ OnlyPlain /\ "sources" \in SectionName \ OnlyPlain
    BY DEF SectionName, OnlyPlain
  <2>2. {<<Part("findings")>>} \subseteq Chain
    BY <2>1, OnePart
  <2>3. {<<Part("sources")>>} \subseteq Chain
    BY <2>1, OnePart
  <2> QED BY <2>2, <2>3 DEF loadDiscovery
<1>12. loadAudit \subseteq Chain
  <2>1. "shipping" \in SectionName \ OnlyPlain /\ "audit" \in SectionName \ {"installs"}
    BY DEF SectionName, OnlyPlain
  <2>2. {<<Part("shipping")>>} \subseteq Chain
    BY <2>1, OnePart
  <2>3. {<<Plain("audit")>>} \subseteq Chain
    BY <2>1, OnePlain
  <2> QED BY <2>2, <2>3 DEF loadAudit
<1>13. loadReports \subseteq Chain
  <2>1. "cas" \in SectionName \ OnlyPlain /\ "crypto" \in SectionName \ {"installs"}
    BY DEF SectionName, OnlyPlain
  <2>2. {<<Part("cas")>>} \subseteq Chain
    BY <2>1, OnePart
  <2>3. {<<Plain("crypto")>>} \subseteq Chain
    BY <2>1, OnePlain
  <2> QED BY <2>2, <2>3 DEF loadReports
<1>14. loadProvisioning \subseteq Chain
  <2>1. "targets" \in SectionName \ OnlyPlain /\ "installs" \in SectionName \ OnlyPlain
    BY DEF SectionName, OnlyPlain
  <2> QED BY <2>1, TwoSections DEF loadProvisioning
<1>15. loadSigning \subseteq Chain
  <2>1. "keys" \in SectionName \ OnlyPlain /\ "signings" \in SectionName \ OnlyPlain
    BY DEF SectionName, OnlyPlain
  <2> QED BY <2>1, TwoSections DEF loadSigning
<1>16. {<<Part("scan")>>} \subseteq Chain
  <2>1. "scan" \in SectionName \ OnlyPlain
    BY DEF SectionName, OnlyPlain
  <2> QED BY <2>1, OnePart
<1>17. loadPolicy \subseteq Chain
  <2>1. [Part("apps") EXCEPT !.at = "policy"] \in Section
    BY DEF Part, Section, SectionName, OnlyPlain
  <2>2. Part("tree") \in Section
    BY DEF Part, Section, SectionName, OnlyPlain
  <2> QED BY <2>1, <2>2, ChainOfTwo DEF loadPolicy
<1>18. ASSUME NEW t \in Tab PROVE Loader[t] \subseteq Chain
  BY <1>1, <1>2, <1>3, <1>4, <1>5, <1>6, <1>7, <1>8, <1>9,
     <1>10, <1>11, <1>12, <1>13, <1>14, <1>15, <1>16, <1>17 DEF Tab, Loader
<1> QED
  BY <1>1, <1>2, <1>3, <1>4, <1>5, <1>6, <1>7, <1>8, <1>9,
     <1>10, <1>11, <1>12, <1>13, <1>14, <1>15, <1>16, <1>17, <1>18

\* Starting chains adds loads alone.
LEMMA StartIsQuiet ==
  ASSUME NEW chains, chains \subseteq Chain,
         NEW rs, Shaped(rs), NEW l, LastShape(l), NEW k, NEW f,
         Start(chains, rs, l, k, f)
  PROVE  QuietFrom(rs, l)
<1>1. \A c \in chains : Load(c, k, f).kind = "load" /\ LoadShape(Load(c, k, f))
  BY DEF Load, LoadShape
<1>2. Shaped(requests')
  BY <1>1 DEF Start, Shaped
<1>3. \A r \in requests' : r.kind \in Waited => r \in rs
  BY <1>1 DEF Start, Waited
<1>4. ASSUME NEW c \in chains PROVE c[1].el \notin {"me", "wizard"}
  <2>1. 1 \in DOMAIN c /\ c \in Seq(Section)
    BY DEF Chain
  <2>2. c[1] \in Section
    BY <2>1
  <2> QED BY <2>2 DEF Section, SectionName
<1>5. "me" \in Region /\ "wizard" \in Region
  BY DEF Region
<1>6. last'["me"] = l["me"] /\ last'["wizard"] = l["wizard"]
  BY <1>4, <1>5 DEF Start, Marked
<1>7. LastShape(last')
  BY DEF Start, Marked, LastShape
<1> QED BY <1>2, <1>3, <1>6, <1>7 DEF QuietFrom

-----------------------------------------------------------------------------
(* The actions that are quiet *)

\* Dropping a request and writing down how it went is quiet.
LEMMA EndedIsQuiet ==
  ASSUME NEW l, LastShape(l), NEW el \in SectionName, NEW how
  PROVE  /\ LastShape(Ended(l, el, how))
         /\ Ended(l, el, how)["me"] = l["me"]
         /\ Ended(l, el, how)["wizard"] = l["wizard"]
<1>1. "me" \in Region /\ "wizard" \in Region
  BY DEF Region
<1>2. el # "me" /\ el # "wizard"
  BY DEF SectionName
<1> QED BY <1>1, <1>2 DEF LastShape, Ended

LEMMA DroppedIsQuiet ==
  ASSUME NEW l, LastShape(l), NEW c \in Chain
  PROVE  /\ LastShape(Dropped(l, c))
         /\ Dropped(l, c)["me"] = l["me"]
         /\ Dropped(l, c)["wizard"] = l["wizard"]
<1>1. "me" \in Region /\ "wizard" \in Region
  BY DEF Region
<1>2. ASSUME NEW s \in Sections({c}) PROVE s.el \notin {"me", "wizard"}
  <2>1. PICK i \in DOMAIN c : s = c[i]
    BY DEF Sections
  <2>2. c[i] \in Section
    BY <2>1 DEF Chain
  <2> QED BY <2>1, <2>2 DEF Section, SectionName
<1> QED BY <1>1, <1>2 DEF LastShape, Dropped

\* What is left of a chain is a chain.
LEMMA RestChains ==
  ASSUME NEW r, LoadShape(r)
  PROVE  Rest(r) \subseteq Chain /\ r.chain[1].el \in SectionName
<1>1. r.chain \in Seq(Section) /\ r.chain # <<>>
  BY DEF LoadShape, Chain
<1>2. ASSUME Len(r.chain) # 1
      PROVE  Tail(r.chain) \in Seq(Section) /\ Tail(r.chain) # <<>>
  <2>1. /\ Tail(r.chain) \in Seq(Section)
        /\ Len(Tail(r.chain)) = Len(r.chain) - 1
    BY <1>1, HeadTailProperties
  <2>2. ASSUME Tail(r.chain) = <<>> PROVE FALSE
    <3>1. Len(Tail(r.chain)) = 0
      BY <2>2, EmptySeq
    <3>2. Len(r.chain) \in Nat
      BY <1>1
    <3> QED BY <1>2, <2>1, <3>1, <3>2
  <2> QED BY <2>1, <2>2
<1>3. r.chain[1] \in Section
  BY <1>1
<1> QED BY <1>2, <1>3 DEF Rest, Chain, Section

\* Sending a request of a kind nothing waits for is quiet.
LEMMA SendIsQuiet ==
  ASSUME ReqInv, NEW r, r.kind \notin Waited \cup {"load"}, Send(r),
         r.kind = "change" => r.el \in ChangeName
  PROVE  Quiet
BY DEF ReqInv, Send, Quiet, QuietFrom, Shaped, Waited

\* Taking requests away is quiet.
LEMMA AnsweredIsQuiet ==
  ASSUME ReqInv, requests' \subseteq requests, last' = last
  PROVE  Quiet
BY DEF ReqInv, Quiet, QuietFrom, Shaped

LEMMA AgedLoad ==
  ASSUME NEW q, NEW c, NEW k, NEW a, NEW o, NEW t,
         q = [kind |-> "load", chain |-> c, key |-> k, arg |-> a, old |-> o]
  PROVE  [q EXCEPT !.old = t] =
           [kind |-> "load", chain |-> c, key |-> k, arg |-> a, old |-> t]
OBVIOUS

\* Requests that have been aged are the same ones.
LEMMA AgedShaped ==
  ASSUME NEW rs, Shaped(rs), NEW el
  PROVE  /\ Shaped(Aged(rs, el))
         /\ \A r \in Aged(rs, el) : r.kind \in Waited => r \in rs
<1> DEFINE t == TRUE
<1>0. Aged(rs, el) = {IF r \in Loads(rs, el) THEN [r EXCEPT !.old = t] ELSE r : r \in rs}
  BY Zenon DEF Aged
<1> HIDE DEF t
<1>1. ASSUME NEW q \in rs, q.kind = "load"
      PROVE  /\ [q EXCEPT !.old = t].kind = "load"
             /\ LoadShape([q EXCEPT !.old = t])
  <2>1. LoadShape(q)
    BY <1>1 DEF Shaped
  <2>2. q = [kind |-> "load", chain |-> q.chain, key |-> q.key, arg |-> q.arg,
             old |-> q.old]
    BY <2>1 DEF LoadShape
  <2>3. [q EXCEPT !.old = t] =
          [kind |-> "load", chain |-> q.chain, key |-> q.key, arg |-> q.arg, old |-> t]
    BY <2>2, AgedLoad
  <2> QED BY <2>1, <2>3 DEF LoadShape
<1>2. ASSUME NEW r \in Aged(rs, el)
      PROVE  r \in rs \/ (r.kind = "load" /\ LoadShape(r))
  BY <1>0, <1>1, <1>2 DEF Loads
<1> QED BY <1>2 DEF Shaped, Waited

LEMMA ShowQuiet == ASSUME ReqInv, Show PROVE Quiet
<1>1. CASE KEY = NoKey
  BY <1>1, AnsweredIsQuiet DEF Show
<1>2. CASE KEY # NoKey
  <2>1. tab' \in Tab
    BY OpenedAssumption DEF Show
  <2>2. Loader[tab'] \subseteq Chain
    BY <2>1, LoaderChains
  <2>3. Start(Loader[tab'], requests, last, KEY, filter)
    BY <1>2 DEF Show
  <2> QED BY <2>2, <2>3, StartIsQuiet DEF ReqInv, Quiet
<1> QED BY <1>1, <1>2

LEMMA AnswerLoadQuiet == ASSUME ReqInv, AnswerLoad PROVE Quiet
<1>1. PICK r \in requests :
        /\ r.kind = "load"
        /\ Start(Rest(r) \cup FollowUps(r.chain[1].el), requests \ {r},
                 Ended(last, r.chain[1].el, "ok"), KEY, filter)
  BY DEF AnswerLoad
<1>2. LoadShape(r)
  BY <1>1 DEF ReqInv, Shaped
<1>3. Rest(r) \cup FollowUps(r.chain[1].el) \subseteq Chain
  BY <1>2, RestChains, LoaderChains DEF FollowUps
<1> DEFINE l == Ended(last, r.chain[1].el, "ok")
<1>4. LastShape(l) /\ l["me"] = last["me"] /\ l["wizard"] = last["wizard"]
  BY <1>2, RestChains, EndedIsQuiet DEF ReqInv
<1>5. Shaped(requests \ {r})
  BY DEF ReqInv, Shaped
<1>6. QuietFrom(requests \ {r}, l)
  BY <1>1, <1>3, <1>4, <1>5, StartIsQuiet
<1> QED BY <1>4, <1>6 DEF Quiet, QuietFrom

LEMMA RefuseLoadQuiet == ASSUME ReqInv, RefuseLoad PROVE Quiet
<1>1. PICK r \in requests :
        /\ r.kind = "load"
        /\ LET s == r.chain[1]
           IN IF s.guarded
              THEN Start(Rest(r), requests \ {r},
                         Ended(last, s.el, IF s.at = s.el THEN "ok" ELSE "failed"),
                         KEY, filter)
              ELSE requests' = requests \ {r} /\ last' = Dropped(last, r.chain)
  BY DEF RefuseLoad
<1> DEFINE s == r.chain[1]
           l == Ended(last, s.el, IF s.at = s.el THEN "ok" ELSE "failed")
<1>2. LoadShape(r)
  BY <1>1 DEF ReqInv, Shaped
<1>3. Shaped(requests \ {r})
  BY DEF ReqInv, Shaped
<1>4. CASE s.guarded
  <2>1. LastShape(l) /\ l["me"] = last["me"] /\ l["wizard"] = last["wizard"]
    BY <1>2, RestChains, EndedIsQuiet DEF ReqInv
  <2>2. Start(Rest(r), requests \ {r}, l, KEY, filter)
    BY <1>1, <1>4
  <2>3. QuietFrom(requests \ {r}, l)
    BY <1>2, <1>3, <2>1, <2>2, RestChains, StartIsQuiet
  <2> QED BY <2>1, <2>3 DEF Quiet, QuietFrom
<1>5. CASE ~s.guarded
  <2>1. requests' = requests \ {r} /\ last' = Dropped(last, r.chain)
    BY <1>1, <1>5
  <2>2. r.chain \in Chain
    BY <1>2 DEF LoadShape
  <2>3. /\ LastShape(last') /\ last'["me"] = last["me"]
        /\ last'["wizard"] = last["wizard"]
    BY <2>1, <2>2, DroppedIsQuiet DEF ReqInv
  <2> QED BY <1>3, <2>1, <2>3 DEF Quiet, QuietFrom
<1> QED BY <1>4, <1>5

LEMMA ChangesQuiet ==
  ASSUME ReqInv, AnswerChange \/ RefuseChange \/ AnswerPush
  PROVE  Quiet
<1> DEFINE From(rs) == Shaped(rs) /\ \A r \in rs : r.kind \in Waited => r \in requests
<1>1. ASSUME NEW rs, From(rs), NEW chains \in SUBSET Chain,
             Start(chains, rs, last, KEY, filter)
      PROVE  Quiet
  <2>1. QuietFrom(rs, last)
    BY <1>1, StartIsQuiet DEF ReqInv
  <2> QED BY <1>1, <2>1 DEF Quiet, QuietFrom
<1>2. \A r : From(requests \ {r}) /\ \A el : From(Aged(requests \ {r}, el))
  <2>1. \A r : Shaped(requests \ {r})
    BY DEF ReqInv, Shaped
  <2> QED BY <2>1, AgedShaped
<1> HIDE DEF From
<1>3. CASE AnswerChange
  <2>1. PICK r \in requests :
          /\ r.kind = "change"
          /\ Start(ReloadAfter[r.el], Aged(requests \ {r}, r.el), last, KEY, filter)
    BY <1>3 DEF AnswerChange
  <2>2. ReloadAfter[r.el] \subseteq Chain
    <3>1. r.el \in ChangeName
      BY <1>3, <2>1 DEF ReqInv, Shaped, AnswerChange
    <3> QED BY <3>1, LoaderChains DEF ChangeName, ReloadAfter
  <2> QED BY <2>1, <2>2, <1>1, <1>2
<1>4. CASE RefuseChange
  <2>1. PICK r \in requests :
          \/ Start(loadSources, requests \ {r}, last, KEY, filter)
          \/ requests' = requests \ {r} /\ UNCHANGED last
    BY <1>4 DEF RefuseChange
  <2>2. CASE requests' = requests \ {r} /\ UNCHANGED last
    BY <2>2, AnsweredIsQuiet
  <2> QED BY <2>1, <2>2, <1>1, <1>2, LoaderChains
<1>5. CASE AnswerPush
  <2>1. PICK r \in requests, run \in showRuns, list \in loadProvisioning :
          Start({run \o list}, Aged(requests \ {r}, "installs"), last, KEY, filter)
    BY <1>5 DEF AnswerPush
  <2>2. run \in Chain /\ list \in Chain
    BY LoaderChains
  <2>3. run \o list \in Chain
    BY <2>2 DEF Chain
  <2> QED BY <2>1, <2>3, <1>1, <1>2
<1> QED BY <1>3, <1>4, <1>5

LEMMA InputsQuiet ==
  ASSUME ReqInv, Click \/ Push \/ Look \/ Pick \/ Credential
  PROVE  Quiet
<1>1. CASE Click
  <2>1. PICK c \in Change : Send([kind |-> "change", key |-> KEY, el |-> c.el])
    BY <1>1 DEF Click
  <2>2. c.el \in ChangeName
    BY DEF Change, ChangeName
  <2> QED BY <2>1, <2>2, SendIsQuiet DEF Waited
<1>2. CASE Push
  BY <1>2, SendIsQuiet DEF Push, Waited
<1>3. CASE Look
  BY <1>3, StartIsQuiet, LoaderChains DEF Look, ReqInv, Quiet
<1>4. CASE Pick
  BY <1>4, StartIsQuiet, LoaderChains DEF Pick, ReqInv, Quiet
<1>5. CASE Credential
  BY <1>5, SendIsQuiet DEF Credential, Waited
<1> QED BY <1>1, <1>2, <1>3, <1>4, <1>5

LEMMA AnswersQuiet ==
  ASSUME ReqInv, AnswerStatus \/ AnswerCredential \/ RefuseWizard
  PROVE  Quiet
BY AnsweredIsQuiet DEF AnswerStatus, AnswerCredential, RefuseWizard

LEMMA IdleQuiet ==
  ASSUME ReqInv, UNCHANGED pageVars
  PROVE  Quiet
BY AnsweredIsQuiet DEF pageVars

-----------------------------------------------------------------------------
(* The steps *)

Loud == Connect \/ AnswerMe \/ Next2 \/ obStatus \/ AnswerCreate

\* The tab shown is one of those that are opened.
LEMMA TabKept ==
  ASSUME ReqInv, [ConsoleNext]_consoleVars
  PROVE  tab' \in Opened
<1>1. CASE Show
  BY <1>1 DEF Show
<1>2. CASE ~Show
  <2>1. UNCHANGED tab
    BY <1>2 DEF ConsoleNext, User, Answer, consoleVars, session, Connect, Click, Push,
      Look, Pick, Next1, Back2, Next2, obStatus, Credential, EditFolder, TypeRule,
      AnswerMe, AnswerLoad, RefuseLoad, AnswerChange, RefuseChange, AnswerPush,
      AnswerCreate, AnswerStatus, AnswerCredential, RefuseWizard, Approve
  <2> QED BY <2>1, SMTT(60) DEF ReqInv
<1> QED BY <1>1, <1>2

\* Every step but the loud ones is quiet and leaves the key and the classes.
LEMMA QuietSteps ==
  ASSUME ReqInv, [ConsoleNext]_consoleVars, ~Loud
  PROVE  Quiet /\ UNCHANGED <<KEY, body>>
<1>1. CASE UNCHANGED consoleVars
  BY <1>1, IdleQuiet DEF consoleVars, session, pageVars
<1>2. CASE Show
  BY <1>2, ShowQuiet DEF Show
<1>3. CASE Click \/ Push \/ Look \/ Pick \/ Credential
  BY <1>3, InputsQuiet DEF Click, Push, Look, Pick, Credential, session
<1>4. CASE Next1 \/ Back2
  BY <1>4, IdleQuiet DEF Next1, Back2, session
<1>5. CASE EditFolder \/ TypeRule
  BY <1>5, IdleQuiet DEF EditFolder, TypeRule, session
<1>6. CASE Approve
  BY <1>6, IdleQuiet DEF Approve, session
<1>7. CASE AnswerLoad
  BY <1>7, AnswerLoadQuiet DEF AnswerLoad, session
<1>8. CASE RefuseLoad
  BY <1>8, RefuseLoadQuiet DEF RefuseLoad, session
<1>9. CASE AnswerChange \/ RefuseChange \/ AnswerPush
  BY <1>9, ChangesQuiet DEF AnswerChange, RefuseChange, AnswerPush, session
<1>10. CASE AnswerStatus \/ AnswerCredential \/ RefuseWizard
  BY <1>10, AnswersQuiet DEF AnswerStatus, AnswerCredential, RefuseWizard, session
<1> QED
  BY <1>1, <1>2, <1>3, <1>4, <1>5, <1>6, <1>7, <1>8, <1>9, <1>10
  DEF ConsoleNext, User, Answer, Loud

-----------------------------------------------------------------------------
(* The session *)

\* As long as no two connections overlap, the one on its way is that of the key
\* typed in, and the classes of the last one answered are those of the key.
MeInv ==
  /\ last["me"] \in {"none", "sent", "ok", "failed", "raced"}
  /\ last["me"] \in {"none", "ok", "failed"} => \A r \in requests : r.kind # "me"
  /\ last["me"] = "sent" => \A r \in requests : r.kind = "me" => r = Me(KEY)
  /\ last["me"] = "ok" => body = Classes(KEY)

LEMMA MeUnchanged ==
  ASSUME MeInv, last'["me"] = last["me"], UNCHANGED <<KEY, body>>,
         \A r \in requests' : r.kind = "me" => r \in requests
  PROVE  MeInv'
BY DEF MeInv, Me, Classes

LEMMA ConnectStep ==
  ASSUME ReqInv, MeInv, Connect
  PROVE  ReqInv' /\ MeInv' /\ last'["wizard"] = last["wizard"]
         /\ \A r \in requests' : r.kind \in {"create", "status"} => r \in requests
<1>1. "me" \in Region /\ "wizard" \in Region
  BY DEF Region
<1>2. Me(KEY').kind = "me" /\ Me(KEY') = Me(Me(KEY').key)
  BY DEF Me
<1>3. requests' = requests \cup {Me(KEY')}
  BY DEF Connect
<1>4. last' = [last EXCEPT !["me"] =
                 IF \E r \in requests : r.kind = "me" THEN "raced" ELSE "sent"]
  BY DEF Connect
<1>5. Shaped(requests')
  BY <1>2, <1>3 DEF ReqInv, Shaped
<1>6. LastShape(last') /\ last'["wizard"] = last["wizard"]
  BY <1>1, <1>4 DEF ReqInv, LastShape
<1>7. last'["me"] = IF \E r \in requests : r.kind = "me" THEN "raced" ELSE "sent"
  BY <1>1, <1>4 DEF ReqInv, LastShape
<1>8. MeInv'
  BY <1>2, <1>3, <1>7 DEF MeInv
<1>9. UNCHANGED tab
  BY DEF Connect
<1> QED BY <1>2, <1>3, <1>5, <1>6, <1>8, <1>9 DEF ReqInv

LEMMA AnswerMeStep ==
  ASSUME ReqInv, MeInv, AnswerMe
  PROVE  ReqInv' /\ MeInv' /\ last'["wizard"] = last["wizard"]
         /\ \A r \in requests' : r.kind \in {"create", "status"} => r \in requests
<1>1. "me" \in Region /\ "wizard" \in Region
  BY DEF Region
<1>2. PICK r \in requests :
        /\ r.kind = "me"
        /\ \/ /\ body' = Classes(r.key)
              /\ Start(Loader[tab], requests \ {r}, Ended(last, "me", "ok"), KEY, filter)
           \/ /\ requests' = requests \ {r}
              /\ last' = Ended(last, "me", "failed")
              /\ UNCHANGED body
        /\ UNCHANGED <<KEY, tab>>
  BY DEF AnswerMe
<1>3. Shaped(requests \ {r})
  BY DEF ReqInv, Shaped
<1>4. ASSUME NEW how
      PROVE  /\ LastShape(Ended(last, "me", how))
             /\ Ended(last, "me", how)["wizard"] = last["wizard"]
             /\ Ended(last, "me", how)["me"] = IF last["me"] = "sent" THEN how ELSE last["me"]
  BY <1>1 DEF ReqInv, LastShape, Ended
<1>5. last["me"] \in {"sent", "raced"}
  BY <1>2 DEF MeInv
<1>6. last["me"] = "sent" => r = Me(KEY) /\ \A q \in requests \ {r} : q.kind # "me"
  BY <1>2 DEF MeInv
<1>7. CASE /\ body' = Classes(r.key)
           /\ Start(Loader[tab], requests \ {r}, Ended(last, "me", "ok"), KEY, filter)
  <2>1. Loader[tab] \subseteq Chain
    BY LoaderChains, OpenedAssumption DEF ReqInv
  <2>2. QuietFrom(requests \ {r}, Ended(last, "me", "ok"))
    BY <1>3, <1>4, <1>7, <2>1, StartIsQuiet
  <2>3. last["me"] = "sent" => r.key = KEY
    BY <1>6 DEF Me
  <2>4. last'["me"] = IF last["me"] = "sent" THEN "ok" ELSE last["me"]
    BY <1>4, <2>2 DEF QuietFrom
  <2>5. \A q \in requests' : q.kind = "me" => q \in requests \ {r}
    BY <2>2 DEF QuietFrom, Waited
  <2>6. MeInv'
    BY <1>2, <1>5, <1>6, <1>7, <2>3, <2>4, <2>5 DEF MeInv, Classes
  <2> QED BY <1>2, <1>4, <2>2, <2>6 DEF QuietFrom, ReqInv, Waited
<1>8. CASE /\ requests' = requests \ {r}
           /\ last' = Ended(last, "me", "failed")
           /\ UNCHANGED body
  <2>1. last'["me"] = IF last["me"] = "sent" THEN "failed" ELSE last["me"]
    BY <1>4, <1>8
  <2>2. MeInv'
    BY <1>5, <1>6, <1>8, <2>1 DEF MeInv
  <2> QED BY <1>2, <1>3, <1>4, <1>8, <2>2 DEF ReqInv
<1> QED BY <1>2, <1>7, <1>8

\* A request of the wizard's is of no concern to the session.
LEMMA ToWizardStep ==
  ASSUME ReqInv, MeInv, NEW r, r.kind \in {"create", "status"}, ToWizard(r),
         UNCHANGED session
  PROVE  /\ ReqInv' /\ MeInv'
         /\ last'["wizard"] = IF \E q \in requests : q.kind \in {"create", "status"}
                              THEN "raced" ELSE "ok"
<1>1. "me" \in Region /\ "wizard" \in Region
  BY DEF Region
<1>2. LastShape(last') /\ last'["me"] = last["me"]
  BY <1>1 DEF ReqInv, LastShape, ToWizard
<1>3. last'["wizard"] = IF \E q \in requests : q.kind \in {"create", "status"}
                        THEN "raced" ELSE "ok"
  BY <1>1 DEF ReqInv, LastShape, ToWizard
<1>4. Shaped(requests')
  BY DEF ReqInv, Shaped, ToWizard
<1>5. MeInv'
  BY <1>2, MeUnchanged DEF ToWizard, session
<1> QED BY <1>2, <1>3, <1>4, <1>5 DEF ReqInv, session

\* What AnswerCreate does to the requests and to how the last ones went.
Created(r, a, s) ==
  \/ s = "active" /\ requests' = requests \ {r} /\ last' = last
  \/ /\ s = "pending"
     /\ requests' = (requests \ {r})
          \cup {[kind |-> "status", key |-> KEY, app |-> a, was |-> s]}
     /\ last' = [last EXCEPT !["wizard"] =
          IF \E q \in requests : q.kind = "status" THEN "raced" ELSE @]

LEMMA CreatedStep ==
  ASSUME ReqInv, MeInv, NEW r \in requests, r.kind = "create", NEW a,
         NEW s \in {"pending", "active"}, Created(r, a, s), UNCHANGED session
  PROVE  /\ ReqInv' /\ MeInv'
         /\ last'["wizard"] = IF s = "pending" /\ \E q \in requests : q.kind = "status"
                              THEN "raced" ELSE last["wizard"]
<1>1. "me" \in Region /\ "wizard" \in Region
  BY DEF Region
<1>2. LastShape(last') /\ last'["me"] = last["me"]
  BY <1>1 DEF ReqInv, LastShape, Created
<1>3. last'["wizard"] = IF s = "pending" /\ \E q \in requests : q.kind = "status"
                        THEN "raced" ELSE last["wizard"]
  BY <1>1 DEF ReqInv, LastShape, Created
<1>4. Shaped(requests')
  BY DEF ReqInv, Shaped, Created
<1>5. MeInv'
  BY <1>2, MeUnchanged DEF Created, session
<1> QED BY <1>2, <1>3, <1>4, <1>5 DEF ReqInv, session

\* A created app is at its status, and the wizard with it.
LEMMA AnswerCreateShape ==
  ASSUME AnswerCreate
  PROVE  \E r \in requests, a \in App, s \in {"pending", "active"} :
           /\ r.kind = "create" /\ server[a] = "none"
           /\ server' = [server EXCEPT ![a] = s]
           /\ OB' = [OB EXCEPT !.app = a, !.active = (s = "active"),
                               !.step = IF s = "active" THEN 4 ELSE 3]
           /\ Created(r, a, s)
BY ZenonT(60) DEF AnswerCreate, Created

\* The session's invariant holds after every step.
LEMMA SessionStep ==
  ASSUME ReqInv, MeInv, [ConsoleNext]_consoleVars
  PROVE  ReqInv' /\ MeInv'
<1>1. CASE Connect
  BY <1>1, ConnectStep
<1>2. CASE AnswerMe
  BY <1>2, AnswerMeStep
<1>3. CASE Next2
  <2>1. ToWizard([kind |-> "create", key |-> KEY]) /\ UNCHANGED session
    BY <1>3 DEF Next2
  <2> QED BY <2>1, ToWizardStep
<1>4. CASE obStatus
  <2>1. ToWizard(Status(KEY, OB.app)) /\ UNCHANGED session
    BY <1>4 DEF obStatus
  <2>2. Status(KEY, OB.app).kind = "status"
    BY DEF Status
  <2> QED BY <2>1, <2>2, ToWizardStep
<1>5. CASE AnswerCreate
  <2>1. PICK r \in requests, a \in App, s \in {"pending", "active"} :
          r.kind = "create" /\ Created(r, a, s)
    BY <1>5, AnswerCreateShape, ZenonT(60)
  <2>2. UNCHANGED session
    BY <1>5 DEF AnswerCreate
  <2> QED BY <2>1, <2>2, CreatedStep
<1>6. CASE ~Loud
  <2>1. Quiet /\ UNCHANGED <<KEY, body>> /\ tab' \in Opened
    BY <1>6, QuietSteps, TabKept
  <2>2. ReqInv'
    BY <2>1 DEF Quiet, QuietFrom, ReqInv
  <2>3. MeInv'
    BY <2>1, MeUnchanged DEF Quiet, QuietFrom, Waited
  <2> QED BY <2>2, <2>3
<1> QED BY <1>1, <1>2, <1>3, <1>4, <1>5, <1>6 DEF Loud

LEMMA SessionInit == ConsoleInit => ReqInv /\ MeInv
<1> SUFFICES ASSUME ConsoleInit PROVE ReqInv /\ MeInv
  OBVIOUS
<1> DEFINE chains == IF KEY = NoKey THEN {} ELSE Loader[tab]
<1>1. chains \subseteq Chain
  BY LoaderChains, OpenedAssumption DEF ConsoleInit
<1>2. requests = {Load(c, KEY, filter) : c \in chains}
                   \cup IF KEY = NoKey THEN {} ELSE {Me(KEY)}
  BY DEF ConsoleInit
<1>3. \A c \in chains : Load(c, KEY, filter).kind = "load" /\ LoadShape(Load(c, KEY, filter))
  BY <1>1 DEF Load, LoadShape
<1>4. Shaped(requests)
  BY <1>2, <1>3 DEF Shaped, Me
<1>5. last = [el \in Region |->
             IF el \in {c[1].el : c \in chains} \/ (el = "me" /\ KEY # NoKey)
             THEN "sent" ELSE "none"]
  BY DEF ConsoleInit
<1>6. ASSUME NEW c \in chains PROVE c[1].el # "me"
  <2>1. 1 \in DOMAIN c /\ c \in Seq(Section)
    BY <1>1 DEF Chain
  <2>2. c[1] \in Section
    BY <2>1
  <2> QED BY <2>2 DEF Section, SectionName
<1>7. last["me"] = IF KEY # NoKey THEN "sent" ELSE "none"
  BY <1>5, <1>6 DEF Region
<1>8. \A r \in requests : r.kind = "me" => KEY # NoKey /\ r = Me(KEY)
  BY <1>2, <1>3
<1>9. MeInv
  BY <1>7, <1>8 DEF MeInv
<1>10. LastShape(last)
  BY <1>5 DEF LastShape
<1> QED BY <1>4, <1>9, <1>10 DEF ReqInv, ConsoleInit

LEMMA SessionInvariant == ConsoleSpec => [](ReqInv /\ MeInv)
<1>1. ReqInv /\ MeInv /\ [ConsoleNext]_consoleVars => (ReqInv /\ MeInv)'
  BY SessionStep
<1> QED BY <1>1, SessionInit, PTL DEF ConsoleSpec

\* "hide changes this role cannot make" (console.js, me()): when every request has
\* been answered and no two connections overlapped, the classes of the page are
\* those of the role of the key typed in, however many keys were tried before.
THEOREM ClassesFitTheKey == ConsoleSpec => []ChangesHidden
<1>1. ReqInv /\ MeInv => ChangesHidden
  BY DEF MeInv, ChangesHidden, Connected
<1> QED BY <1>1, SessionInvariant, PTL

-----------------------------------------------------------------------------
(* The wizard *)

Asked(rs) == {r \in rs : r.kind \in {"create", "status"}}

\* What a request of the wizard's knows of its app stays true of the app.
Knows(r) ==
  r.kind = "status" =>
    r.app \in App /\ (r.was = "active" => server[r.app] = "active")

OBShape ==
  OB = [team |-> OB.team, app |-> OB.app, active |-> OB.active, step |-> OB.step,
        cred |-> OB.cred]

ServerShape == server = [a \in App |-> server[a]]

\* As long as the wizard's requests do not overtake each other there is one of
\* them at a time, and none when the fourth step is reached.
InOrder ==
  /\ \A q, r \in Asked(requests) : q = r
  /\ OB.step = 4 =>
       Asked(requests) = {} /\ OB.active /\ OB.app \in App /\ server[OB.app] = "active"

WizInv ==
  /\ OBShape /\ ServerShape
  /\ \A r \in Asked(requests) : Knows(r)
  /\ OB.step = 3 => ~OB.active /\ OB.app \in App
  /\ last["wizard"] = "ok" => InOrder

\* A step that asks nothing more and gets to neither of the last two steps of the
\* wizard keeps the invariant.
LEMMA WizKept ==
  ASSUME WizInv, OBShape', OB'.step \in {1, 2} \/ (OB' = [OB EXCEPT !.cred = OB'.cred]),
         UNCHANGED server, last'["wizard"] = last["wizard"],
         \A r \in requests' : r.kind \in {"create", "status"} => r \in requests
  PROVE  WizInv'
<1>1. Asked(requests') \subseteq Asked(requests)
  BY DEF Asked
<1>2. ServerShape' /\ \A r \in Asked(requests') : Knows(r)'
  BY <1>1 DEF WizInv, ServerShape, Knows
<1>3. CASE OB'.step \in {1, 2}
  BY <1>1, <1>2, <1>3 DEF WizInv, InOrder
<1>4. CASE OB' = [OB EXCEPT !.cred = OB'.cred]
  <2>1. OB'.step = OB.step /\ OB'.active = OB.active /\ OB'.app = OB.app
    BY <1>4 DEF WizInv, OBShape
  <2> QED BY <1>1, <1>2, <2>1 DEF WizInv, InOrder
<1> QED BY <1>3, <1>4

LEMMA OBSetStep ==
  ASSUME OBShape, NEW n, OB' = [OB EXCEPT !.step = n]
  PROVE  OBShape' /\ OB'.step = n
BY DEF OBShape

LEMMA OBStays ==
  ASSUME OBShape, UNCHANGED OB
  PROVE  OBShape' /\ OB' = [OB EXCEPT !.cred = OB'.cred]
BY DEF OBShape

\* The steps that neither ask nor answer the wizard.
LEMMA WizBystanders ==
  ASSUME ReqInv, MeInv, WizInv, [ConsoleNext]_consoleVars,
         ~(Next2 \/ obStatus \/ AnswerCreate \/ AnswerStatus \/ Approve)
  PROVE  WizInv'
<1>1. /\ last'["wizard"] = last["wizard"]
      /\ \A r \in requests' : r.kind \in {"create", "status"} => r \in requests
  <2>1. CASE Connect
    BY <2>1, ConnectStep
  <2>2. CASE AnswerMe
    BY <2>2, AnswerMeStep
  <2>3. CASE ~Loud
    BY <2>3, QuietSteps DEF Quiet, QuietFrom, Waited
  <2> QED BY <2>1, <2>2, <2>3 DEF Loud
<1>2. CASE UNCHANGED <<OB, server>>
  BY <1>1, <1>2, OBStays, WizKept DEF WizInv
<1>3. CASE AnswerLoad
  <2>1. PICK r \in requests : Rendered(r.chain[1].el) /\ UNCHANGED server
    BY <1>3 DEF AnswerLoad
  <2>2. CASE OB' = [OB EXCEPT !.step = 1]
    BY <1>1, <2>1, <2>2, OBSetStep, WizKept DEF WizInv
  <2>3. CASE UNCHANGED OB
    BY <2>1, <2>3, <1>2
  <2> QED BY <2>1, <2>2, <2>3 DEF Rendered
<1>4. CASE Back2
  BY <1>1, <1>4, OBSetStep, WizKept DEF WizInv, Back2
<1>5. CASE Next1
  <2>1. PICK picked \in BOOLEAN :
          OB' = [OB EXCEPT !.team = picked, !.step = IF picked THEN 2 ELSE @]
    BY <1>5 DEF Next1
  <2>2. OBShape' /\ OB'.step \in {1, 2}
    BY <1>5, <2>1 DEF Next1, WizInv, OBShape
  <2> QED BY <1>1, <1>5, <2>2, WizKept DEF Next1
<1>6. CASE AnswerCredential
  <2>1. PICK r \in requests : OB' = [OB EXCEPT !.cred = r.app]
    BY <1>6 DEF AnswerCredential
  <2>2. OBShape' /\ OB' = [OB EXCEPT !.cred = OB'.cred]
    BY <2>1 DEF WizInv, OBShape
  <2> QED BY <1>1, <1>6, <2>2, WizKept DEF AnswerCredential
<1>7. ~(AnswerLoad \/ Back2 \/ Next1 \/ AnswerCredential) => UNCHANGED <<OB, server>>
  BY DEF ConsoleNext, User, Answer, consoleVars, wizard, Show, Connect, Click, Push,
    Look, Pick, Credential, EditFolder, TypeRule, AnswerMe, RefuseLoad, AnswerChange,
    RefuseChange, AnswerPush, RefuseWizard
<1> QED BY <1>2, <1>3, <1>4, <1>5, <1>6, <1>7

\* Asking: the request is the only one, or it has raced.
LEMMA WizAsks ==
  ASSUME ReqInv, MeInv, WizInv, Next2 \/ obStatus
  PROVE  WizInv'
<1>1. PICK r : /\ r.kind \in {"create", "status"} /\ ToWizard(r) /\ Knows(r)
               /\ UNCHANGED session
  <2>1. CASE Next2
    BY <2>1 DEF Next2, Knows
  <2>2. CASE obStatus
    <3>1. OB.app \in App
      BY <2>2 DEF obStatus, WizInv
    <3>2. /\ Status(KEY, OB.app).kind = "status" /\ Status(KEY, OB.app).app = OB.app
          /\ Status(KEY, OB.app).was = server[OB.app]
      BY DEF Status
    <3>3. Knows(Status(KEY, OB.app))
      BY <3>1, <3>2 DEF Knows
    <3> QED BY <2>2, <3>2, <3>3 DEF obStatus
  <2> QED BY <2>1, <2>2
<1>2. UNCHANGED <<OB, server>> /\ OB.step \in {2, 3}
  BY DEF Next2, obStatus, wizard
<1>3. last'["wizard"] = IF Asked(requests) # {} THEN "raced" ELSE "ok"
  BY <1>1, ToWizardStep DEF Asked
<1>4. Asked(requests') = Asked(requests) \cup {r}
  BY <1>1 DEF ToWizard, Asked
<1>5. OBShape' /\ ServerShape'
  BY <1>2 DEF WizInv, OBShape, ServerShape
<1>6. \A q \in Asked(requests') : Knows(q)'
  BY <1>1, <1>2, <1>4 DEF WizInv, Knows
<1> QED BY <1>2, <1>3, <1>4, <1>5, <1>6 DEF WizInv, InOrder

LEMMA OBMoves ==
  ASSUME OBShape, NEW a, NEW t, NEW n,
         OB' = [OB EXCEPT !.app = a, !.active = t, !.step = n]
  PROVE  OBShape' /\ OB'.app = a /\ OB'.active = t /\ OB'.step = n
BY DEF OBShape

LEMMA ServerMoves ==
  ASSUME ServerShape, NEW a \in App, NEW s, server' = [server EXCEPT ![a] = s]
  PROVE  /\ ServerShape' /\ server'[a] = s
         /\ \A b \in App : b # a => server'[b] = server[b]
BY DEF ServerShape

\* The app is created: the one request is gone, or turned into one for its status.
LEMMA WizCreated ==
  ASSUME ReqInv, MeInv, WizInv, AnswerCreate
  PROVE  WizInv'
<1>1. PICK r \in requests, a \in App, s \in {"pending", "active"} :
        /\ r.kind = "create" /\ server[a] = "none"
        /\ server' = [server EXCEPT ![a] = s]
        /\ OB' = [OB EXCEPT !.app = a, !.active = (s = "active"),
                            !.step = IF s = "active" THEN 4 ELSE 3]
        /\ Created(r, a, s)
  BY AnswerCreateShape
<1>2. UNCHANGED session
  BY DEF AnswerCreate
<1> DEFINE t == s = "active"
           n == IF s = "active" THEN 4 ELSE 3
<1>3. OBShape' /\ OB'.app = a /\ OB'.active = t /\ OB'.step = n
  <2>1. OB' = [OB EXCEPT !.app = a, !.active = t, !.step = n]
    BY <1>1
  <2> HIDE DEF t, n
  <2> QED BY <2>1, OBMoves DEF WizInv
<1>4. /\ ServerShape' /\ server'[a] = s
      /\ \A b \in App : b # a => server'[b] = server[b]
  BY <1>1, ServerMoves DEF WizInv
<1>5. last'["wizard"] = IF s = "pending" /\ \E p \in requests : p.kind = "status"
                        THEN "raced" ELSE last["wizard"]
  BY <1>1, <1>2, CreatedStep
<1>6. r \in Asked(requests)
  BY <1>1 DEF Asked
<1>7. \A p \in Asked(requests) : Knows(p)'
  BY <1>1, <1>4 DEF WizInv, Knows
<1>8. CASE s = "active"
  <2>1. Asked(requests') = Asked(requests) \ {r}
    BY <1>1, <1>8 DEF Created, Asked
  <2>2. last["wizard"] = "ok" => Asked(requests') = {}
    BY <1>6, <2>1 DEF WizInv, InOrder
  <2>3. OB'.step = 4 /\ OB'.active /\ OB'.app \in App /\ server'[OB'.app] = "active"
    BY <1>3, <1>4, <1>8
  <2>4. last'["wizard"] = last["wizard"]
    BY <1>5, <1>8
  <2>5. last'["wizard"] = "ok" => InOrder'
    BY <2>2, <2>3, <2>4 DEF InOrder
  <2>6. \A p \in Asked(requests') : Knows(p)'
    BY <1>7, <2>1
  <2> QED BY <1>3, <1>4, <2>3, <2>5, <2>6 DEF WizInv
<1>9. CASE s = "pending"
  <2>0. PICK q : q = [kind |-> "status", key |-> KEY, app |-> a, was |-> s]
    OBVIOUS
  <2>1. Asked(requests') = (Asked(requests) \ {r}) \cup {q}
    BY <1>1, <1>9, <2>0 DEF Created, Asked
  <2>2. q.kind = "status" /\ q.app = a /\ q.was = "pending"
    BY <1>9, <2>0
  <2>3. Knows(q)'
    BY <2>2, <1>1 DEF Knows
  <2>4. last["wizard"] = "ok" => Asked(requests') = {q}
    BY <1>6, <2>1 DEF WizInv, InOrder
  <2>5. ~OB'.active /\ OB'.step = 3
    BY <1>3, <1>9
  <2>6. last'["wizard"] = "ok" => last["wizard"] = "ok"
    BY <1>5
  <2>7. \A p \in Asked(requests') : Knows(p)'
    BY <1>7, <2>1, <2>3
  <2>8. last'["wizard"] = "ok" => InOrder'
    BY <2>4, <2>5, <2>6 DEF InOrder
  <2>9. OB'.app \in App
    BY <1>3
  <2> QED BY <1>3, <1>4, <2>5, <2>7, <2>8, <2>9 DEF WizInv
<1> QED BY <1>8, <1>9

\* An app read as active is active, and stays so.
LEMMA WizTold ==
  ASSUME ReqInv, WizInv, AnswerStatus
  PROVE  WizInv'
<1>0. PICK r \in requests :
        /\ r.kind = "status"
        /\ \E s \in {r.was, server[r.app]} :
             OB' = [OB EXCEPT !.app = r.app, !.active = (s = "active"),
                              !.step = IF s = "active" THEN 4 ELSE @]
        /\ requests' = requests \ {r}
        /\ UNCHANGED <<server, last>>
  BY DEF AnswerStatus
<1>1. PICK s \in {r.was, server[r.app]} :
        OB' = [OB EXCEPT !.app = r.app, !.active = (s = "active"),
                         !.step = IF s = "active" THEN 4 ELSE @]
  BY <1>0
<1>2. r \in Asked(requests) /\ r.app \in App /\ (s = "active" => server[r.app] = "active")
  BY <1>0, <1>1 DEF Asked, WizInv, Knows
<1> DEFINE t == s = "active"
           n == IF s = "active" THEN 4 ELSE OB.step
<1>3. OBShape' /\ OB'.app = r.app /\ OB'.active = t /\ OB'.step = n
  <2>1. OB' = [OB EXCEPT !.app = r.app, !.active = t, !.step = n]
    BY <1>1
  <2> HIDE DEF t, n
  <2> QED BY <2>1, OBMoves DEF WizInv
<1>4. Asked(requests') = Asked(requests) \ {r}
  BY <1>0 DEF Asked
<1>5. ServerShape' /\ \A p \in Asked(requests') : Knows(p)'
  BY <1>0, <1>4 DEF WizInv, ServerShape, Knows
<1>6. last["wizard"] = "ok" => Asked(requests') = {} /\ OB.step # 4
  BY <1>2, <1>4 DEF WizInv, InOrder
<1>7. OB'.step = 3 => ~OB'.active /\ OB'.app \in App
  <2>1. CASE s = "active"
    BY <1>3, <2>1
  <2>2. CASE s # "active"
    BY <1>2, <1>3, <2>2
  <2> QED BY <2>1, <2>2
<1>8. last'["wizard"] = "ok" => InOrder'
  <2> SUFFICES ASSUME last'["wizard"] = "ok" PROVE InOrder'
    OBVIOUS
  <2>1. Asked(requests') = {} /\ OB.step # 4
    BY <1>0, <1>6
  <2>2. CASE s = "active"
    BY <1>0, <1>2, <1>3, <2>1, <2>2 DEF InOrder
  <2>3. CASE s # "active"
    BY <1>3, <2>1, <2>3 DEF InOrder
  <2> QED BY <2>2, <2>3
<1> QED BY <1>3, <1>5, <1>7, <1>8 DEF WizInv

LEMMA WizApproved ==
  ASSUME WizInv, Approve
  PROVE  WizInv'
<1>1. PICK a \in App : server[a] = "pending" /\ server' = [server EXCEPT ![a] = "active"]
  BY DEF Approve
<1>2. UNCHANGED <<OB, requests, last>>
  BY DEF Approve, pageVars
<1>3. /\ ServerShape' /\ \A b \in App : server[b] = "active" => server'[b] = "active"
  BY <1>1, ServerMoves DEF WizInv
<1>4. OBShape' /\ \A r \in Asked(requests') : Knows(r)'
  BY <1>2, <1>3 DEF WizInv, OBShape, Knows
<1> QED BY <1>2, <1>3, <1>4 DEF WizInv, InOrder

LEMMA WizInit == ConsoleInit => WizInv
<1> SUFFICES ASSUME ConsoleInit PROVE WizInv
  OBVIOUS
<1> DEFINE chains == IF KEY = NoKey THEN {} ELSE Loader[tab]
<1>1. requests = {Load(c, KEY, filter) : c \in chains}
                   \cup IF KEY = NoKey THEN {} ELSE {Me(KEY)}
  BY DEF ConsoleInit
<1>2. Asked(requests) = {}
  BY <1>1 DEF Asked, Load, Me
<1>3. /\ OB = [team |-> FALSE, app |-> NoApp, active |-> FALSE, step |-> 1, cred |-> NoApp]
      /\ server = [a \in App |-> "none"]
  BY DEF ConsoleInit
<1>4. OBShape /\ ServerShape /\ OB.step = 1
  BY <1>3 DEF OBShape, ServerShape
<1> QED BY <1>2, <1>4 DEF WizInv, InOrder

\* The wizard waits only for an app it was not told is active, and offers the
\* credential only of an active one, unless its requests overtook each other
\* (console.js, ob-next2 and obStatus).
THEOREM WizardIsRight == ConsoleSpec => []WizardFits
<1>1. ReqInv /\ MeInv /\ WizInv /\ [ConsoleNext]_consoleVars => WizInv'
  BY WizBystanders, WizAsks, WizCreated, WizTold, WizApproved
<1>2. WizInv => WizardFits
  BY DEF WizInv, InOrder, WizardFits
<1> QED BY <1>1, <1>2, WizInit, SessionInvariant, PTL DEF ConsoleSpec

-----------------------------------------------------------------------------
(* The policy editor *)

RulesInv == rules = [of |-> EDITING, typed |-> rules.typed]

LEMMA RulesStep ==
  ASSUME RulesInv, [ConsoleNext]_consoleVars
  PROVE  RulesInv'
<1> DEFINE t == TRUE
           u == FALSE
<1>1. CASE AnswerLoad
  <2>1. /\ rules' = rules \/ (EDITING = NoFolder /\ rules' = [of |-> NoFolder, typed |-> u])
        /\ UNCHANGED EDITING
    BY <1>1 DEF AnswerLoad, Rendered
  <2> HIDE DEF u
  <2> QED BY <2>1 DEF RulesInv
<1>2. CASE EditFolder
  <2>1. \E f : EDITING' = f /\ rules' = [of |-> f, typed |-> u]
    BY <1>2 DEF EditFolder, editFolder
  <2> HIDE DEF u
  <2> QED BY <2>1 DEF RulesInv
<1>3. CASE TypeRule
  <2>1. rules' = [rules EXCEPT !.typed = t] /\ UNCHANGED EDITING
    BY <1>3, SMTT(60) DEF TypeRule
  <2> HIDE DEF t
  <2> QED BY <2>1 DEF RulesInv
<1>4. ~(AnswerLoad \/ EditFolder \/ TypeRule) => UNCHANGED editor
  BY ZenonT(60) DEF ConsoleNext, User, Answer, consoleVars, editor, Show, Connect, Click, Push,
    Look, Pick, Next1, Back2, Next2, obStatus, Credential, AnswerMe, RefuseLoad,
    AnswerChange, RefuseChange, AnswerPush, AnswerCreate, AnswerStatus,
    AnswerCredential, RefuseWizard, Approve
<1>5. UNCHANGED editor => RulesInv'
  BY DEF RulesInv, editor
<1> QED BY <1>1, <1>2, <1>3, <1>4, <1>5

\* The rules fe-save sends are those of the folder it sends them to, whatever was
\* loaded, opened and typed before (console.js, editFolder and loadPolicy).
THEOREM RulesAreOfTheFolder == ConsoleSpec => []RulesOfFolder
<1>1. ConsoleInit => RulesInv
  BY DEF ConsoleInit, RulesInv
<1>2. RulesInv => RulesOfFolder
  BY DEF RulesInv, RulesOfFolder
<1> QED BY <1>1, <1>2, RulesStep, PTL DEF ConsoleSpec

\* No answer, late or not, overwrites the rules being typed of a folder that
\* exists: loadPolicy() tests EDITING when it is answered, not when it asks.
THEOREM EditsAreKept == ConsoleSpec => AnswersKeepEdits
<1>1. ASSUME [ConsoleNext]_consoleVars, requests \ requests' # {}, EDITING # NoFolder
      PROVE  rules' = rules
  <2>1. CASE AnswerLoad
    BY <1>1, <2>1 DEF AnswerLoad, Rendered
  <2>2. ~(EditFolder \/ TypeRule)
    BY <1>1 DEF EditFolder, TypeRule, pageVars
  <2> QED
    BY <1>1, <2>1, <2>2 DEF ConsoleNext, User, Answer, consoleVars, editor, Show,
      Connect, Click, Push, Look, Pick, Next1, Back2, Next2, obStatus, Credential,
      AnswerMe, RefuseLoad, AnswerChange, RefuseChange, AnswerPush, AnswerCreate,
      AnswerStatus, AnswerCredential, RefuseWizard, Approve
<1> QED BY <1>1, PTL DEF ConsoleSpec, AnswersKeepEdits

-----------------------------------------------------------------------------
(* The page *)

\* The age of what is asked for now.
Young == FALSE

\* The loads of a region that are on their way are all the same.
Agree(rs, el) ==
  \A q, r \in Loads(rs, el) : q.key = r.key /\ q.arg = r.arg /\ q.old = r.old

\* The region shows what the loads on their way will show again.
Matches(rs, sh, el) ==
  \A r \in Loads(rs, el) :
    r.key \in ValidKey => sh[el] \in {Content(r.key, r.arg, r.old), Refused}

LoadFits(rs, l, sh, el) ==
  /\ l[el] \in {"sent", "ok"} => Agree(rs, el)
  /\ l[el] = "ok" => Matches(rs, sh, el)

\* A region that is asked for after others.
ToCome(rs, el) ==
  \E r \in rs : r.kind = "load" /\ \E i \in 2 .. Len(r.chain) : r.chain[i].el = el

\* What is on its way for a region is what the page needs now, and so is what the
\* region shows.
Current(rs, k, f, el) ==
  \A r \in Loads(rs, el) : r.key = k /\ r.arg = Arg(el, f) /\ r.old = Young

Fresh(sh, k, f, el) == sh[el] \in {Content(k, Arg(el, f), Young), Refused}

UpToDate(rs, l, sh, k, f, el) ==
  l[el] \in {"sent", "ok"} =>
    Current(rs, k, f, el) /\ (l[el] = "ok" => Fresh(sh, k, f, el))

Els(t) == {s.el : s \in Sections(Loader[t])}

\* The chains read the region, first or later.
Reads(chains, el) == \E c \in chains : \E i \in 1 .. Len(c) : c[i].el = el

LoadsFit(rs, l, sh) == \A el \in SectionName : LoadFits(rs, l, sh, el)

\* For each region of the tab the right content is shown, on its way or to come.
PageFits(rs, l, sh, k, f, els) ==
  \A el \in els : ToCome(rs, el) \/ UpToDate(rs, l, sh, k, f, el)

ShownShape ==
  /\ shown = [el \in Region |-> shown[el]]
  /\ \A el \in Region :
       \/ shown[el] \in {Blank, Refused}
       \/ \E k \in ValidKey : \E a, o : shown[el] = Content(k, a, o)
  /\ \A el \in OnlyPlain : shown[el] # Refused
  /\ filter = [el \in Filtered |-> filter[el]]

PageInv ==
  /\ ShownShape
  /\ LoadsFit(requests, last, shown)
  /\ last["me"] = "ok" =>
       KEY \in ValidKey /\ PageFits(requests, last, shown, KEY, filter, Els(tab))

LEMMA LoadIs ==
  ASSUME NEW c, NEW k, NEW f
  PROVE  /\ Load(c, k, f).kind = "load" /\ Load(c, k, f).chain = c
         /\ Load(c, k, f).key = k /\ Load(c, k, f).arg = Arg(c[1].el, f)
         /\ Load(c, k, f).old = Young
<1>1. Load(c, k, f) = [kind |-> "load", chain |-> c, key |-> k, arg |-> Arg(c[1].el, f),
                       old |-> Young]
  BY DEF Load, Young
<1> QED BY <1>1

\* The sections of the loaders.
LEMMA SectionsOfOne ==
  ASSUME NEW s
  PROVE  Sections({<<s>>}) = {s}
BY DEF Sections

LEMMA SectionsOfTwo ==
  ASSUME NEW s, NEW t
  PROVE  Sections({<<s, t>>}) = {s, t} /\ Sections({<<s>>, <<t>>}) = {s, t}
BY DEF Sections

LEMMA TabSections ==
  /\ Sections(Loader["overview"]) = {Plain("overview")}
  /\ Sections(Loader["onboard"]) = {Plain("onboard")}
  /\ Sections(Loader["inventory"]) = {Plain("inventory")}
  /\ Sections(Loader["approvals"]) = {Plain("approvals")}
  /\ Sections(Loader["discovery"]) = {Part("findings"), Part("sources")}
  /\ Sections(Loader["provisioning"]) = {Part("targets"), Part("installs")}
  /\ Sections(Loader["policy"]) = {Part("tree"), [Part("apps") EXCEPT !.at = "policy"]}
  /\ Sections(Loader["issuers"]) = {Plain("issuers")}
  /\ Sections(Loader["signing"]) = {Part("keys"), Part("signings")}
  /\ Sections(Loader["sshkeys"]) = {Plain("sshkeys")}
  /\ Sections(Loader["audit"]) = {Part("shipping"), Plain("audit")}
  /\ Sections(Loader["reports"]) = {Part("cas"), Plain("crypto")}
BY SectionsOfOne, SectionsOfTwo DEF Loader, loadOverview, loadOnboard, loadInventory,
  loadApprovals, loadDiscovery, loadProvisioning, loadPolicy, loadIssuers, loadSigning,
  loadSshKeys, loadAudit, loadReports

LEMMA SectionFields ==
  ASSUME NEW el
  PROVE  /\ Part(el).el = el /\ Part(el).guarded
         /\ Plain(el).el = el /\ ~Plain(el).guarded
         /\ [Part(el) EXCEPT !.at = "policy"].el = el
         /\ [Part(el) EXCEPT !.at = "policy"].guarded
BY DEF Part, Plain

LEMMA ElsOfOne ==
  ASSUME NEW t, NEW s, Sections(Loader[t]) = {s}
  PROVE  Els(t) = {s.el}
BY DEF Els

LEMMA ElsOfTwo ==
  ASSUME NEW t, NEW s, NEW u, Sections(Loader[t]) = {s, u}
  PROVE  Els(t) = {s.el, u.el}
BY DEF Els

\* The regions of the tabs.
LEMMA TabEls ==
  /\ Els("overview") = {"overview"} /\ Els("onboard") = {"onboard"}
  /\ Els("inventory") = {"inventory"} /\ Els("approvals") = {"approvals"}
  /\ Els("discovery") = {"findings", "sources"}
  /\ Els("provisioning") = {"targets", "installs"}
  /\ Els("policy") = {"tree", "apps"} /\ Els("issuers") = {"issuers"}
  /\ Els("signing") = {"keys", "signings"} /\ Els("sshkeys") = {"sshkeys"}
  /\ Els("audit") = {"shipping", "audit"} /\ Els("reports") = {"cas", "crypto"}
<1>1. Els("overview") = {"overview"} /\ Els("onboard") = {"onboard"}
  BY TabSections, SectionFields, ElsOfOne
<1>2. Els("inventory") = {"inventory"} /\ Els("approvals") = {"approvals"}
  BY TabSections, SectionFields, ElsOfOne
<1>3. Els("discovery") = {"findings", "sources"}
  BY TabSections, SectionFields, ElsOfTwo
<1>4. Els("provisioning") = {"targets", "installs"}
  BY TabSections, SectionFields, ElsOfTwo
<1>5. Els("policy") = {"tree", "apps"}
  <2> DEFINE p == [Part("apps") EXCEPT !.at = "policy"]
  <2>1. p.el = "apps" /\ Part("tree").el = "tree"
    BY SectionFields
  <2>2. Sections(Loader["policy"]) = {Part("tree"), p}
    BY TabSections
  <2> HIDE DEF p
  <2> QED BY <2>1, <2>2, ElsOfTwo
<1>6. Els("issuers") = {"issuers"} /\ Els("sshkeys") = {"sshkeys"}
  BY TabSections, SectionFields, ElsOfOne
<1>7. Els("signing") = {"keys", "signings"}
  BY TabSections, SectionFields, ElsOfTwo
<1>8. Els("audit") = {"shipping", "audit"}
  BY TabSections, SectionFields, ElsOfTwo
<1>9. Els("reports") = {"cas", "crypto"}
  BY TabSections, SectionFields, ElsOfTwo, SMTT(60)
<1> QED BY <1>1, <1>2, <1>3, <1>4, <1>5, <1>6, <1>7, <1>8, <1>9

\* No error is shown where the section of a tab is not guarded.
LEMMA TabGuards ==
  ASSUME NEW t \in Tab, NEW s \in Sections(Loader[t])
  PROVE  s.el \in Els(t) /\ (~s.guarded => s.el \in OnlyPlain)
<1>1. s.el \in Els(t)
  BY DEF Els
<1>2. t \in {"overview", "onboard", "inventory", "approvals", "discovery",
             "provisioning", "policy", "issuers", "signing", "sshkeys", "audit",
             "reports"}
  BY DEF Tab, Loader
<1>3. CASE t \in {"overview", "onboard", "inventory", "approvals", "issuers", "sshkeys"}
  <2>1. \E el \in {"overview", "onboard", "inventory", "approvals", "issuers", "sshkeys"} :
          s = Plain(el)
    BY <1>3, TabSections
  <2> QED BY <1>1, <2>1, SectionFields DEF OnlyPlain
<1>4. CASE t \in {"discovery", "provisioning", "signing"}
  <2>1. \E el : s = Part(el)
    BY <1>4, TabSections, ZenonT(60)
  <2> QED BY <1>1, <2>1, SectionFields
<1>6. CASE t = "policy"
  <2>1. s = Part("tree") \/ s = [Part("apps") EXCEPT !.at = "policy"]
    BY <1>6, TabSections
  <2> QED BY <1>1, <2>1, SectionFields, ZenonT(60)
<1>5. CASE t \in {"audit", "reports"}
  <2>1. s \in {Part("shipping"), Plain("audit"), Part("cas"), Plain("crypto")}
    BY <1>5, TabSections
  <2> QED BY <1>1, <2>1, SectionFields DEF OnlyPlain
<1> QED BY <1>2, <1>3, <1>4, <1>5, <1>6

LEMMA TabRegions ==
  ASSUME NEW t \in Tab
  PROVE  Els(t) \subseteq SectionName
<1>1. t \in {"overview", "onboard", "inventory", "approvals", "discovery",
             "provisioning", "policy", "issuers", "signing", "sshkeys", "audit",
             "reports"}
  BY DEF Tab, Loader
<1> QED BY <1>1, TabEls DEF SectionName

\* Every section has a region.
LEMMA SectionsHaveRegions == SectionName \subseteq Region
<1>1. ASSUME NEW t \in Tab PROVE Els(t) \subseteq Region
  BY DEF Els, Region, Sections
<1>2. {"overview", "onboard", "inventory", "approvals", "discovery", "provisioning",
       "policy", "issuers", "signing", "sshkeys", "audit", "reports"} \subseteq Tab
  BY DEF Tab, Loader
<1>3. {"runs", "policy", "scan"} \subseteq Region
  BY DEF Region
<1>4. {"overview", "onboard", "inventory", "approvals", "findings", "sources"}
        \subseteq Region
  BY <1>1, <1>2, TabEls
<1>5. {"targets", "installs", "tree", "apps", "issuers"} \subseteq Region
  BY <1>1, <1>2, TabEls
<1>6. {"keys", "signings", "sshkeys", "shipping", "audit", "cas", "crypto"}
        \subseteq Region
  BY <1>1, <1>2, TabEls
<1> QED BY <1>3, <1>4, <1>5, <1>6 DEF SectionName

-----------------------------------------------------------------------------
(* Loads that are started *)

IsHead(chains, el) == \E c \in chains : c[1].el = el

\* The loads of a region, after chains have been started.
LEMMA StartedLoads ==
  ASSUME NEW chains, NEW rs, NEW l, NEW k, NEW f, Start(chains, rs, l, k, f), NEW el
  PROVE  /\ Loads(rs, el) \subseteq Loads(requests', el)
         /\ ~IsHead(chains, el) => Loads(requests', el) = Loads(rs, el)
         /\ IsHead(chains, el) => Loads(requests', el) # {}
         /\ \A r \in Loads(requests', el) \ Loads(rs, el) :
              r.key = k /\ r.arg = Arg(el, f) /\ r.old = Young
<1>1. requests' = rs \cup {Load(c, k, f) : c \in chains}
  BY DEF Start
<1>2. ASSUME NEW r \in Loads(requests', el), r \notin rs
      PROVE  \E c \in chains : c[1].el = el /\ r = Load(c, k, f)
  BY <1>1, <1>2, LoadIs DEF Loads
<1>3. ASSUME NEW r \in Loads(requests', el), r \notin Loads(rs, el)
      PROVE  r \notin rs
  BY <1>3 DEF Loads
<1>4. ~IsHead(chains, el) => Loads(requests', el) \subseteq Loads(rs, el)
  BY <1>2, <1>3 DEF IsHead
<1>5. Loads(rs, el) \subseteq Loads(requests', el)
  BY <1>1 DEF Loads
<1>6. ASSUME NEW c \in chains, c[1].el = el PROVE Load(c, k, f) \in Loads(requests', el)
  BY <1>1, <1>6, LoadIs DEF Loads
<1>7. ASSUME NEW r \in Loads(requests', el) \ Loads(rs, el)
      PROVE  r.key = k /\ r.arg = Arg(el, f) /\ r.old = Young
  BY <1>2, <1>3, LoadIs
<1> QED BY <1>4, <1>5, <1>6, <1>7 DEF IsHead

\* How the last request for a region went, after chains have been started.
LEMMA StartedMarks ==
  ASSUME NEW chains, NEW rs, NEW l, NEW k, NEW f, Start(chains, rs, l, k, f),
         NEW el \in SectionName
  PROVE  /\ ~IsHead(chains, el) => last'[el] = l[el]
         /\ IsHead(chains, el) =>
              \/ last'[el] = "raced"
              \/ /\ Current(rs, k, f, el)
                 /\ last'[el] = IF Loads(rs, el) = {} THEN "sent" ELSE l[el]
<1> DEFINE Other == {r \in Loads(rs, el) :
                       <<r.key, r.arg, r.old>> # <<k, Arg(el, f), FALSE>>}
<1>1. el \in Region
  BY SectionsHaveRegions
<1>2. last'[el] = IF el \notin {c[1].el : c \in chains} THEN l[el]
                  ELSE IF Other # {} THEN "raced"
                  ELSE IF Loads(rs, el) # {} THEN l[el] ELSE "sent"
  BY <1>1, Zenon DEF Start, Marked
<1>3. Other = {} => Current(rs, k, f, el)
  BY DEF Current, Young
<1> HIDE DEF Other
<1>4. IsHead(chains, el) <=> el \in {c[1].el : c \in chains}
  BY DEF IsHead
<1> QED BY <1>2, <1>3, <1>4

\* Starting chains keeps what is known of the loads.
LEMMA StartKeepsLoads ==
  ASSUME NEW chains, NEW rs, NEW l, NEW k, NEW f, Start(chains, rs, l, k, f),
         NEW sh, LoadsFit(rs, l, sh)
  PROVE  LoadsFit(requests', last', sh)
<1> SUFFICES ASSUME NEW el \in SectionName
             PROVE  LoadFits(requests', last', sh, el)
  BY DEF LoadsFit
<1>1. LoadFits(rs, l, sh, el)
  BY DEF LoadsFit
<1>2. CASE ~IsHead(chains, el)
  <2>1. Loads(requests', el) = Loads(rs, el) /\ last'[el] = l[el]
    BY <1>2, StartedLoads, StartedMarks
  <2> QED BY <1>1, <2>1 DEF LoadFits, Agree, Matches
<1>3. CASE IsHead(chains, el) /\ last'[el] # "raced"
  <2>1. /\ Current(rs, k, f, el)
        /\ last'[el] = IF Loads(rs, el) = {} THEN "sent" ELSE l[el]
    BY <1>3, StartedMarks
  <2>2. \A r \in Loads(requests', el) : r.key = k /\ r.arg = Arg(el, f) /\ r.old = Young
    BY <2>1, StartedLoads DEF Current
  <2>3. Agree(requests', el)
    BY <2>2 DEF Agree
  <2>4. last'[el] = "ok" => Matches(requests', sh, el)
    <3> SUFFICES ASSUME last'[el] = "ok" PROVE Matches(requests', sh, el)
      OBVIOUS
    <3>1. l[el] = "ok" /\ Loads(rs, el) # {}
      BY <2>1
    <3>2. PICK q : q \in Loads(rs, el)
      BY <3>1
    <3>3. q.key = k /\ q.arg = Arg(el, f) /\ q.old = Young
      BY <2>1, <3>2 DEF Current
    <3>4. k \in ValidKey => sh[el] \in {Content(k, Arg(el, f), Young), Refused}
      BY <1>1, <3>1, <3>2, <3>3 DEF LoadFits, Matches
    <3> QED BY <2>2, <3>4 DEF Matches
  <2> QED BY <2>3, <2>4 DEF LoadFits
<1>4. CASE last'[el] = "raced"
  BY <1>4 DEF LoadFits
<1> QED BY <1>2, <1>3, <1>4

\* Once chains have been started, a region they read fits the page, and so does
\* one that fitted before.
LEMMA StartFits ==
  ASSUME NEW chains \in SUBSET Chain, NEW rs, NEW l, NEW k \in ValidKey, NEW f,
         Start(chains, rs, l, k, f), NEW sh, LoadsFit(rs, l, sh),
         NEW els \in SUBSET SectionName,
         \A el \in els :
           Reads(chains, el) \/ ToCome(rs, el) \/ UpToDate(rs, l, sh, k, f, el)
  PROVE  PageFits(requests', last', sh, k, f, els)
<1> SUFFICES ASSUME NEW el \in els
             PROVE  ToCome(requests', el) \/ UpToDate(requests', last', sh, k, f, el)
  BY DEF PageFits
<1>0. el \in SectionName
  OBVIOUS
<1>1. requests' = rs \cup {Load(c, k, f) : c \in chains}
  BY DEF Start
<1>2. CASE ToCome(rs, el)
  BY <1>1, <1>2 DEF ToCome
<1>3. CASE IsHead(chains, el)
  <2>1. CASE last'[el] = "raced"
    BY <2>1 DEF UpToDate
  <2>2. CASE last'[el] # "raced"
    <3>1. /\ Current(rs, k, f, el)
          /\ last'[el] = IF Loads(rs, el) = {} THEN "sent" ELSE l[el]
      BY <1>0, <1>3, <2>2, StartedMarks
    <3>2. Current(requests', k, f, el)
      BY <3>1, StartedLoads DEF Current
    <3>3. ASSUME last'[el] = "ok" PROVE Fresh(sh, k, f, el)
      <4>1. l[el] = "ok" /\ Loads(rs, el) # {}
        BY <3>1, <3>3
      <4>2. PICK q : q \in Loads(rs, el)
        BY <4>1
      <4>3. q.key = k /\ q.arg = Arg(el, f) /\ q.old = Young
        BY <3>1, <4>2 DEF Current
      <4>4. Matches(rs, sh, el)
        BY <1>0, <4>1 DEF LoadsFit, LoadFits
      <4> QED BY <4>2, <4>3, <4>4 DEF Matches, Fresh
    <3> QED BY <3>2, <3>3 DEF UpToDate
  <2> QED BY <2>1, <2>2
<1>4. CASE Reads(chains, el) /\ ~IsHead(chains, el)
  <2>1. PICK c \in chains : \E i \in 1 .. Len(c) : c[i].el = el
    BY <1>4 DEF Reads
  <2>2. PICK i \in 1 .. Len(c) : c[i].el = el
    BY <2>1
  <2>3. i # 1
    BY <1>4, <2>2 DEF IsHead
  <2>4. Len(c) \in Nat
    BY DEF Chain
  <2>5. i \in 2 .. Len(c)
    BY <2>2, <2>3, <2>4
  <2>6. Load(c, k, f) \in requests' /\ Load(c, k, f).kind = "load" /\ Load(c, k, f).chain = c
    BY <1>1, LoadIs
  <2> QED BY <2>2, <2>5, <2>6 DEF ToCome
<1>5. CASE UpToDate(rs, l, sh, k, f, el) /\ ~IsHead(chains, el)
  <2>1. Loads(requests', el) = Loads(rs, el) /\ last'[el] = l[el]
    BY <1>0, <1>5, StartedLoads, StartedMarks
  <2> QED BY <1>5, <2>1 DEF UpToDate, Current
<1> QED BY <1>2, <1>3, <1>4, <1>5

\* A start that leaves the page in order.
LEMMA PageStarts ==
  ASSUME NEW chains \in SUBSET Chain, NEW rs, NEW l, LoadsFit(rs, l, shown'),
         ShownShape', Start(chains, rs, l, KEY', filter'), tab' \in Tab,
         last'["me"] = "ok" =>
           /\ KEY' \in ValidKey
           /\ \A el \in Els(tab') :
                \/ Reads(chains, el) \/ ToCome(rs, el)
                \/ UpToDate(rs, l, shown', KEY', filter', el)
  PROVE  PageInv'
<1>1. LoadsFit(requests', last', shown')
  BY StartKeepsLoads
<1>2. ASSUME last'["me"] = "ok"
      PROVE  PageFits(requests', last', shown', KEY', filter', Els(tab'))
  <2>1. Els(tab') \subseteq SectionName
    BY TabRegions
  <2> QED BY <1>2, <2>1, StartFits
<1> QED BY <1>1, <1>2 DEF PageInv

\* A tab that is opened reads all its regions.
LEMMA TabReads ==
  ASSUME NEW t \in Tab, NEW el \in Els(t)
  PROVE  Reads(Loader[t], el)
<1>1. PICK s \in Sections(Loader[t]) : el = s.el
  BY DEF Els
<1>2. PICK c \in Loader[t] : s \in {c[i] : i \in DOMAIN c}
  BY DEF Sections
<1>3. PICK i \in DOMAIN c : s = c[i]
  BY <1>2
<1>4. i \in 1 .. Len(c)
  <2>1. c \in Seq(Section)
    BY LoaderChains DEF Chain
  <2> QED BY <1>3, <2>1
<1> QED BY <1>1, <1>3, <1>4 DEF Reads

-----------------------------------------------------------------------------
(* The steps and the page *)

OnlyLoads(rs) == {r \in rs : r.kind = "load"}

LEMMA SameLoads ==
  ASSUME NEW rs, NEW ss, OnlyLoads(ss) = OnlyLoads(rs), NEW el
  PROVE  Loads(ss, el) = Loads(rs, el) /\ (ToCome(rs, el) => ToCome(ss, el))
<1>1. Loads(ss, el) = {r \in OnlyLoads(ss) : r.chain[1].el = el}
  BY DEF Loads, OnlyLoads
<1>2. Loads(rs, el) = {r \in OnlyLoads(rs) : r.chain[1].el = el}
  BY DEF Loads, OnlyLoads
<1>3. ToCome(rs, el) => ToCome(ss, el)
  <2> SUFFICES ASSUME ToCome(rs, el) PROVE ToCome(ss, el)
    OBVIOUS
  <2>1. PICK r \in rs : r.kind = "load" /\ \E i \in 2 .. Len(r.chain) : r.chain[i].el = el
    BY DEF ToCome
  <2>2. r \in ss
    BY <2>1 DEF OnlyLoads
  <2> QED BY <2>1, <2>2 DEF ToCome
<1> QED BY <1>1, <1>2, <1>3

LEMMA SameFits ==
  ASSUME NEW rs, NEW ss, OnlyLoads(ss) = OnlyLoads(rs), NEW l, NEW m,
         \A el \in SectionName : m[el] = l[el], NEW sh, LoadsFit(rs, l, sh)
  PROVE  /\ LoadsFit(ss, m, sh)
         /\ \A el \in SectionName : \A k, f :
              UpToDate(rs, l, sh, k, f, el) => UpToDate(ss, m, sh, k, f, el)
<1>1. ASSUME NEW el \in SectionName PROVE LoadFits(ss, m, sh, el)
  BY SameLoads DEF LoadsFit, LoadFits, Agree, Matches
<1>2. ASSUME NEW el \in SectionName, NEW k, NEW f, UpToDate(rs, l, sh, k, f, el)
      PROVE  UpToDate(ss, m, sh, k, f, el)
  BY <1>2, SameLoads DEF UpToDate, Current
<1> QED BY <1>1, <1>2 DEF LoadsFit

LEMMA ShownStays == ASSUME ShownShape, UNCHANGED <<shown, filter>> PROVE ShownShape'
BY DEF ShownShape

\* A step that touches no load leaves the page as it was.
LEMMA PageStays ==
  ASSUME PageInv, UNCHANGED <<shown, filter>>, tab \in Tab,
         OnlyLoads(requests') = OnlyLoads(requests),
         \A el \in SectionName : last'[el] = last[el],
         last'["me"] = "ok" => last["me"] = "ok" /\ UNCHANGED <<KEY, tab>>
  PROVE  PageInv'
<1>1. ShownShape'
  BY ShownStays DEF PageInv
<1>2. LoadsFit(requests', last', shown')
  BY SameFits DEF PageInv
<1>3. ASSUME last'["me"] = "ok"
      PROVE  PageFits(requests', last', shown', KEY', filter', Els(tab'))
  <2>1. PageFits(requests, last, shown, KEY, filter, Els(tab))
    BY <1>3 DEF PageInv
  <2>2. ASSUME NEW el \in Els(tab)
        PROVE  \/ ToCome(requests', el)
               \/ UpToDate(requests', last', shown, KEY, filter, el)
    <3>1. el \in SectionName
      BY TabRegions
    <3> QED BY <2>1, <3>1, SameLoads, SameFits DEF PageFits, PageInv
  <2> QED BY <1>3, <2>2 DEF PageFits
<1> QED BY <1>1, <1>2, <1>3 DEF PageInv

\* The session's and the wizard's own marks are of no region.
LEMMA MarksAside ==
  ASSUME LastShape(last), NEW el \in SectionName, NEW x \in {"me", "wizard"}, NEW v,
         last' = [last EXCEPT ![x] = v]
  PROVE  last'[el] = last[el] /\ (x = "wizard" => last'["me"] = last["me"])
                              /\ (x = "me" => last'["me"] = v)
<1>1. el # "me" /\ el # "wizard"
  BY DEF SectionName
<1>2. el \in Region /\ "me" \in Region /\ "wizard" \in Region
  BY SectionsHaveRegions DEF Region
<1> QED BY <1>1, <1>2 DEF LastShape

\* Requests that are no loads come and go.
LEMMA LoadsAside ==
  ASSUME NEW rs, NEW r, r.kind # "load"
  PROVE  /\ OnlyLoads(rs \cup {r}) = OnlyLoads(rs)
         /\ OnlyLoads(rs \ {r}) = OnlyLoads(rs)
BY DEF OnlyLoads

LEMMA TabIsTab == ASSUME ReqInv PROVE tab \in Tab
BY OpenedAssumption DEF ReqInv

LEMMA PageIdle ==
  ASSUME ReqInv, PageInv, UNCHANGED <<session, requests, shown, last, filter>>
  PROVE  PageInv'
BY PageStays, TabIsTab DEF session

LEMMA PageSends ==
  ASSUME ReqInv, PageInv, NEW r, r.kind # "load", Send(r),
         UNCHANGED <<session, shown, filter>>
  PROVE  PageInv'
<1>1. OnlyLoads(requests') = OnlyLoads(requests) /\ UNCHANGED last
  BY LoadsAside DEF Send
<1> QED BY <1>1, PageStays, TabIsTab DEF session

LEMMA PageDrops ==
  ASSUME ReqInv, PageInv, NEW r, r.kind # "load", requests' = requests \ {r},
         UNCHANGED <<last, session, shown, filter>>
  PROVE  PageInv'
<1>1. OnlyLoads(requests') = OnlyLoads(requests)
  BY LoadsAside
<1> QED BY <1>1, PageStays, TabIsTab DEF session

LEMMA PageConnect ==
  ASSUME ReqInv, PageInv, Connect
  PROVE  PageInv'
<1> DEFINE v == IF \E r \in requests : r.kind = "me" THEN "raced" ELSE "sent"
<1>1. /\ last' = [last EXCEPT !["me"] = v] /\ v # "ok"
      /\ requests' = requests \cup {Me(KEY')} /\ UNCHANGED <<shown, filter>>
  BY DEF Connect
<1>2. OnlyLoads(requests') = OnlyLoads(requests)
  <2>1. Me(KEY').kind # "load"
    BY DEF Me
  <2> QED BY <1>1, <2>1, LoadsAside
<1>3. "me" \in Region
  BY DEF Region
<1>4. last'["me"] # "ok"
  BY <1>1, <1>3 DEF ReqInv, LastShape
<1> HIDE DEF v
<1>5. \A el \in SectionName : last'[el] = last[el]
  BY <1>1, MarksAside DEF ReqInv
<1> QED BY <1>1, <1>2, <1>4, <1>5, PageStays, TabIsTab

LEMMA PageToWizard ==
  ASSUME ReqInv, PageInv, NEW r, r.kind # "load", ToWizard(r),
         UNCHANGED <<session, shown, filter>>
  PROVE  PageInv'
<1> DEFINE v == IF \E q \in requests : q.kind \in {"create", "status"} THEN "raced"
                ELSE "ok"
<1>1. last' = [last EXCEPT !["wizard"] = v] /\ requests' = requests \cup {r}
  BY DEF ToWizard
<1> HIDE DEF v
<1>2. /\ \A el \in SectionName : last'[el] = last[el]
      /\ last'["me"] = last["me"]
  <2>1. "overview" \in SectionName
    BY DEF SectionName
  <2> QED BY <1>1, <2>1, MarksAside DEF ReqInv
<1>3. OnlyLoads(requests') = OnlyLoads(requests)
  BY <1>1, LoadsAside
<1> QED BY <1>2, <1>3, PageStays, TabIsTab DEF session

LEMMA PageCreated ==
  ASSUME ReqInv, PageInv, AnswerCreate
  PROVE  PageInv'
<1>1. PICK r \in requests, a \in App, s \in {"pending", "active"} :
        r.kind = "create" /\ Created(r, a, s)
  BY AnswerCreateShape, ZenonT(60)
<1>2. UNCHANGED <<session, shown, filter>>
  BY DEF AnswerCreate
<1>3. CASE s = "active"
  <2>1. requests' = requests \ {r} /\ last' = last
    BY <1>1, <1>3 DEF Created
  <2> QED BY <1>1, <1>2, <2>1, PageDrops
<1>4. CASE s = "pending"
  <2> DEFINE v == IF \E q \in requests : q.kind = "status" THEN "raced"
                  ELSE last["wizard"]
             q == [kind |-> "status", key |-> KEY, app |-> a, was |-> s]
  <2>1. requests' = (requests \ {r}) \cup {q} /\ last' = [last EXCEPT !["wizard"] = v]
    BY <1>1, <1>4 DEF Created
  <2>2. q.kind # "load"
    OBVIOUS
  <2> HIDE DEF v, q
  <2>3. /\ \A el \in SectionName : last'[el] = last[el]
        /\ last'["me"] = last["me"]
    <3>1. "overview" \in SectionName
      BY DEF SectionName
    <3> QED BY <2>1, <3>1, MarksAside DEF ReqInv
  <2>4. OnlyLoads(requests') = OnlyLoads(requests)
    BY <1>1, <2>1, <2>2, LoadsAside, ZenonT(60)
  <2> QED BY <1>2, <2>3, <2>4, PageStays, TabIsTab DEF session
<1> QED BY <1>3, <1>4

\* The steps of the session and the wizard, and those that ask nothing for a region.
LEMMA PageBystanders ==
  ASSUME ReqInv, PageInv,
         \/ UNCHANGED consoleVars
         \/ Connect \/ Click \/ Push \/ Credential \/ Next1 \/ Back2 \/ Next2 \/ obStatus
         \/ EditFolder \/ TypeRule \/ Approve
         \/ AnswerCreate \/ AnswerStatus \/ AnswerCredential \/ RefuseWizard
  PROVE  PageInv'
<1>1. CASE \/ UNCHANGED consoleVars \/ Next1 \/ Back2 \/ EditFolder \/ TypeRule \/ Approve
  BY <1>1, PageIdle DEF consoleVars, pageVars, Next1, Back2, EditFolder, TypeRule, Approve
<1>2. CASE Connect
  BY <1>2, PageConnect
<1>3. CASE Click
  <2>1. PICK c \in Change : Send([kind |-> "change", key |-> KEY, el |-> c.el])
    BY <1>3 DEF Click
  <2> QED BY <1>3, <2>1, PageSends DEF Click
<1>4. CASE Push
  BY <1>4, PageSends DEF Push
<1>5. CASE Credential
  BY <1>5, PageSends DEF Credential
<1>6. CASE Next2
  BY <1>6, PageToWizard DEF Next2
<1>7. CASE obStatus
  <2>1. Status(KEY, OB.app).kind # "load"
    BY DEF Status
  <2> QED BY <1>7, <2>1, PageToWizard DEF obStatus
<1>8. CASE AnswerCreate
  BY <1>8, PageCreated
<1>9. CASE AnswerStatus \/ AnswerCredential \/ RefuseWizard
  BY <1>9, PageDrops DEF AnswerStatus, AnswerCredential, RefuseWizard
<1> QED BY <1>1, <1>2, <1>3, <1>4, <1>5, <1>6, <1>7, <1>8, <1>9

-----------------------------------------------------------------------------
(* The steps that ask for regions *)

\* Starting chains for the tab and the filters as they are.
LEMMA PageAsks ==
  ASSUME ReqInv, PageInv, NEW chains \in SUBSET Chain, NEW rs, Shaped(rs),
         OnlyLoads(rs) = OnlyLoads(requests), Start(chains, rs, last, KEY, filter),
         UNCHANGED <<session, shown, filter>>
  PROVE  PageInv'
<1>2. LoadsFit(rs, last, shown)
  BY SameFits DEF PageInv
<1>3. last'["me"] = last["me"]
  BY StartIsQuiet DEF ReqInv, QuietFrom
<1>4. ASSUME last["me"] = "ok", NEW el \in Els(tab)
      PROVE  \/ ToCome(rs, el)
             \/ UpToDate(rs, last, shown, KEY, filter, el)
  <2>1. ToCome(requests, el) \/ UpToDate(requests, last, shown, KEY, filter, el)
    BY <1>4 DEF PageInv, PageFits
  <2>2. el \in SectionName
    BY TabRegions, TabIsTab
  <2> QED BY <2>1, <2>2, SameLoads, SameFits DEF PageInv
<1>5. ShownShape'
  BY ShownStays DEF PageInv
<1>6. UNCHANGED <<KEY, tab>>
  BY DEF session
<1>7. last["me"] = "ok" => KEY \in ValidKey
  BY DEF PageInv
<1> QED BY <1>2, <1>3, <1>4, <1>5, <1>6, <1>7, PageStarts, TabIsTab

LEMMA PageLook == ASSUME ReqInv, PageInv, Look PROVE PageInv'
<1>1. UNCHANGED <<session, shown, filter>> /\ Shaped(requests)
  BY DEF Look, ReqInv
<1>2. CASE Start(showRuns, requests, last, KEY, filter)
  BY <1>1, <1>2, PageAsks, LoaderChains
<1>3. CASE Start({<<Part("scan")>>}, requests, last, KEY, filter)
  BY <1>1, <1>3, PageAsks, LoaderChains
<1> QED BY <1>2, <1>3 DEF Look

LEMMA PageRefuseChange == ASSUME ReqInv, PageInv, RefuseChange PROVE PageInv'
<1>1. UNCHANGED <<session, shown, filter>>
  BY DEF RefuseChange
<1>2. PICK r \in requests :
        /\ r.kind = "change"
        /\ \/ Start(loadSources, requests \ {r}, last, KEY, filter)
           \/ requests' = requests \ {r} /\ UNCHANGED last
  BY DEF RefuseChange
<1>3. OnlyLoads(requests \ {r}) = OnlyLoads(requests) /\ Shaped(requests \ {r})
  BY <1>2, LoadsAside DEF ReqInv, Shaped
<1>4. CASE Start(loadSources, requests \ {r}, last, KEY, filter)
  BY <1>1, <1>3, <1>4, PageAsks, LoaderChains
<1>5. CASE requests' = requests \ {r} /\ UNCHANGED last
  BY <1>1, <1>2, <1>5, PageDrops
<1> QED BY <1>2, <1>4, <1>5

LEMMA PageShow == ASSUME ReqInv, PageInv, Show PROVE PageInv'
<1>1. UNCHANGED <<KEY, shown, filter>> /\ tab' \in Tab /\ ShownShape'
  BY OpenedAssumption, ShownStays DEF Show, PageInv
<1>2. CASE KEY = NoKey
  <2>1. UNCHANGED <<requests, last>>
    BY <1>2 DEF Show
  <2>2. last["me"] # "ok"
    BY <1>2, ConsoleAssumption DEF PageInv, Key
  <2> QED BY <1>1, <2>1, <2>2 DEF PageInv
<1>3. CASE KEY # NoKey
  <2>1. Start(Loader[tab'], requests, last, KEY, filter)
    BY <1>3 DEF Show
  <2>2. Loader[tab'] \subseteq Chain
    BY <1>1, LoaderChains
  <2>3. last'["me"] = last["me"]
    BY <2>1, <2>2, StartIsQuiet DEF ReqInv, QuietFrom
  <2>4. LoadsFit(requests, last, shown) /\ (last["me"] = "ok" => KEY \in ValidKey)
    BY DEF PageInv
  <2> QED BY <1>1, <2>1, <2>2, <2>3, <2>4, TabReads, PageStarts
<1> QED BY <1>2, <1>3

\* Who the key is of is told: the tab is read again.
LEMMA PageMe == ASSUME ReqInv, MeInv, PageInv, AnswerMe PROVE PageInv'
<1>1. PICK r \in requests :
        /\ r.kind = "me"
        /\ \/ /\ r.key \in ValidKey
              /\ Start(Loader[tab], requests \ {r}, Ended(last, "me", "ok"), KEY, filter)
           \/ /\ requests' = requests \ {r}
              /\ last' = Ended(last, "me", "failed")
  BY DEF AnswerMe
<1>2. UNCHANGED <<KEY, tab, shown, filter>>
  BY DEF AnswerMe
<1>3. OnlyLoads(requests \ {r}) = OnlyLoads(requests) /\ Shaped(requests \ {r})
  BY <1>1, LoadsAside DEF ReqInv, Shaped
<1>4. ASSUME NEW how
      PROVE  /\ \A el \in SectionName : Ended(last, "me", how)[el] = last[el]
             /\ LastShape(Ended(last, "me", how))
             /\ Ended(last, "me", how)["me"] = IF last["me"] = "sent" THEN how ELSE last["me"]
  <2>1. \A el \in SectionName : el # "me"
    BY DEF SectionName
  <2>2. "me" \in Region
    BY DEF Region
  <2> QED BY <2>1, <2>2, SectionsHaveRegions DEF Ended, ReqInv, LastShape
<1>5. CASE /\ r.key \in ValidKey
           /\ Start(Loader[tab], requests \ {r}, Ended(last, "me", "ok"), KEY, filter)
  <2> DEFINE l == Ended(last, "me", "ok")
  <2>1. LoadsFit(requests \ {r}, l, shown)
    BY <1>3, <1>4, SameFits DEF PageInv
  <2>2. Loader[tab] \subseteq Chain
    BY TabIsTab, LoaderChains
  <2>3. last'["me"] = l["me"]
    BY <1>3, <1>4, <1>5, <2>2, StartIsQuiet DEF QuietFrom
  <2>4. last'["me"] = "ok" => KEY \in ValidKey
    <3>1. last["me"] \in {"sent", "raced"}
      BY <1>1 DEF MeInv
    <3>2. last["me"] = "sent" => r.key = KEY
      BY <1>1 DEF MeInv, Me
    <3> QED BY <1>4, <1>5, <2>3, <3>1, <3>2
  <2>5. ShownShape'
    BY <1>2, ShownStays DEF PageInv
  <2> HIDE DEF l
  <2>6. Start(Loader[tab'], requests \ {r}, l, KEY', filter')
    BY <1>2, <1>5 DEF l
  <2> QED BY <1>2, <2>1, <2>2, <2>4, <2>5, <2>6, TabIsTab, TabReads, PageStarts
<1>6. CASE requests' = requests \ {r} /\ last' = Ended(last, "me", "failed")
  <2>1. last'["me"] = "ok" => last["me"] = "ok"
    BY <1>4, <1>6
  <2> QED BY <1>2, <1>3, <1>4, <1>6, <2>1, PageStays, TabIsTab
<1> QED BY <1>1, <1>5, <1>6

\* Another choice: its own list is read again, the others do not depend on it.
LEMMA PageOtherChoice ==
  ASSUME ReqInv, PageInv, NEW x \in Filtered, NEW v, filter' = [filter EXCEPT ![x] = v],
         UNCHANGED <<session, shown>>, NEW chains \in SUBSET Chain,
         Start(chains, requests, last, KEY, filter'),
         x \in Els(tab) => Reads(chains, x)
  PROVE  PageInv'
<1>1. ShownShape' /\ \A el : el # x => Arg(el, filter') = Arg(el, filter)
  BY DEF PageInv, ShownShape, Arg
<1>2. LoadsFit(requests, last, shown)
  BY DEF PageInv
<1>3. last'["me"] = last["me"]
  BY StartIsQuiet DEF ReqInv, QuietFrom
<1>4. ASSUME last["me"] = "ok", NEW el \in Els(tab), el # x
      PROVE  \/ ToCome(requests, el)
             \/ UpToDate(requests, last, shown, KEY, filter', el)
  <2>1. ToCome(requests, el) \/ UpToDate(requests, last, shown, KEY, filter, el)
    BY <1>4 DEF PageInv, PageFits
  <2> QED BY <1>1, <1>4, <2>1 DEF UpToDate, Current, Fresh
<1>5. UNCHANGED <<KEY, tab>>
  BY DEF session
<1>6. last["me"] = "ok" => KEY \in ValidKey
  BY DEF PageInv
<1> QED BY <1>1, <1>2, <1>3, <1>4, <1>5, <1>6, PageStarts, TabIsTab

LEMMA PagePick == ASSUME ReqInv, PageInv, Pick PROVE PageInv'
<1>1. PICK v \in Choice \cup {NoChoice} :
        \/ /\ tab = "discovery" /\ filter' = [filter EXCEPT !["findings"] = v]
           /\ Start(loadFindings, requests, last, KEY, filter')
        \/ /\ tab = "sshkeys" /\ filter' = [filter EXCEPT !["sshkeys"] = v]
           /\ Start(loadSshKeys, requests, last, KEY, filter')
        \/ /\ tab = "policy" /\ filter' = [filter EXCEPT !["policy"] = v]
           /\ Start(IF v = NoChoice THEN {} ELSE loadEffective, requests, last, KEY,
                    filter')
  BY DEF Pick
<1>2. UNCHANGED <<session, shown>>
  BY DEF Pick
<1>3. ASSUME NEW el PROVE Reads({<<Plain(el)>>}, el)
  <2>1. Len(<<Plain(el)>>) = 1 /\ <<Plain(el)>>[1].el = el
    BY SectionFields
  <2> QED BY <2>1 DEF Reads
<1>4. CASE /\ tab = "discovery" /\ filter' = [filter EXCEPT !["findings"] = v]
           /\ Start(loadFindings, requests, last, KEY, filter')
  <2>1. Reads(loadFindings, "findings") /\ loadFindings \subseteq Chain
    BY <1>3, LoaderChains DEF loadFindings
  <2> QED BY <1>2, <1>4, <2>1, PageOtherChoice DEF Filtered
<1>5. CASE /\ tab = "sshkeys" /\ filter' = [filter EXCEPT !["sshkeys"] = v]
           /\ Start(loadSshKeys, requests, last, KEY, filter')
  <2>1. Reads(loadSshKeys, "sshkeys") /\ loadSshKeys \subseteq Chain
    BY <1>3, LoaderChains DEF loadSshKeys
  <2> QED BY <1>2, <1>5, <2>1, PageOtherChoice DEF Filtered
<1>6. CASE /\ tab = "policy" /\ filter' = [filter EXCEPT !["policy"] = v]
           /\ Start(IF v = NoChoice THEN {} ELSE loadEffective, requests, last, KEY,
                    filter')
  <2> DEFINE chains == IF v = NoChoice THEN {} ELSE loadEffective
  <2>1. "policy" \notin Els(tab)
    BY <1>6, TabEls
  <2>2. chains \subseteq Chain
    BY LoaderChains
  <2>3. Start(chains, requests, last, KEY, filter')
    BY <1>6
  <2> HIDE DEF chains
  <2> QED BY <1>2, <1>6, <2>1, <2>2, <2>3, PageOtherChoice DEF Filtered
<1> QED BY <1>1, <1>4, <1>5, <1>6

-----------------------------------------------------------------------------
(* The answers to loads *)

\* A load that is answered takes nothing from the others, and its chain goes on.
LEMMA LoadTaken ==
  ASSUME NEW rs, NEW r \in rs, r.kind = "load", LoadShape(r), NEW el
  PROVE  /\ Loads(rs \ {r}, el) \subseteq Loads(rs, el)
         /\ el # r.chain[1].el => Loads(rs \ {r}, el) = Loads(rs, el)
         /\ el = r.chain[1].el => r \in Loads(rs, el)
         /\ ToCome(rs, el) => ToCome(rs \ {r}, el) \/ Reads(Rest(r), el)
<1>1. /\ Loads(rs \ {r}, el) \subseteq Loads(rs, el)
      /\ el # r.chain[1].el => Loads(rs \ {r}, el) = Loads(rs, el)
      /\ el = r.chain[1].el => r \in Loads(rs, el)
  BY DEF Loads
<1>2. ASSUME ToCome(rs, el) PROVE ToCome(rs \ {r}, el) \/ Reads(Rest(r), el)
  <2>1. PICK q \in rs : q.kind = "load" /\ \E i \in 2 .. Len(q.chain) : q.chain[i].el = el
    BY <1>2 DEF ToCome
  <2>2. CASE q # r
    BY <2>1, <2>2 DEF ToCome
  <2>3. CASE q = r
    <3>1. PICK i \in 2 .. Len(r.chain) : r.chain[i].el = el
      BY <2>1, <2>3
    <3>2. r.chain \in Seq(Section) /\ r.chain # <<>> /\ Len(r.chain) \in Nat
      BY DEF LoadShape, Chain
    <3>3. /\ Len(Tail(r.chain)) = Len(r.chain) - 1
          /\ \A j \in 1 .. Len(r.chain) - 1 : Tail(r.chain)[j] = r.chain[j + 1]
      BY <3>2, HeadTailProperties
    <3>4. i - 1 \in 1 .. Len(Tail(r.chain)) /\ Tail(r.chain)[i - 1] = r.chain[i]
      BY <3>1, <3>2, <3>3
    <3>5. Rest(r) = {Tail(r.chain)}
      BY <3>1, <3>2 DEF Rest
    <3> QED BY <3>1, <3>4, <3>5 DEF Reads
  <2> QED BY <2>2, <2>3
<1> QED BY <1>1, <1>2

LEMMA EndedIs ==
  ASSUME NEW l, LastShape(l), NEW x \in SectionName, NEW how, NEW el \in SectionName
  PROVE  Ended(l, x, how)[el] = IF el = x /\ l[el] = "sent" THEN how ELSE l[el]
<1>1. x \in Region /\ el \in Region
  BY SectionsHaveRegions
<1> QED BY <1>1 DEF LastShape, Ended

\* What a load that is answered or refused leaves: how the last went for its
\* region, and what is shown there.
LEMMA TakenFits ==
  ASSUME ReqInv, PageInv, NEW r \in requests, r.kind = "load", LoadShape(r), NEW how, NEW sh,
         \A el \in SectionName :
           \/ sh[el] = shown[el] \/ sh[el] = Refused
           \/ /\ el = r.chain[1].el /\ r.key \in ValidKey
              /\ sh[el] = Content(r.key, r.arg, r.old),
         how = "ok" =>
           \/ sh[r.chain[1].el] = Refused
           \/ r.key \in ValidKey /\ sh[r.chain[1].el] = Content(r.key, r.arg, r.old),
         how # "sent"
  PROVE  LET l == Ended(last, r.chain[1].el, how)
         IN  /\ LoadsFit(requests \ {r}, l, sh)
             /\ last["me"] = "ok" =>
                  \A el \in Els(tab) :
                    \/ Reads(Rest(r), el) \/ ToCome(requests \ {r}, el)
                    \/ UpToDate(requests \ {r}, l, sh, KEY, filter, el)
<1> DEFINE x == r.chain[1].el
           l == Ended(last, x, how)
           rs == requests \ {r}
<1>1. x \in SectionName
  BY RestChains
<1>2. \A el \in SectionName : l[el] = IF el = x /\ last[el] = "sent" THEN how ELSE last[el]
  BY <1>1, EndedIs DEF ReqInv
<1>3. r \in Loads(requests, x)
  BY LoadTaken
<1>4. \A el : Loads(rs, el) \subseteq Loads(requests, el)
  BY LoadTaken
<1> HIDE DEF l, rs
<1>5. ASSUME NEW el \in SectionName PROVE LoadFits(rs, l, sh, el)
  <2>1. LoadFits(requests, last, shown, el)
    BY DEF PageInv, LoadsFit
  <2>2. ASSUME l[el] \in {"sent", "ok"} PROVE Agree(rs, el) /\ Agree(requests, el)
    <3>1. last[el] \in {"sent", "ok"}
      BY <1>2, <2>2
    <3> QED BY <1>4, <2>1, <3>1 DEF LoadFits, Agree
  <2>3. ASSUME l[el] = "ok" PROVE Matches(rs, sh, el)
    <3>1. CASE sh[el] = Refused
      BY <3>1 DEF Matches
    <3>2. CASE /\ el = x /\ r.key \in ValidKey
               /\ sh[el] = Content(r.key, r.arg, r.old)
      BY <1>3, <1>4, <2>2, <2>3, <3>2 DEF Matches, Agree
    <3>3. CASE sh[el] = shown[el] /\ ~(el = x /\ last[el] = "sent")
      <4>1. Matches(requests, shown, el)
        BY <1>2, <2>1, <2>3, <3>3 DEF LoadFits
      <4> QED BY <1>4, <3>3, <4>1 DEF Matches
    <3>4. el = x /\ last[el] = "sent" => how = "ok"
      BY <1>2, <2>3
    <3> QED BY <3>1, <3>2, <3>3, <3>4
  <2> QED BY <2>2, <2>3 DEF LoadFits
<1>6. ASSUME last["me"] = "ok", NEW el \in Els(tab), ~Reads(Rest(r), el), ~ToCome(rs, el)
      PROVE  UpToDate(rs, l, sh, KEY, filter, el)
  <2>0. el \in SectionName
    BY TabRegions, TabIsTab
  <2>1. UpToDate(requests, last, shown, KEY, filter, el)
    <3>1. ~ToCome(requests, el)
      BY <1>6, LoadTaken DEF rs
    <3> QED BY <1>6, <3>1 DEF PageInv, PageFits
  <2> SUFFICES ASSUME l[el] \in {"sent", "ok"}
               PROVE  /\ Current(rs, KEY, filter, el)
                      /\ l[el] = "ok" => Fresh(sh, KEY, filter, el)
    BY DEF UpToDate
  <2>2. last[el] \in {"sent", "ok"}
    BY <1>2, <2>0
  <2>3. Current(requests, KEY, filter, el)
    BY <2>1, <2>2 DEF UpToDate
  <2>4. ASSUME l[el] = "ok" PROVE Fresh(sh, KEY, filter, el)
    <3>1. CASE sh[el] = Refused
      BY <3>1 DEF Fresh
    <3>2. CASE el = x /\ r.key \in ValidKey /\ sh[el] = Content(r.key, r.arg, r.old)
      BY <1>3, <2>3, <3>2 DEF Fresh, Current
    <3>3. CASE sh[el] = shown[el] /\ ~(el = x /\ last[el] = "sent")
      BY <1>2, <2>0, <2>1, <2>4, <3>3 DEF UpToDate, Fresh
    <3>4. el = x /\ last[el] = "sent" => how = "ok"
      BY <1>2, <2>0, <2>4
    <3> QED BY <2>0, <3>1, <3>2, <3>3, <3>4
  <2>5. Current(rs, KEY, filter, el)
    BY <1>4, <2>3 DEF Current
  <2> QED BY <2>4, <2>5
<1> QED BY <1>5, <1>6 DEF LoadsFit, l, rs

\* A region that is drawn shows one of the things it may show.
LEMMA ShownDrawn ==
  ASSUME ShownShape, UNCHANGED filter, NEW x \in SectionName, NEW v,
         shown' = [shown EXCEPT ![x] = v],
         \/ v = Refused /\ x \notin OnlyPlain
         \/ \E k \in ValidKey : \E a, o : v = Content(k, a, o)
  PROVE  /\ ShownShape' /\ shown'[x] = v
         /\ \A el \in SectionName : el # x => shown'[el] = shown[el]
<1>1. x \in Region
  BY SectionsHaveRegions
<1>2. /\ shown'[x] = v /\ \A el \in Region : el # x => shown'[el] = shown[el]
      /\ shown' = [el \in Region |-> shown'[el]]
  BY <1>1 DEF ShownShape
<1>3. v # Refused \/ x \notin OnlyPlain
  BY ConsoleAssumption DEF Refused, Content, Key
<1>4. OnlyPlain \subseteq Region
  BY SectionsHaveRegions DEF OnlyPlain, SectionName
<1>5. \A el \in Region :
        \/ shown'[el] \in {Blank, Refused}
        \/ \E k \in ValidKey : \E a, o : shown'[el] = Content(k, a, o)
  BY <1>2 DEF ShownShape
<1>6. \A el \in OnlyPlain : shown'[el] # Refused
  BY <1>2, <1>3, <1>4 DEF ShownShape
<1>7. filter' = [el \in Filtered |-> filter'[el]]
  BY DEF ShownShape
<1>8. ShownShape'
  BY <1>2, <1>5, <1>6, <1>7, Zenon DEF ShownShape, Blank, Refused, Content, ValidKey
<1> QED BY <1>2, <1>8, SectionsHaveRegions

LEMMA PageAnswerLoad == ASSUME ReqInv, PageInv, AnswerLoad PROVE PageInv'
<1>1. PICK r \in requests :
        /\ r.kind = "load" /\ r.key \in ValidKey
        /\ shown' = [shown EXCEPT ![r.chain[1].el] = Content(r.key, r.arg, r.old)]
        /\ Start(Rest(r) \cup FollowUps(r.chain[1].el), requests \ {r},
                 Ended(last, r.chain[1].el, "ok"), KEY, filter)
  BY DEF AnswerLoad
<1>2. UNCHANGED <<KEY, tab, filter>>
  BY DEF AnswerLoad, session
<1> DEFINE x == r.chain[1].el
           l == Ended(last, x, "ok")
           v == Content(r.key, r.arg, r.old)
           chains == Rest(r) \cup FollowUps(x)
<1>3. LoadShape(r)
  BY <1>1 DEF ReqInv, Shaped
<1>4. x \in SectionName /\ chains \subseteq Chain
  BY <1>3, RestChains, LoaderChains DEF FollowUps
<1>5. /\ ShownShape' /\ shown'[x] = v
      /\ \A el \in SectionName : el # x => shown'[el] = shown[el]
  <2>1. (v = Refused /\ x \notin OnlyPlain) \/ \E k \in ValidKey : \E a, o : v = Content(k, a, o)
    BY <1>1
  <2>2. shown' = [shown EXCEPT ![x] = v]
    BY <1>1
  <2> HIDE DEF v, x
  <2> QED BY <1>2, <1>4, <2>1, <2>2, ShownDrawn DEF PageInv
<1>6. /\ LoadsFit(requests \ {r}, l, shown')
      /\ last["me"] = "ok" =>
           \A el \in Els(tab) :
             \/ Reads(Rest(r), el) \/ ToCome(requests \ {r}, el)
             \/ UpToDate(requests \ {r}, l, shown', KEY, filter, el)
  BY <1>1, <1>3, <1>5, TakenFits
<1>7. Start(chains, requests \ {r}, l, KEY', filter')
  BY <1>1, <1>2
<1>8. last'["me"] = last["me"]
  <2>1. Shaped(requests \ {r})
    BY DEF ReqInv, Shaped
  <2>2. LastShape(l) /\ l["me"] = last["me"]
    BY <1>4, EndedIsQuiet DEF ReqInv
  <2> HIDE DEF l, chains
  <2> QED BY <1>4, <1>7, <2>1, <2>2, StartIsQuiet DEF QuietFrom
<1>9. \A el : Reads(Rest(r), el) => Reads(chains, el)
  BY DEF Reads
<1>10. last["me"] = "ok" => KEY \in ValidKey
  BY DEF PageInv
<1> HIDE DEF l, chains, v
<1> QED BY <1>2, <1>4, <1>5, <1>6, <1>7, <1>8, <1>9, <1>10, TabIsTab, PageStarts

LEMMA PageRefuseLoad == ASSUME ReqInv, PageInv, RefuseLoad PROVE PageInv'
<1>1. PICK r \in requests :
        /\ r.kind = "load"
        /\ LET s == r.chain[1]
           IN IF s.guarded
              THEN /\ shown' = [shown EXCEPT ![s.at] = Refused]
                   /\ Start(Rest(r), requests \ {r},
                            Ended(last, s.el, IF s.at = s.el THEN "ok" ELSE "failed"),
                            KEY, filter)
              ELSE /\ requests' = requests \ {r} /\ last' = Dropped(last, r.chain)
                   /\ UNCHANGED shown
  BY DEF RefuseLoad
<1>2. UNCHANGED <<KEY, tab, filter>>
  BY DEF RefuseLoad, session
<1>3. LoadShape(r) /\ r.chain \in Chain
  BY <1>1 DEF ReqInv, Shaped, LoadShape
<1> DEFINE s == r.chain[1]
<1>4. s \in Section /\ s.el \in SectionName /\ s.at \in SectionName
  BY <1>3 DEF Chain, Section
<1>5. last["me"] = "ok" => KEY \in ValidKey
  BY DEF PageInv
<1>6. CASE s.guarded
  <2> DEFINE how == IF s.at = s.el THEN "ok" ELSE "failed"
             l == Ended(last, s.el, how)
  <2>1. /\ ShownShape' /\ shown'[s.at] = Refused
        /\ \A el \in SectionName : el # s.at => shown'[el] = shown[el]
    <3>1. s.at \notin OnlyPlain
      BY <1>4, <1>6 DEF Section
    <3>2. shown' = [shown EXCEPT ![s.at] = Refused]
      BY <1>1, <1>6
    <3> HIDE DEF s
    <3> QED BY <1>2, <1>4, <3>1, <3>2, ShownDrawn DEF PageInv
  <2>2. /\ LoadsFit(requests \ {r}, l, shown')
        /\ last["me"] = "ok" =>
             \A el \in Els(tab) :
               \/ Reads(Rest(r), el) \/ ToCome(requests \ {r}, el)
               \/ UpToDate(requests \ {r}, l, shown', KEY, filter, el)
    <3>1. \A el \in SectionName : shown'[el] = shown[el] \/ shown'[el] = Refused
      BY <2>1
    <3>2. how = "ok" => shown'[s.el] = Refused
      BY <2>1
    <3>3. how # "sent"
      OBVIOUS
    <3> HIDE DEF how
    <3> QED BY <1>1, <1>3, <3>1, <3>2, <3>3, TakenFits
  <2>3. Start(Rest(r), requests \ {r}, l, KEY', filter')
    BY <1>1, <1>2, <1>6
  <2>4. Rest(r) \subseteq Chain
    BY <1>3, RestChains
  <2>5. last'["me"] = last["me"]
    <3>1. Shaped(requests \ {r})
      BY DEF ReqInv, Shaped
    <3>2. LastShape(l) /\ l["me"] = last["me"]
      BY <1>4, EndedIsQuiet DEF ReqInv
    <3> HIDE DEF l
    <3> QED BY <2>3, <2>4, <3>1, <3>2, StartIsQuiet DEF QuietFrom
  <2> HIDE DEF l
  <2> QED BY <1>2, <1>5, <2>1, <2>2, <2>3, <2>4, <2>5, TabIsTab, PageStarts
<1>7. CASE ~s.guarded
  <2>1. requests' = requests \ {r} /\ last' = Dropped(last, r.chain) /\ UNCHANGED shown
    BY <1>1, <1>7
  <2>2. \A el \in SectionName : last'[el] \in {"failed", last[el]}
    BY <2>1, SectionsHaveRegions DEF Dropped
  <2>3. ASSUME NEW el \in SectionName, last'[el] # "failed"
        PROVE  /\ last'[el] = last[el] /\ Loads(requests', el) = Loads(requests, el)
               /\ ToCome(requests, el) => ToCome(requests', el)
    <3>1. \A i \in DOMAIN r.chain : r.chain[i].el # el
      BY <2>1, <2>3, SectionsHaveRegions DEF Dropped, Sections
    <3>2. DOMAIN r.chain = 1 .. Len(r.chain) /\ r.chain # <<>> /\ Len(r.chain) \in Nat
      BY <1>3 DEF Chain
    <3>3. r.chain[1].el # el
      BY <1>3, <3>1, <3>2 DEF Chain
    <3>4. Loads(requests', el) = Loads(requests, el)
      BY <1>1, <1>3, <2>1, <3>3, LoadTaken
    <3>5. ASSUME ToCome(requests, el) PROVE ToCome(requests', el)
      <4>1. PICK q \in requests :
              q.kind = "load" /\ \E i \in 2 .. Len(q.chain) : q.chain[i].el = el
        BY <3>5 DEF ToCome
      <4>2. q # r
        BY <3>1, <3>2, <4>1
      <4> QED BY <2>1, <4>1, <4>2 DEF ToCome
    <3> QED BY <2>2, <2>3, <3>4, <3>5
  <2>4. LoadsFit(requests', last', shown')
    <3> SUFFICES ASSUME NEW el \in SectionName
                 PROVE  LoadFits(requests', last', shown', el)
      BY DEF LoadsFit
    <3>1. LoadFits(requests, last, shown, el)
      BY DEF PageInv, LoadsFit
    <3> QED BY <2>1, <2>3, <3>1 DEF LoadFits, Agree, Matches
  <2>5. last'["me"] = last["me"]
    BY <1>3, <2>1, DroppedIsQuiet DEF ReqInv
  <2>6. ASSUME last["me"] = "ok"
        PROVE  PageFits(requests', last', shown', KEY', filter', Els(tab'))
    <3> SUFFICES ASSUME NEW el \in Els(tab)
                 PROVE  \/ ToCome(requests', el)
                        \/ UpToDate(requests', last', shown, KEY, filter, el)
      BY <1>2, <2>1 DEF PageFits
    <3>1. el \in SectionName
      BY TabRegions, TabIsTab
    <3>2. ToCome(requests, el) \/ UpToDate(requests, last, shown, KEY, filter, el)
      BY <2>6 DEF PageInv, PageFits
    <3>3. CASE last'[el] = "failed"
      BY <3>3 DEF UpToDate
    <3>4. CASE last'[el] # "failed"
      BY <2>3, <3>1, <3>2, <3>4 DEF UpToDate, Current
    <3> QED BY <3>3, <3>4
  <2>7. ShownShape'
    BY <1>2, <2>1, ShownStays DEF PageInv
  <2> QED BY <1>2, <1>5, <2>4, <2>5, <2>6, <2>7 DEF PageInv
<1> QED BY <1>6, <1>7

-----------------------------------------------------------------------------
(* The user's own changes *)

\* The age of what was read before the user's change.
Outdated == TRUE

\* The loads of a region whose list was changed are older than the change.
LEMMA AgedLoads ==
  ASSUME NEW rs, Shaped(rs), NEW x
  PROVE  /\ \A r \in Aged(rs, x) :
              \/ r \in rs /\ r \notin Loads(rs, x)
              \/ \E q \in Loads(rs, x) :
                   /\ r.kind = "load" /\ r.chain = q.chain /\ r.key = q.key
                   /\ r.arg = q.arg /\ r.old = Outdated
         /\ \A q \in rs : q \notin Loads(rs, x) => q \in Aged(rs, x)
<1>0. Aged(rs, x) = {IF r \in Loads(rs, x) THEN [r EXCEPT !.old = Outdated] ELSE r : r \in rs}
  BY Zenon DEF Aged, Outdated
<1>1. ASSUME NEW q \in Loads(rs, x), NEW r, r = [q EXCEPT !.old = Outdated]
      PROVE  /\ r.kind = "load" /\ r.chain = q.chain /\ r.key = q.key
             /\ r.arg = q.arg /\ r.old = Outdated
  <2>1. q = [kind |-> "load", chain |-> q.chain, key |-> q.key, arg |-> q.arg,
             old |-> q.old]
    BY DEF Loads, Shaped, LoadShape
  <2>2. r = [kind |-> "load", chain |-> q.chain, key |-> q.key, arg |-> q.arg,
             old |-> Outdated]
    BY <1>1, <2>1, AgedLoad
  <2> QED BY <2>2
<1> QED BY <1>0, <1>1

\* No load is lost.
LEMMA AgedKept ==
  ASSUME NEW rs, Shaped(rs), NEW x, NEW q \in rs, q.kind = "load"
  PROVE  \E r \in Aged(rs, x) : r.kind = "load" /\ r.chain = q.chain
<1>1. CASE q \notin Loads(rs, x)
  BY <1>1, AgedLoads
<1>2. CASE q \in Loads(rs, x)
  <2>1. q = [kind |-> "load", chain |-> q.chain, key |-> q.key, arg |-> q.arg,
             old |-> q.old]
    BY DEF Shaped, LoadShape
  <2> DEFINE r == [q EXCEPT !.old = Outdated]
  <2>2. r = [kind |-> "load", chain |-> q.chain, key |-> q.key, arg |-> q.arg,
             old |-> Outdated]
    BY <2>1, AgedLoad
  <2>3. r \in Aged(rs, x)
    <3>1. Aged(rs, x) = {IF p \in Loads(rs, x) THEN [p EXCEPT !.old = Outdated] ELSE p
                           : p \in rs}
      BY Zenon DEF Aged, Outdated
    <3> QED BY <1>2, <3>1
  <2> HIDE DEF r
  <2> QED BY <2>2, <2>3
<1> QED BY <1>1, <1>2

LEMMA AgedOthers ==
  ASSUME NEW rs, Shaped(rs), NEW x, NEW el, el # x
  PROVE  /\ Loads(Aged(rs, x), el) = Loads(rs, el)
         /\ ToCome(rs, el) => ToCome(Aged(rs, x), el)
<1>1. Loads(Aged(rs, x), el) \subseteq Loads(rs, el)
  BY AgedLoads DEF Loads
<1>2. Loads(rs, el) \subseteq Loads(Aged(rs, x), el)
  BY AgedLoads DEF Loads
<1>3. ASSUME ToCome(rs, el) PROVE ToCome(Aged(rs, x), el)
  <2>1. PICK q \in rs : q.kind = "load" /\ \E i \in 2 .. Len(q.chain) : q.chain[i].el = el
    BY <1>3 DEF ToCome
  <2>2. CASE q \notin Loads(rs, x)
    BY <2>1, <2>2, AgedLoads DEF ToCome
  <2>3. CASE q \in Loads(rs, x)
    BY <2>1, AgedKept DEF ToCome
  <2> QED BY <2>2, <2>3
<1> QED BY <1>1, <1>2, <1>3

\* The region of the change shows what is older than it, if it shows a list.
LEMMA ShownAged ==
  ASSUME ShownShape, UNCHANGED filter, NEW x \in SectionName,
         shown' = [shown EXCEPT ![x].old = @ \/ shown[x] \notin {Blank, Refused}]
  PROVE  /\ ShownShape' /\ \A el \in SectionName : el # x => shown'[el] = shown[el]
         /\ shown[x] \in {Blank, Refused} => shown'[x] = shown[x]
         /\ \A k \in ValidKey : \A a, o :
              shown[x] = Content(k, a, o) => shown'[x] = Content(k, a, Outdated)
<1> DEFINE t == shown[x].old \/ shown[x] \notin {Blank, Refused}
           v == [shown[x] EXCEPT !.old = t]
<1>1. shown' = [shown EXCEPT ![x] = v]
  <2>1. x \in Region
    BY SectionsHaveRegions
  <2> QED BY <2>1, Zenon DEF ShownShape
<1>2. ASSUME shown[x] \in {Blank, Refused} PROVE v = shown[x]
  <2>1. PICK a : shown[x] = [key |-> NoKey, arg |-> a, old |-> Young]
    BY <1>2 DEF Blank, Refused, Content, Young
  <2>2. shown[x].old = Young
    BY <2>1
  <2>3. t = Young
    BY <1>2, <2>2, Zenon DEF Young
  <2> HIDE DEF t
  <2> QED BY <2>1, <2>3
<1>3. ASSUME NEW k \in ValidKey, NEW a, NEW o, shown[x] = Content(k, a, o)
      PROVE  v = Content(k, a, Outdated)
  <2>1. k # NoKey
    BY ConsoleAssumption DEF Key
  <2>2. shown[x] \notin {Blank, Refused}
    BY <1>3, <2>1 DEF Blank, Refused, Content
  <2>3. t = Outdated
    BY <2>2, Zenon DEF Outdated
  <2>4. shown[x] = [key |-> k, arg |-> a, old |-> o]
    BY <1>3 DEF Content
  <2> HIDE DEF t
  <2> QED BY <2>3, <2>4 DEF Content
<1>4. \/ v = shown[x]
      \/ \E k \in ValidKey : \E a, o : v = Content(k, a, o)
  BY <1>2, <1>3, SectionsHaveRegions, SMTT(60) DEF ShownShape
<1> HIDE DEF v
<1>5. CASE v = shown[x]
  <2>1. shown' = shown
    BY <1>1, <1>5 DEF ShownShape
  <2> QED BY <1>2, <1>3, <1>5, <2>1, ShownStays
<1>6. CASE \E k \in ValidKey : \E a, o : v = Content(k, a, o)
  <2>1. /\ ShownShape' /\ shown'[x] = v
        /\ \A el \in SectionName : el # x => shown'[el] = shown[el]
    BY <1>1, <1>6, ShownDrawn
  <2> QED BY <1>2, <1>3, <2>1
<1> QED BY <1>4, <1>5, <1>6

LEMMA AgedFits ==
  ASSUME NEW rs, Shaped(rs), NEW l, LoadsFit(rs, l, shown), ShownShape, UNCHANGED filter,
         NEW x \in SectionName,
         shown' = [shown EXCEPT ![x].old = @ \/ shown[x] \notin {Blank, Refused}]
  PROVE  /\ LoadsFit(Aged(rs, x), l, shown') /\ ShownShape'
         /\ \A el \in SectionName : \A k :
              el # x /\ UpToDate(rs, l, shown, k, filter, el)
                => UpToDate(Aged(rs, x), l, shown', k, filter', el)
<1> DEFINE as == Aged(rs, x)
<1>1. /\ ShownShape' /\ \A el \in SectionName : el # x => shown'[el] = shown[el]
      /\ shown[x] \in {Blank, Refused} => shown'[x] = shown[x]
      /\ \A k \in ValidKey : \A a, o :
           shown[x] = Content(k, a, o) => shown'[x] = Content(k, a, Outdated)
  BY ShownAged
<1>2. ASSUME NEW el \in SectionName, el # x
      PROVE  /\ LoadFits(as, l, shown', el)
             /\ \A k : UpToDate(rs, l, shown, k, filter, el)
                         => UpToDate(as, l, shown', k, filter', el)
  <2>1. Loads(as, el) = Loads(rs, el) /\ shown'[el] = shown[el]
    BY <1>1, <1>2, AgedOthers
  <2>2. LoadFits(rs, l, shown, el)
    BY DEF LoadsFit
  <2> HIDE DEF as
  <2> QED BY <2>1, <2>2 DEF LoadFits, Agree, Matches, UpToDate, Current, Fresh
<1>3. LoadFits(as, l, shown', x)
  <2>1. LoadFits(rs, l, shown, x)
    BY DEF LoadsFit
  <2>2. \A r \in Loads(as, x) :
          \E q \in Loads(rs, x) : r.key = q.key /\ r.arg = q.arg /\ r.old = Outdated
    BY AgedLoads DEF Loads
  <2> HIDE DEF as
  <2>3. Agree(rs, x) => Agree(as, x)
    BY <2>2, ZenonT(60) DEF Agree
  <2>4. ASSUME Matches(rs, shown, x) PROVE Matches(as, shown', x)
    <3> SUFFICES ASSUME NEW r \in Loads(as, x), r.key \in ValidKey
                 PROVE  shown'[x] \in {Content(r.key, r.arg, r.old), Refused}
      BY DEF Matches
    <3>1. PICK q \in Loads(rs, x) : r.key = q.key /\ r.arg = q.arg /\ r.old = Outdated
      BY <2>2
    <3>2. shown[x] \in {Content(r.key, r.arg, q.old), Refused}
      BY <2>4, <3>1 DEF Matches
    <3> QED BY <1>1, <3>1, <3>2
  <2> QED BY <2>1, <2>3, <2>4 DEF LoadFits
<1> QED BY <1>1, <1>2, <1>3 DEF LoadsFit

\* A change that was made: its region is read again.
LEMMA PageChanges ==
  ASSUME ReqInv, PageInv, NEW r, r.kind # "load", NEW x \in SectionName,
         shown' = [shown EXCEPT ![x].old = @ \/ shown[x] \notin {Blank, Refused}],
         NEW chains \in SUBSET Chain, Reads(chains, x),
         Start(chains, Aged(requests \ {r}, x), last, KEY, filter),
         UNCHANGED <<session, filter>>
  PROVE  PageInv'
<1> DEFINE rs == requests \ {r}
           as == Aged(rs, x)
<1>1. OnlyLoads(rs) = OnlyLoads(requests) /\ Shaped(rs) /\ Shaped(as)
  <2>1. OnlyLoads(rs) = OnlyLoads(requests) /\ Shaped(rs)
    BY LoadsAside DEF ReqInv, Shaped
  <2> QED BY <2>1, AgedShaped
<1> HIDE DEF rs
<1>2. LoadsFit(rs, last, shown)
  BY <1>1, SameFits DEF PageInv
<1>3. /\ LoadsFit(as, last, shown') /\ ShownShape'
      /\ \A el \in SectionName : \A k :
           el # x /\ UpToDate(rs, last, shown, k, filter, el)
             => UpToDate(as, last, shown', k, filter', el)
  BY <1>1, <1>2, AgedFits DEF PageInv
<1>4. ASSUME last["me"] = "ok", NEW el \in Els(tab)
      PROVE  \/ Reads(chains, el) \/ ToCome(as, el)
             \/ UpToDate(as, last, shown', KEY, filter', el)
  <2>1. el \in SectionName
    BY TabRegions, TabIsTab
  <2>2. ToCome(requests, el) \/ UpToDate(requests, last, shown, KEY, filter, el)
    BY <1>4 DEF PageInv, PageFits
  <2>3. ToCome(rs, el) \/ UpToDate(rs, last, shown, KEY, filter, el)
    BY <1>1, <2>1, <2>2, SameLoads, SameFits DEF PageInv
  <2>4. CASE el = x
    BY <2>4
  <2>5. CASE el # x
    BY <1>1, <1>3, <2>1, <2>3, <2>5, AgedOthers
  <2> QED BY <2>4, <2>5
<1>5. Start(chains, as, last, KEY', filter') /\ UNCHANGED <<KEY, tab>>
  BY DEF rs, session
<1> HIDE DEF as
<1>6. last'["me"] = last["me"]
  BY <1>1, <1>5, StartIsQuiet DEF ReqInv, QuietFrom
<1>7. last["me"] = "ok" => KEY \in ValidKey
  BY DEF PageInv
<1> QED BY <1>3, <1>4, <1>5, <1>6, <1>7, PageStarts, TabIsTab

\* The list a change is about is among those it reads again.
LEMMA ReloadReads ==
  ASSUME NEW el \in ChangeName
  PROVE  Reads(ReloadAfter[el], el) /\ ReloadAfter[el] \subseteq Chain /\ el \in SectionName
<1> DEFINE One(s) == {<<s>>}
           Two(s, t) == {<<s, t>>}
           p == [Part("apps") EXCEPT !.at = "policy"]
<1>1. ASSUME NEW s PROVE Reads(One(s), s.el)
  <2>1. Len(<<s>>) = 1 /\ <<s>>[1] = s
    OBVIOUS
  <2> QED BY <2>1 DEF Reads
<1>2. ASSUME NEW s, NEW t PROVE Reads(Two(s, t), s.el) /\ Reads(Two(s, t), t.el)
  <2>1. Len(<<s, t>>) = 2 /\ <<s, t>>[1] = s /\ <<s, t>>[2] = t
    OBVIOUS
  <2> QED BY <2>1 DEF Reads
<1>3. /\ ReloadAfter["inventory"] = One(Plain("inventory"))
      /\ ReloadAfter["approvals"] = One(Plain("approvals"))
      /\ ReloadAfter["findings"] = One(Plain("findings"))
      /\ ReloadAfter["sources"] = One(Plain("sources"))
      /\ ReloadAfter["sshkeys"] = One(Plain("sshkeys"))
      /\ ReloadAfter["onboard"] = One(Plain("onboard"))
      /\ ReloadAfter["targets"] = Two(Part("targets"), Part("installs"))
      /\ ReloadAfter["installs"] = Two(Part("targets"), Part("installs"))
      /\ ReloadAfter["keys"] = Two(Part("keys"), Part("signings"))
      /\ ReloadAfter["tree"] = Two(Part("tree"), p)
      /\ ReloadAfter["apps"] = Two(Part("tree"), p)
  BY DEF ReloadAfter, loadInventory, loadApprovals, loadFindings, loadSources,
    loadSshKeys, loadOnboard, loadProvisioning, loadSigning, loadPolicy
<1>4. p.el = "apps" /\ \A x : Plain(x).el = x /\ Part(x).el = x
  BY SectionFields
<1> HIDE DEF One, Two, p
<1>5. ASSUME el \in {"inventory", "approvals", "findings", "sources", "sshkeys", "onboard"}
      PROVE  Reads(ReloadAfter[el], el)
  <2>1. ReloadAfter[el] = One(Plain(el))
    BY <1>3, <1>5
  <2> QED BY <1>1, <1>4, <2>1
<1>6. ASSUME el \in {"targets", "keys", "tree"} PROVE Reads(ReloadAfter[el], el)
  <2>1. \E s : ReloadAfter[el] = Two(Part(el), s)
    BY <1>3, <1>6
  <2> QED BY <1>2, <1>4, <2>1
<1>7. ASSUME el \in {"installs", "apps"} PROVE Reads(ReloadAfter[el], el)
  <2>1. \E s, t : ReloadAfter[el] = Two(s, t) /\ t.el = el
    BY <1>3, <1>4, <1>7
  <2> QED BY <1>2, <2>1
<1>8. ReloadAfter[el] \subseteq Chain
  BY LoaderChains DEF ChangeName, ReloadAfter
<1>9. Reads(ReloadAfter[el], el)
  BY <1>5, <1>6, <1>7 DEF ChangeName
<1> QED BY <1>8, <1>9 DEF ChangeName, SectionName

LEMMA PageAnswerChange == ASSUME ReqInv, PageInv, AnswerChange PROVE PageInv'
<1>1. PICK r \in requests :
        /\ r.kind = "change"
        /\ shown' = [shown EXCEPT ![r.el].old = @ \/ shown[r.el] \notin {Blank, Refused}]
        /\ Start(ReloadAfter[r.el], Aged(requests \ {r}, r.el), last, KEY, filter)
  BY Zenon DEF AnswerChange
<1>2. UNCHANGED <<session, filter>>
  BY DEF AnswerChange
<1>3. r.el \in ChangeName
  BY <1>1 DEF ReqInv, Shaped
<1> QED BY <1>1, <1>2, <1>3, ReloadReads, PageChanges

\* A push reads the list it is about again, after its run.
LEMMA PushReads ==
  ASSUME NEW run \in showRuns, NEW list \in loadProvisioning
  PROVE  {run \o list} \subseteq Chain /\ Reads({run \o list}, "installs")
<1>1. {run \o list} \subseteq Chain
  <2>1. run \in Chain /\ list \in Chain
    BY LoaderChains
  <2> QED BY <2>1 DEF Chain
<1>2. Reads({run \o list}, "installs")
  <2>1. run = <<Plain("runs")>> /\ list = <<Part("targets"), Part("installs")>>
    BY DEF showRuns, loadProvisioning
  <2>2. Len(run \o list) = 3 /\ (run \o list)[3] = Part("installs")
    BY <2>1
  <2> QED BY <2>2, SectionFields DEF Reads
<1> QED BY <1>1, <1>2

LEMMA PageAnswerPush == ASSUME ReqInv, PageInv, AnswerPush PROVE PageInv'
<1>1. PICK r \in requests :
        /\ r.kind = "push"
        /\ \E run \in showRuns, list \in loadProvisioning :
             Start({run \o list}, Aged(requests \ {r}, "installs"), last, KEY, filter)
  BY DEF AnswerPush
<1>2. UNCHANGED <<session, filter>>
  BY DEF AnswerPush
<1>3. shown' = [shown EXCEPT !["installs"].old = @ \/ shown["installs"] \notin {Blank, Refused}]
  BY Zenon DEF AnswerPush
<1>4. PICK run \in showRuns, list \in loadProvisioning :
        Start({run \o list}, Aged(requests \ {r}, "installs"), last, KEY, filter)
  BY <1>1
<1>5. {run \o list} \subseteq Chain /\ Reads({run \o list}, "installs")
  BY PushReads
<1>6. "installs" \in SectionName
  BY DEF SectionName
<1> QED BY <1>1, <1>2, <1>3, <1>4, <1>5, <1>6, PageChanges

-----------------------------------------------------------------------------

LEMMA PageInit == ConsoleInit => PageInv
<1> SUFFICES ASSUME ConsoleInit PROVE PageInv
  OBVIOUS
<1> DEFINE chains == IF KEY = NoKey THEN {} ELSE Loader[tab]
<1>1. /\ requests = {Load(c, KEY, filter) : c \in chains}
                      \cup IF KEY = NoKey THEN {} ELSE {Me(KEY)}
      /\ last = [el \in Region |->
             IF el \in {c[1].el : c \in chains} \/ (el = "me" /\ KEY # NoKey)
             THEN "sent" ELSE "none"]
      /\ shown = [el \in Region |-> Blank] /\ filter = [el \in Filtered |-> NoChoice]
  BY DEF ConsoleInit
<1>2. \A el \in Region : last[el] # "ok"
  BY <1>1
<1>3. "me" \in Region
  BY DEF Region
<1>4. ASSUME NEW el, NEW r \in Loads(requests, el)
      PROVE  r.key = KEY /\ r.arg = Arg(el, filter) /\ r.old = Young
  <2>1. PICK c \in chains : r = Load(c, KEY, filter)
    BY <1>1, <1>4 DEF Loads, Me
  <2>2. c[1].el = el
    BY <1>4, <2>1, LoadIs DEF Loads
  <2> QED BY <2>1, <2>2, LoadIs
<1>5. LoadsFit(requests, last, shown)
  BY <1>2, <1>4, SectionsHaveRegions DEF LoadsFit, LoadFits, Agree
<1>6. ShownShape
  <2>1. Blank # Refused
    BY DEF Blank, Refused, Content
  <2>2. OnlyPlain \subseteq Region
    BY SectionsHaveRegions DEF OnlyPlain, SectionName
  <2> QED BY <1>1, <2>1, <2>2 DEF ShownShape
<1> QED BY <1>2, <1>3, <1>5, <1>6 DEF PageInv

LEMMA PageStep ==
  ASSUME ReqInv, MeInv, PageInv, [ConsoleNext]_consoleVars
  PROVE  PageInv'
BY PageBystanders, PageLook, PageRefuseChange, PageShow, PageMe, PagePick,
   PageAnswerLoad, PageRefuseLoad, PageAnswerChange, PageAnswerPush
DEF ConsoleNext, User, Answer

\* When all is answered the tab shows what the key typed in may see, under the
\* filters as they are and after the user's own changes, or the refusal of it
\* (console.js, show(), me(), part403() and the loaders), whatever was clicked,
\* switched, connected and answered before, and in whatever order.
THEOREM ThePageSettles == ConsoleSpec => []SettledPage
<1>1. ReqInv /\ PageInv => SettledPage
  <2> SUFFICES ASSUME ReqInv, PageInv, Connected, NEW s \in Sections(Loader[tab]),
                      last[s.el] = "ok"
               PROVE  \/ shown[s.el] = Content(KEY, Arg(s.el, filter), FALSE)
                      \/ s.guarded /\ shown[s.el] = Refused
    BY DEF SettledPage
  <2>1. s.el \in Els(tab) /\ (~s.guarded => s.el \in OnlyPlain)
    BY TabIsTab, TabGuards
  <2>2. ~ToCome(requests, s.el)
    BY DEF Connected, ToCome
  <2>3. Fresh(shown, KEY, filter, s.el)
    BY <2>1, <2>2 DEF Connected, PageInv, PageFits, UpToDate
  <2>4. ~s.guarded => shown[s.el] # Refused
    BY <2>1 DEF PageInv, ShownShape
  <2> QED BY <2>3, <2>4 DEF Fresh, Young
<1>2. PageInv /\ ReqInv /\ MeInv /\ [ConsoleNext]_consoleVars => PageInv'
  BY PageStep
<1> QED BY <1>1, <1>2, PageInit, SessionInvariant, PTL DEF ConsoleSpec

-----------------------------------------------------------------------------
(* The buttons *)

Button == {"installs", "sources"}

\* What redraws the button's region is on its way.
Coming(rs, x) ==
  \/ \E r \in rs : r.kind = "load" /\ \E i \in 1 .. Len(r.chain) : r.chain[i].el = x
  \/ x = "installs" /\ \E r \in rs : r.kind = "push"
  \/ x = "sources" /\ \E r \in rs : r.kind = "change" /\ r.el = "sources"

ButtonInv == \A x \in Button : x \in busy => Coming(requests, x) \/ last[x] = "failed"

LEMMA ButtonNames == Button \subseteq SectionName /\ Button \subseteq Region
BY SectionsHaveRegions DEF Button, SectionName

\* What is on its way stays so unless it is answered.
LEMMA ComingStays ==
  ASSUME NEW rs, NEW ss, NEW x, Coming(rs, x),
         \A r \in rs \ ss : /\ r.kind \notin {"load", "push"}
                            /\ ~(r.kind = "change" /\ r.el = "sources")
  PROVE  Coming(ss, x)
BY DEF Coming

\* Starting chains keeps the buttons in order, and the ones they read get in order.
LEMMA ButtonStarts ==
  ASSUME NEW chains \in SUBSET Chain, NEW rs, NEW l, NEW k, NEW f,
         Start(chains, rs, l, k, f), NEW x \in Button,
         Coming(rs, x) \/ l[x] = "failed" \/ Reads(chains, x)
  PROVE  Coming(requests', x) \/ last'[x] = "failed"
<1>1. requests' = rs \cup {Load(c, k, f) : c \in chains}
  BY DEF Start
<1>2. CASE Coming(rs, x)
  BY <1>1, <1>2, ComingStays
<1>3. CASE Reads(chains, x)
  <2>1. PICK c \in chains : \E i \in 1 .. Len(c) : c[i].el = x
    BY <1>3 DEF Reads
  <2>2. Load(c, k, f) \in requests'
    BY <1>1
  <2> QED BY <2>1, <2>2, LoadIs DEF Coming
<1>4. CASE l[x] = "failed" /\ ~Reads(chains, x)
  <2>1. ~IsHead(chains, x)
    <3> SUFFICES ASSUME NEW c \in chains, c[1].el = x PROVE FALSE
      BY DEF IsHead
    <3>1. 1 \in 1 .. Len(c)
      BY DEF Chain
    <3> QED BY <1>4, <3>1 DEF Reads
  <2>2. last'[x] = l[x]
    BY <2>1, ButtonNames, StartedMarks
  <2> QED BY <1>4, <2>2
<1> QED BY <1>2, <1>3, <1>4

LEMMA ButtonsStay ==
  ASSUME ButtonInv,
         \A r \in requests \ requests' : /\ r.kind \notin {"load", "push"}
                                         /\ ~(r.kind = "change" /\ r.el = "sources"),
         \A x \in Button : last'[x] = last[x],
         \A x \in busy' \cap Button : x \in busy \/ Coming(requests', x)
  PROVE  ButtonInv'
<1> SUFFICES ASSUME NEW x \in Button, x \in busy'
             PROVE  Coming(requests', x) \/ last'[x] = "failed"
  BY DEF ButtonInv
<1>1. CASE x \in busy
  BY <1>1, ComingStays DEF ButtonInv
<1> QED BY <1>1

\* The steps of the session and the wizard, and what the user asks for.
LEMMA ButtonBystanders ==
  ASSUME ReqInv, ButtonInv,
         \/ UNCHANGED consoleVars
         \/ Connect \/ Click \/ Push \/ Credential \/ Next1 \/ Back2 \/ Next2 \/ obStatus
         \/ EditFolder \/ TypeRule \/ Approve
         \/ AnswerCreate \/ AnswerStatus \/ AnswerCredential \/ RefuseWizard
  PROVE  ButtonInv'
<1>0. \A x \in Button : x \in SectionName
  BY ButtonNames
<1>1. CASE \/ UNCHANGED consoleVars \/ Next1 \/ Back2 \/ EditFolder \/ TypeRule \/ Approve
  <2>1. UNCHANGED <<requests, last, busy>>
    BY <1>1 DEF consoleVars, pageVars, Next1, Back2, EditFolder, TypeRule, Approve
  <2> QED BY <2>1, ButtonsStay
<1>2. CASE Connect
  <2> DEFINE v == IF \E r \in requests : r.kind = "me" THEN "raced" ELSE "sent"
  <2>1. last' = [last EXCEPT !["me"] = v] /\ UNCHANGED busy /\ requests \subseteq requests'
    BY <1>2 DEF Connect
  <2> HIDE DEF v
  <2>2. \A x \in Button : last'[x] = last[x]
    BY <1>0, <2>1, MarksAside DEF ReqInv
  <2> QED BY <2>1, <2>2, ButtonsStay
<1>3. CASE Click
  <2>1. PICK c \in Change :
          /\ Send([kind |-> "change", key |-> KEY, el |-> c.el])
          /\ busy' = IF c.el = "sources" THEN busy \cup {c.el} ELSE busy
    BY <1>3 DEF Click
  <2> DEFINE q == [kind |-> "change", key |-> KEY, el |-> c.el]
  <2>2. q.kind = "change" /\ q.el = c.el
    OBVIOUS
  <2>3. q \in requests' /\ requests \subseteq requests' /\ UNCHANGED last
    BY <2>1 DEF Send
  <2> HIDE DEF q
  <2>4. ASSUME NEW x \in busy', x \notin busy PROVE Coming(requests', x)
    <3>1. x = "sources" /\ c.el = "sources"
      BY <2>1, <2>4
    <3> QED BY <2>2, <2>3, <3>1 DEF Coming
  <2> QED BY <2>3, <2>4, ButtonsStay
<1>4. CASE Push
  <2> DEFINE q == [kind |-> "push", key |-> KEY]
  <2>1. q \in requests' /\ requests \subseteq requests' /\ UNCHANGED last
    BY <1>4 DEF Push, Send
  <2>2. q.kind = "push"
    OBVIOUS
  <2> HIDE DEF q
  <2>3. Coming(requests', "installs") /\ busy' = busy \cup {"installs"}
    BY <1>4, <2>1, <2>2 DEF Push, Coming
  <2> QED BY <2>1, <2>3, ButtonsStay
<1>5. CASE Credential
  BY <1>5, ButtonsStay DEF Credential, Send
<1>6. CASE Next2 \/ obStatus
  <2> DEFINE v == IF \E q \in requests : q.kind \in {"create", "status"} THEN "raced"
                  ELSE "ok"
  <2>1. last' = [last EXCEPT !["wizard"] = v] /\ UNCHANGED busy /\ requests \subseteq requests'
    BY <1>6 DEF Next2, obStatus, ToWizard
  <2> HIDE DEF v
  <2>2. \A x \in Button : last'[x] = last[x]
    BY <1>0, <2>1, MarksAside DEF ReqInv
  <2> QED BY <2>1, <2>2, ButtonsStay
<1>7. CASE AnswerCreate
  <2>1. PICK r \in requests, a \in App, s \in {"pending", "active"} :
          r.kind = "create" /\ Created(r, a, s)
    BY <1>7, AnswerCreateShape, ZenonT(60)
  <2>2. UNCHANGED busy
    BY <1>7 DEF AnswerCreate
  <2> DEFINE v == IF \E q \in requests : q.kind = "status" THEN "raced"
                  ELSE last["wizard"]
  <2>3. /\ requests \ {r} \subseteq requests'
        /\ last' = last \/ last' = [last EXCEPT !["wizard"] = v]
    BY <2>1 DEF Created
  <2> HIDE DEF v
  <2>4. \A x \in Button : last'[x] = last[x]
    BY <1>0, <2>3, MarksAside DEF ReqInv
  <2> QED BY <2>1, <2>2, <2>3, <2>4, ButtonsStay
<1>8. CASE AnswerStatus \/ AnswerCredential \/ RefuseWizard
  <2>1. PICK r \in requests :
          /\ r.kind \in {"create", "status", "cred"} /\ requests' = requests \ {r}
          /\ UNCHANGED <<last, busy>>
    BY <1>8 DEF AnswerStatus, AnswerCredential, RefuseWizard
  <2> QED BY <2>1, ButtonsStay
<1> QED BY <1>1, <1>2, <1>3, <1>4, <1>5, <1>6, <1>7, <1>8

\* The steps that ask for regions.
LEMMA ButtonsAsk ==
  ASSUME ReqInv, ButtonInv, Show \/ AnswerMe \/ Look \/ Pick
  PROVE  ButtonInv'
<1>1. UNCHANGED busy
  BY DEF Show, AnswerMe, Look, Pick
<1>2. ASSUME NEW chains \in SUBSET Chain, NEW rs, NEW l, NEW k, NEW f,
             Start(chains, rs, l, k, f), \A x \in Button : l[x] = last[x],
             \A r \in requests \ rs : r.kind = "me"
      PROVE  ButtonInv'
  <2> SUFFICES ASSUME NEW x \in Button, x \in busy
               PROVE  Coming(requests', x) \/ last'[x] = "failed"
    BY <1>1 DEF ButtonInv
  <2>1. Coming(requests, x) => Coming(rs, x)
    BY <1>2, ComingStays
  <2>2. Coming(rs, x) \/ l[x] = "failed"
    BY <1>2, <2>1 DEF ButtonInv
  <2> QED BY <1>2, <2>2, ButtonStarts
<1>3. CASE Show
  <2>1. tab' \in Tab
    BY <1>3, OpenedAssumption DEF Show
  <2>2. CASE KEY = NoKey
    BY <1>1, <1>3, <2>2, ButtonsStay DEF Show
  <2>3. CASE KEY # NoKey
    <3>1. Start(Loader[tab'], requests, last, KEY, filter)
      BY <1>3, <2>3 DEF Show
    <3> QED BY <1>2, <2>1, <3>1, LoaderChains
  <2> QED BY <2>2, <2>3
<1>4. CASE AnswerMe
  <2>1. PICK r \in requests :
          /\ r.kind = "me"
          /\ \/ Start(Loader[tab], requests \ {r}, Ended(last, "me", "ok"), KEY, filter)
             \/ requests' = requests \ {r} /\ last' = Ended(last, "me", "failed")
    BY <1>4 DEF AnswerMe
  <2>2. ASSUME NEW how, NEW x \in Button PROVE Ended(last, "me", how)[x] = last[x]
    <3>1. x # "me" /\ x \in Region /\ "me" \in Region
      BY ButtonNames DEF Button, Region
    <3> QED BY <3>1 DEF ReqInv, LastShape, Ended
  <2>3. CASE Start(Loader[tab], requests \ {r}, Ended(last, "me", "ok"), KEY, filter)
    <3>1. Loader[tab] \subseteq Chain
      BY TabIsTab, LoaderChains
    <3> QED BY <1>2, <2>1, <2>2, <2>3, <3>1
  <2>4. CASE requests' = requests \ {r} /\ last' = Ended(last, "me", "failed")
    BY <1>1, <2>1, <2>2, <2>4, ButtonsStay
  <2> QED BY <2>1, <2>3, <2>4
<1>5. CASE Look
  <2>1. \/ Start(showRuns, requests, last, KEY, filter)
        \/ Start({<<Part("scan")>>}, requests, last, KEY, filter)
    BY <1>5 DEF Look
  <2> QED BY <1>2, <2>1, LoaderChains
<1>6. CASE Pick
  <2>1. \E chains \in {loadFindings, loadSshKeys, loadEffective, {}} :
          Start(chains, requests, last, KEY, filter')
    BY <1>6 DEF Pick
  <2> QED BY <1>2, <2>1, LoaderChains
<1> QED BY <1>3, <1>4, <1>5, <1>6

\* A load that is answered or refused, if the section is not the button's, leaves
\* what comes for the button.
LEMMA ButtonTaken ==
  ASSUME NEW r \in requests, r.kind = "load", LoadShape(r), NEW x, Coming(requests, x),
         r.chain[1].el # x
  PROVE  Coming(requests \ {r}, x) \/ Reads(Rest(r), x)
<1>1. CASE ToCome(requests, x)
  <2>1. ToCome(requests \ {r}, x) => Coming(requests \ {r}, x)
    BY DEF ToCome, Coming
  <2> QED BY <1>1, <2>1, LoadTaken
<1>2. CASE ~ToCome(requests, x) /\ \E q \in requests :
             q.kind = "load" /\ \E i \in 1 .. Len(q.chain) : q.chain[i].el = x
  <2>1. PICK q \in requests :
          q.kind = "load" /\ \E i \in 1 .. Len(q.chain) : q.chain[i].el = x
    BY <1>2
  <2>2. PICK i \in 1 .. Len(q.chain) : q.chain[i].el = x
    BY <2>1
  <2>3. i = 1
    <3>1. i \notin 2 .. Len(q.chain)
      BY <1>2, <2>1, <2>2 DEF ToCome
    <3> QED BY <3>1
  <2>4. q # r
    BY <2>2, <2>3
  <2> QED BY <2>1, <2>4 DEF Coming
<1>3. CASE ~\E q \in requests :
             q.kind = "load" /\ \E i \in 1 .. Len(q.chain) : q.chain[i].el = x
  BY <1>3 DEF Coming
<1> QED BY <1>1, <1>2, <1>3

LEMMA ButtonLoads ==
  ASSUME ReqInv, ButtonInv, AnswerLoad \/ RefuseLoad
  PROVE  ButtonInv'
<1> SUFFICES ASSUME NEW x \in Button, x \in busy'
             PROVE  Coming(requests', x) \/ last'[x] = "failed"
  BY DEF ButtonInv
<1>0. x \in SectionName
  BY ButtonNames
<1>1. ASSUME NEW r \in requests, LoadShape(r), r.kind = "load", NEW how,
             NEW chains \in SUBSET Chain, Rest(r) \subseteq chains,
             Start(chains, requests \ {r}, Ended(last, r.chain[1].el, how), KEY, filter),
             x \in busy, r.chain[1].el # x
      PROVE  Coming(requests', x) \/ last'[x] = "failed"
  <2> DEFINE l == Ended(last, r.chain[1].el, how)
  <2>1. l[x] = last[x]
    BY <1>0, <1>1, RestChains, EndedIs DEF ReqInv
  <2>2. Coming(requests, x) => Coming(requests \ {r}, x) \/ Reads(chains, x)
    BY <1>1, ButtonTaken DEF Reads
  <2>3. Coming(requests \ {r}, x) \/ l[x] = "failed" \/ Reads(chains, x)
    BY <1>1, <2>1, <2>2 DEF ButtonInv
  <2> HIDE DEF l
  <2>4. Start(chains, requests \ {r}, l, KEY, filter)
    BY <1>1 DEF l
  <2> QED BY <2>3, <2>4, ButtonStarts
<1>2. CASE AnswerLoad
  <2>1. PICK r \in requests :
          /\ r.kind = "load" /\ busy' = busy \ {r.chain[1].el}
          /\ Start(Rest(r) \cup FollowUps(r.chain[1].el), requests \ {r},
                   Ended(last, r.chain[1].el, "ok"), KEY, filter)
    BY <1>2 DEF AnswerLoad
  <2>2. LoadShape(r)
    BY <2>1 DEF ReqInv, Shaped
  <2>3. Rest(r) \cup FollowUps(r.chain[1].el) \subseteq Chain
    BY <2>2, RestChains, LoaderChains DEF FollowUps
  <2> QED BY <1>1, <2>1, <2>2, <2>3
<1>3. CASE RefuseLoad
  <2>1. PICK r \in requests :
          /\ r.kind = "load"
          /\ LET s == r.chain[1]
             IN IF s.guarded
                THEN /\ busy' = busy \ {s.at}
                     /\ Start(Rest(r), requests \ {r},
                              Ended(last, s.el, IF s.at = s.el THEN "ok" ELSE "failed"),
                              KEY, filter)
                ELSE /\ requests' = requests \ {r} /\ last' = Dropped(last, r.chain)
                     /\ UNCHANGED busy
    BY <1>3 DEF RefuseLoad
  <2>2. LoadShape(r) /\ r.chain \in Chain
    BY <2>1 DEF ReqInv, Shaped, LoadShape
  <2>3. r.chain[1] \in Section /\ DOMAIN r.chain = 1 .. Len(r.chain) /\ 1 \in 1 .. Len(r.chain)
    BY <2>2 DEF Chain
  <2>4. CASE r.chain[1].guarded
    <3>1. x \in busy /\ x # r.chain[1].at
      BY <2>1, <2>4
    <3>2. r.chain[1].el # x
      BY <2>3, <2>4, <3>1 DEF Section, Button
    <3>3. Rest(r) \subseteq Chain
      BY <2>2, RestChains
    <3> QED BY <1>1, <2>1, <2>2, <2>4, <3>1, <3>2, <3>3
  <2>5. CASE ~r.chain[1].guarded
    <3>1. requests' = requests \ {r} /\ last' = Dropped(last, r.chain) /\ x \in busy
      BY <2>1, <2>5
    <3>2. x \in Region
      BY ButtonNames
    <3>3. CASE \E i \in DOMAIN r.chain : r.chain[i].el = x
      BY <3>1, <3>2, <3>3 DEF Dropped, Sections
    <3>4. CASE ~\E i \in DOMAIN r.chain : r.chain[i].el = x
      <4>1. last'[x] = last[x]
        BY <3>1, <3>2, <3>4 DEF Dropped, Sections
      <4>2. Coming(requests, x) => Coming(requests', x)
        BY <2>3, <3>1, <3>4, <2>1 DEF Coming
      <4> QED BY <3>1, <4>1, <4>2 DEF ButtonInv
    <3> QED BY <3>3, <3>4
  <2> QED BY <2>4, <2>5
<1> QED BY <1>2, <1>3

\* A change or a push that is answered reads the button's region again.
LEMMA ButtonChanges ==
  ASSUME ReqInv, ButtonInv, AnswerChange \/ RefuseChange \/ AnswerPush
  PROVE  ButtonInv'
<1> SUFFICES ASSUME NEW x \in Button, x \in busy'
             PROVE  Coming(requests', x) \/ last'[x] = "failed"
  BY DEF ButtonInv
<1>1. UNCHANGED busy /\ (Coming(requests, x) \/ last[x] = "failed")
  BY DEF ButtonInv, AnswerChange, RefuseChange, AnswerPush
<1>2. \A r : Shaped(requests \ {r})
  BY DEF ReqInv, Shaped
<1>3. ASSUME NEW rs, Shaped(rs), NEW y, Coming(rs, x) PROVE Coming(Aged(rs, y), x)
  <2>1. CASE x = "installs" /\ \E q \in rs : q.kind = "push"
    <3>1. PICK q \in rs : q.kind = "push"
      BY <2>1
    <3>2. q \in Aged(rs, y)
      BY <1>3, <3>1, AgedLoads DEF Loads
    <3> QED BY <2>1, <3>1, <3>2 DEF Coming
  <2>2. CASE x = "sources" /\ \E q \in rs : q.kind = "change" /\ q.el = "sources"
    <3>1. PICK q \in rs : q.kind = "change" /\ q.el = "sources"
      BY <2>2
    <3>2. q \in Aged(rs, y)
      BY <1>3, <3>1, AgedLoads DEF Loads
    <3> QED BY <2>2, <3>1, <3>2 DEF Coming
  <2>3. CASE \E q \in rs : q.kind = "load" /\ \E i \in 1 .. Len(q.chain) : q.chain[i].el = x
    <3>1. PICK q \in rs : q.kind = "load" /\ \E i \in 1 .. Len(q.chain) : q.chain[i].el = x
      BY <2>3
    <3>2. \E r \in Aged(rs, y) : r.kind = "load" /\ r.chain = q.chain
      BY <1>3, <3>1, AgedKept
    <3> QED BY <3>1, <3>2 DEF Coming
  <2> QED BY <1>3, <2>1, <2>2, <2>3 DEF Coming
<1>4. CASE AnswerChange
  <2>1. PICK r \in requests :
          /\ r.kind = "change"
          /\ Start(ReloadAfter[r.el], Aged(requests \ {r}, r.el), last, KEY, filter)
    BY <1>4 DEF AnswerChange
  <2>2. ReloadAfter[r.el] \subseteq Chain /\ Reads(ReloadAfter[r.el], r.el)
    BY <2>1, ReloadReads DEF ReqInv, Shaped
  <2>3. CASE r.el = x
    BY <2>1, <2>2, <2>3, ButtonStarts
  <2>4. CASE r.el # x
    <3>1. Coming(requests, x) => Coming(requests \ {r}, x)
      BY <2>1, <2>4 DEF Coming
    <3>2. Coming(requests, x) => Coming(Aged(requests \ {r}, r.el), x)
      BY <1>2, <1>3, <3>1
    <3> QED BY <1>1, <2>1, <2>2, <3>2, ButtonStarts
  <2> QED BY <2>3, <2>4
<1>5. CASE RefuseChange
  <2>1. PICK r \in requests :
          /\ r.kind = "change"
          /\ IF r.el = "sources"
             THEN Start(loadSources, requests \ {r}, last, KEY, filter)
             ELSE requests' = requests \ {r} /\ UNCHANGED last
    BY <1>5 DEF RefuseChange
  <2>2. CASE r.el # "sources"
    BY <1>1, <2>1, <2>2 DEF Coming
  <2>3. CASE r.el = "sources"
    <3>1. Reads(loadSources, "sources")
      <4>1. "sources" \in ChangeName /\ ReloadAfter["sources"] = loadSources
        BY DEF ChangeName, ReloadAfter
      <4> QED BY <4>1, ReloadReads
    <3>2. x # "sources" /\ Coming(requests, x) => Coming(requests \ {r}, x)
      BY <2>1 DEF Coming
    <3> QED BY <1>1, <2>1, <2>3, <3>1, <3>2, LoaderChains, ButtonStarts
  <2> QED BY <2>2, <2>3
<1>6. CASE AnswerPush
  <2>1. PICK r \in requests :
          /\ r.kind = "push"
          /\ \E run \in showRuns, list \in loadProvisioning :
               Start({run \o list}, Aged(requests \ {r}, "installs"), last, KEY, filter)
    BY <1>6 DEF AnswerPush
  <2>2. PICK run \in showRuns, list \in loadProvisioning :
          Start({run \o list}, Aged(requests \ {r}, "installs"), last, KEY, filter)
    BY <2>1
  <2>3. {run \o list} \subseteq Chain /\ Reads({run \o list}, "installs")
    BY PushReads
  <2>4. x # "installs" /\ Coming(requests, x) => Coming(Aged(requests \ {r}, "installs"), x)
    <3>1. x # "installs" /\ Coming(requests, x) => Coming(requests \ {r}, x)
      BY <2>1 DEF Coming
    <3> QED BY <1>2, <1>3, <3>1
  <2> QED BY <1>1, <2>2, <2>3, <2>4, ButtonStarts
<1> QED BY <1>4, <1>5, <1>6

\* A disabled button comes back: when all is answered, one that is still disabled
\* is in a region whose last load failed (console.js, push() and scan-all).
THEOREM TheButtonsComeBack == ConsoleSpec => []ButtonsComeBack
<1>1. ConsoleInit => ButtonInv
  BY DEF ConsoleInit, ButtonInv
<1>2. ButtonInv => ButtonsComeBack
  BY DEF ButtonInv, ButtonsComeBack, Button, Coming
<1>3. ReqInv /\ MeInv /\ ButtonInv /\ [ConsoleNext]_consoleVars => ButtonInv'
  BY ButtonBystanders, ButtonsAsk, ButtonLoads, ButtonChanges
  DEF ConsoleNext, User, Answer
<1> QED BY <1>1, <1>2, <1>3, SessionInvariant, PTL DEF ConsoleSpec

-----------------------------------------------------------------------------
(* Types *)

Went == {"none", "sent", "ok", "failed", "raced"}

AppType(r) == r.kind \in {"status", "cred"} => r.app \in App \cup {NoApp}

Typed(rs) == \A r \in rs : RequestType(r) /\ AppType(r)

\* The requests and how they went.
AskedType ==
  Typed(requests) /\ last \in [Region -> Went] /\ KEY \in Key \cup {NoKey}

\* The wizard.
OBType ==
  /\ OB \in [team : BOOLEAN, app : App \cup {NoApp}, active : BOOLEAN,
             step : 1 .. 4, cred : App \cup {NoApp}]
  /\ server \in [App -> {"none", "pending", "active"}]

\* The regions.
ShownType ==
  /\ DOMAIN shown = Region /\ \A el \in Region : shown[el].old \in BOOLEAN
  /\ filter \in [Filtered -> Choice \cup {NoChoice}]
  /\ busy \subseteq Region

\* What is left: the classes, the editor and the bounds.
RestType ==
  /\ body \in [ro : BOOLEAN, noadmin : BOOLEAN]
  /\ EDITING \in Folder \cup {NoFolder}
  /\ rules \in [of : Folder \cup {NoFolder}, typed : BOOLEAN]
  /\ inputs \in 0 .. MaxInputs /\ failures \in 0 .. MaxFailures

LEMMA TypedStart ==
  ASSUME NEW chains \in SUBSET Chain, NEW rs, Typed(rs), NEW l \in [Region -> Went],
         NEW k \in Key \cup {NoKey}, NEW f, Start(chains, rs, l, k, f)
  PROVE  Typed(requests') /\ last' \in [Region -> Went]
<1>1. requests' = rs \cup {Load(c, k, f) : c \in chains} /\ last' = Marked(l, rs, chains, k, f)
  BY DEF Start
<1>2. ASSUME NEW c \in chains
      PROVE  RequestType(Load(c, k, f)) /\ AppType(Load(c, k, f))
  <2>1. c # <<>> /\ Young \in BOOLEAN
    BY DEF Chain, Young
  <2> QED BY <2>1, LoadIs DEF RequestType, AppType
<1>3. last' \in [Region -> Went]
  BY <1>1 DEF Marked, Went
<1> QED BY <1>1, <1>2, <1>3 DEF Typed

LEMMA TypedEnded ==
  ASSUME NEW l \in [Region -> Went], NEW el, NEW how \in Went
  PROVE  Ended(l, el, how) \in [Region -> Went]
BY DEF Ended

LEMMA TypedAged ==
  ASSUME NEW rs, Typed(rs), Shaped(rs), NEW x
  PROVE  Typed(Aged(rs, x))
<1> SUFFICES ASSUME NEW r \in Aged(rs, x) PROVE RequestType(r) /\ AppType(r)
  BY DEF Typed
<1>1. CASE r \in rs
  BY <1>1 DEF Typed
<1>2. CASE \E q \in Loads(rs, x) :
             /\ r.kind = "load" /\ r.chain = q.chain /\ r.key = q.key
             /\ r.arg = q.arg /\ r.old = Outdated
  <2>1. Outdated \in BOOLEAN
    BY DEF Outdated
  <2> QED BY <1>2, <2>1 DEF Typed, RequestType, AppType, Loads
<1> QED BY <1>1, <1>2, AgedLoads

LEMMA AskedInit == ConsoleInit => AskedType
<1> SUFFICES ASSUME ConsoleInit PROVE AskedType
  OBVIOUS
<1> DEFINE chains == IF KEY = NoKey THEN {} ELSE Loader[tab]
<1>1. /\ requests = {Load(c, KEY, filter) : c \in chains}
                      \cup IF KEY = NoKey THEN {} ELSE {Me(KEY)}
      /\ last = [el \in Region |->
             IF el \in {c[1].el : c \in chains} \/ (el = "me" /\ KEY # NoKey)
             THEN "sent" ELSE "none"]
      /\ KEY \in Key \cup {NoKey} /\ tab \in Tab
  BY OpenedAssumption DEF ConsoleInit, Key
<1>2. chains \subseteq Chain
  BY <1>1, LoaderChains
<1>3. ASSUME NEW c \in chains
      PROVE  RequestType(Load(c, KEY, filter)) /\ AppType(Load(c, KEY, filter))
  <2>1. c # <<>> /\ Young \in BOOLEAN
    BY <1>2 DEF Chain, Young
  <2> QED BY <1>1, <2>1, LoadIs DEF RequestType, AppType
<1>4. RequestType(Me(KEY)) /\ AppType(Me(KEY))
  BY <1>1 DEF RequestType, AppType, Me
<1>5. Typed(requests)
  BY <1>1, <1>3, <1>4 DEF Typed
<1> QED BY <1>1, <1>5 DEF AskedType, Went

\* A request is taken away or added, and a mark of the session or the wizard set.
LEMMA AskedPlain ==
  ASSUME AskedType, KEY' \in Key \cup {NoKey},
         \A r \in requests' : r \in requests \/ (RequestType(r) /\ AppType(r)),
         \/ UNCHANGED last
         \/ \E v \in Went : \E el : last' = [last EXCEPT ![el] = v]
  PROVE  AskedType'
<1>1. Typed(requests')
  BY DEF AskedType, Typed
<1>2. last' \in [Region -> Went]
  BY DEF AskedType
<1>3. Typed(requests)'
  BY <1>1 DEF Typed, RequestType, AppType
<1> QED BY <1>2, <1>3 DEF AskedType, Went

\* Chains are started: what has been asked for is typed.
LEMMA AskedStart ==
  ASSUME NEW chains \in SUBSET Chain, NEW rs, Typed(rs), NEW l \in [Region -> Went],
         NEW f, AskedType, Start(chains, rs, l, KEY, f), UNCHANGED KEY
  PROVE  AskedType'
<1>1. Typed(requests') /\ last' \in [Region -> Went]
  BY TypedStart DEF AskedType
<1>2. Typed(requests)'
  BY <1>1 DEF Typed, RequestType, AppType
<1> QED BY <1>1, <1>2 DEF AskedType, Went

LEMMA AskedTaken ==
  ASSUME AskedType, ReqInv, NEW r
  PROVE  /\ Typed(requests \ {r})
         /\ \A el : Typed(Aged(requests \ {r}, el))
         /\ \A el : \A how \in Went : Ended(last, el, how) \in [Region -> Went]
<1>1. Typed(requests \ {r}) /\ Shaped(requests \ {r})
  BY DEF AskedType, Typed, ReqInv, Shaped
<1> QED BY <1>1, TypedAged, TypedEnded DEF AskedType

\* A request that is sent with the key typed in.
LEMMA AskedSent ==
  ASSUME AskedType, NEW r, r.key = KEY,
         r.kind \in {"change", "push", "create"} \/ (r.kind \in {"status", "cred"}
                                                     /\ r.app \in App \cup {NoApp})
  PROVE  RequestType(r) /\ AppType(r)
BY DEF AskedType, RequestType, AppType

LEMMA AskedUser ==
  ASSUME AskedType, ReqInv, OBType,
         Connect \/ Click \/ Push \/ Credential \/ Next2 \/ obStatus
  PROVE  AskedType'
<1>0. OB.app \in App \cup {NoApp}
  BY DEF OBType
<1>1. CASE Connect
  <2> DEFINE v == IF \E r \in requests : r.kind = "me" THEN "raced" ELSE "sent"
  <2>1. /\ last' = [last EXCEPT !["me"] = v] /\ v \in Went
        /\ requests' = requests \cup {Me(KEY')} /\ KEY' \in Key
    BY <1>1 DEF Connect, Went
  <2> HIDE DEF v
  <2>2. RequestType(Me(KEY')) /\ AppType(Me(KEY'))
    BY <2>1 DEF RequestType, AppType, Me
  <2> QED BY <2>1, <2>2, AskedPlain
<1>2. ASSUME NEW r, Send(r), r.key = KEY, UNCHANGED KEY,
             r.kind \in {"change", "push"} \/ (r.kind = "cred" /\ r.app = OB.app)
      PROVE  AskedType'
  <2>1. RequestType(r) /\ AppType(r)
    BY <1>0, <1>2, AskedSent
  <2> QED BY <1>2, <2>1, AskedPlain DEF AskedType, Send
<1>4. CASE Click
  <2>1. PICK c \in Change : Send([kind |-> "change", key |-> KEY, el |-> c.el])
    BY <1>4 DEF Click
  <2> QED BY <1>2, <1>4, <2>1 DEF Click, session
<1>5. CASE Push
  BY <1>2, <1>5 DEF Push, session
<1>6. CASE Credential
  BY <1>2, <1>6 DEF Credential, session
<1>3. ASSUME NEW r, ToWizard(r), r.key = KEY, UNCHANGED KEY,
             r.kind = "create" \/ (r.kind = "status" /\ r.app = OB.app)
      PROVE  AskedType'
  <2> DEFINE v == IF \E q \in requests : q.kind \in {"create", "status"} THEN "raced"
                  ELSE "ok"
  <2>1. /\ last' = [last EXCEPT !["wizard"] = v] /\ v \in Went
        /\ requests' = requests \cup {r}
    BY <1>3 DEF ToWizard, Went
  <2> HIDE DEF v
  <2>2. RequestType(r) /\ AppType(r)
    BY <1>0, <1>3, AskedSent
  <2> QED BY <1>3, <2>1, <2>2, AskedPlain DEF AskedType
<1>7. CASE Next2
  BY <1>3, <1>7 DEF Next2, session
<1>8. CASE obStatus
  <2>1. Status(KEY, OB.app).kind = "status" /\ Status(KEY, OB.app).app = OB.app
        /\ Status(KEY, OB.app).key = KEY
    BY DEF Status
  <2> QED BY <1>3, <1>8, <2>1 DEF obStatus, session
<1> QED BY <1>1, <1>4, <1>5, <1>6, <1>7, <1>8

LEMMA AskedWizard ==
  ASSUME AskedType, ReqInv, OBType,
         AnswerCreate \/ AnswerStatus \/ AnswerCredential \/ RefuseWizard
  PROVE  AskedType'
<1>1. UNCHANGED KEY
  BY ZenonT(60) DEF AnswerCreate, AnswerStatus, AnswerCredential, RefuseWizard, session
<1>2. CASE AnswerStatus \/ AnswerCredential \/ RefuseWizard
  <2>1. requests' \subseteq requests /\ UNCHANGED last
    BY <1>2 DEF AnswerStatus, AnswerCredential, RefuseWizard
  <2> QED BY <1>1, <2>1, AskedPlain DEF AskedType
<1>3. CASE AnswerCreate
  <2>1. PICK r \in requests, a \in App, s \in {"pending", "active"} : Created(r, a, s)
    BY <1>3, AnswerCreateShape, ZenonT(60)
  <2> DEFINE v == IF \E q \in requests : q.kind = "status" THEN "raced"
                  ELSE last["wizard"]
             q == [kind |-> "status", key |-> KEY, app |-> a, was |-> s]
  <2>2. /\ requests' \subseteq requests \cup {q}
        /\ last' = last \/ last' = [last EXCEPT !["wizard"] = v]
    BY <2>1 DEF Created
  <2>3. RequestType(q) /\ AppType(q)
    BY AskedSent
  <2>4. v \in Went
    BY DEF AskedType, Went, Region
  <2> HIDE DEF v, q
  <2> QED BY <1>1, <2>2, <2>3, <2>4, AskedPlain DEF AskedType
<1> QED BY <1>2, <1>3

LEMMA AskedReads ==
  ASSUME AskedType, ReqInv, Show \/ AnswerMe \/ Look \/ Pick
  PROVE  AskedType'
<1>0. UNCHANGED KEY /\ Typed(requests) /\ last \in [Region -> Went]
  BY DEF Show, AnswerMe, Look, Pick, session, AskedType
<1>1. CASE Show
  <2>1. tab' \in Tab
    BY <1>1, OpenedAssumption DEF Show
  <2>2. \/ requests' = requests /\ UNCHANGED last
        \/ Start(Loader[tab'], requests, last, KEY, filter)
    BY <1>1 DEF Show
  <2> QED BY <1>0, <2>1, <2>2, LoaderChains, AskedStart, AskedPlain DEF AskedType
<1>2. CASE AnswerMe
  <2>1. PICK r \in requests :
          \/ Start(Loader[tab], requests \ {r}, Ended(last, "me", "ok"), KEY, filter)
          \/ requests' = requests \ {r} /\ last' = Ended(last, "me", "failed")
    BY <1>2 DEF AnswerMe
  <2>2. Loader[tab] \subseteq Chain
    BY TabIsTab, LoaderChains
  <2>3. /\ Ended(last, "me", "ok") \in [Region -> Went]
        /\ Ended(last, "me", "failed") \in [Region -> Went] /\ Typed(requests \ {r})
    BY AskedTaken DEF Went
  <2>4. CASE Start(Loader[tab], requests \ {r}, Ended(last, "me", "ok"), KEY, filter)
    BY <1>0, <2>2, <2>3, <2>4, AskedStart
  <2>5. CASE requests' = requests \ {r} /\ last' = Ended(last, "me", "failed")
    <3>1. Typed(requests)'
      BY <2>3, <2>5 DEF Typed, RequestType, AppType
    <3> QED BY <1>0, <2>3, <2>5, <3>1 DEF AskedType, Went
  <2> QED BY <2>1, <2>4, <2>5
<1>3. CASE Look
  <2>1. \/ Start(showRuns, requests, last, KEY, filter)
        \/ Start({<<Part("scan")>>}, requests, last, KEY, filter)
    BY <1>3 DEF Look
  <2> QED BY <1>0, <2>1, LoaderChains, AskedStart
<1>4. CASE Pick
  <2>1. \E chains \in {loadFindings, loadSshKeys, loadEffective, {}} :
          Start(chains, requests, last, KEY, filter')
    BY <1>4 DEF Pick
  <2> QED BY <1>0, <2>1, LoaderChains, AskedStart
<1> QED BY <1>1, <1>2, <1>3, <1>4

LEMMA AskedAnswers ==
  ASSUME AskedType, ReqInv,
         AnswerLoad \/ RefuseLoad \/ AnswerChange \/ RefuseChange \/ AnswerPush
  PROVE  AskedType'
<1>0. UNCHANGED KEY /\ last \in [Region -> Went] /\ {"ok", "failed"} \subseteq Went
  BY DEF AnswerLoad, RefuseLoad, AnswerChange, RefuseChange, AnswerPush, session,
    AskedType, Went
<1>1. CASE AnswerLoad
  <2>1. PICK r \in requests :
          /\ r.kind = "load"
          /\ Start(Rest(r) \cup FollowUps(r.chain[1].el), requests \ {r},
                   Ended(last, r.chain[1].el, "ok"), KEY, filter)
    BY <1>1 DEF AnswerLoad
  <2>2. Rest(r) \cup FollowUps(r.chain[1].el) \subseteq Chain
    BY <2>1, RestChains, LoaderChains DEF FollowUps, ReqInv, Shaped
  <2> QED BY <1>0, <2>1, <2>2, AskedTaken, AskedStart
<1>2. CASE RefuseLoad
  <2>1. PICK r \in requests :
          /\ r.kind = "load"
          /\ \/ \E how \in {"ok", "failed"} :
                  Start(Rest(r), requests \ {r}, Ended(last, r.chain[1].el, how), KEY, filter)
             \/ requests' = requests \ {r} /\ last' = Dropped(last, r.chain)
    BY <1>2 DEF RefuseLoad
  <2>2. Rest(r) \subseteq Chain
    BY <2>1, RestChains DEF ReqInv, Shaped
  <2>3. CASE \E how \in {"ok", "failed"} :
               Start(Rest(r), requests \ {r}, Ended(last, r.chain[1].el, how), KEY, filter)
    BY <1>0, <2>2, <2>3, AskedTaken, AskedStart
  <2>4. CASE requests' = requests \ {r} /\ last' = Dropped(last, r.chain)
    <3>1. Typed(requests)'
      BY <2>4, AskedTaken DEF Typed, RequestType, AppType
    <3>2. last' \in [Region -> Went]
      BY <1>0, <2>4 DEF Dropped
    <3> QED BY <1>0, <3>1, <3>2 DEF AskedType, Went
  <2> QED BY <2>1, <2>3, <2>4
<1>3. CASE AnswerChange
  <2>1. PICK r \in requests :
          /\ r.kind = "change"
          /\ Start(ReloadAfter[r.el], Aged(requests \ {r}, r.el), last, KEY, filter)
    BY <1>3 DEF AnswerChange
  <2>2. ReloadAfter[r.el] \subseteq Chain
    BY <2>1, ReloadReads DEF ReqInv, Shaped
  <2> QED BY <1>0, <2>1, <2>2, AskedTaken, AskedStart
<1>4. CASE RefuseChange
  <2>1. PICK r \in requests :
          \/ Start(loadSources, requests \ {r}, last, KEY, filter)
          \/ requests' = requests \ {r} /\ UNCHANGED last
    BY <1>4 DEF RefuseChange
  <2>2. CASE requests' = requests \ {r} /\ UNCHANGED last
    BY <1>0, <2>2, AskedPlain DEF AskedType
  <2> QED BY <1>0, <2>1, <2>2, LoaderChains, AskedTaken, AskedStart
<1>5. CASE AnswerPush
  <2>1. PICK r \in requests, run \in showRuns, list \in loadProvisioning :
          Start({run \o list}, Aged(requests \ {r}, "installs"), last, KEY, filter)
    BY <1>5 DEF AnswerPush
  <2>2. {run \o list} \subseteq Chain
    BY PushReads
  <2> QED BY <1>0, <2>1, <2>2, AskedTaken, AskedStart
<1> QED BY <1>1, <1>2, <1>3, <1>4, <1>5

LEMMA AskedStep ==
  ASSUME AskedType, ReqInv, OBType, [ConsoleNext]_consoleVars
  PROVE  AskedType'
<1>1. CASE \/ UNCHANGED consoleVars \/ Next1 \/ Back2 \/ EditFolder \/ TypeRule \/ Approve
  <2>1. UNCHANGED <<KEY, requests, last>>
    BY <1>1 DEF consoleVars, session, pageVars, Next1, Back2, EditFolder, TypeRule, Approve
  <2> QED BY <2>1, AskedPlain DEF AskedType
<1> QED BY <1>1, AskedUser, AskedWizard, AskedReads, AskedAnswers
  DEF ConsoleNext, User, Answer

LEMMA OBTypeStep ==
  ASSUME OBType, AskedType, [ConsoleNext]_consoleVars
  PROVE  OBType'
<1>1. CASE UNCHANGED <<OB, server>>
  BY <1>1 DEF OBType
<1>2. ASSUME NEW a \in App \cup {NoApp}, NEW t \in BOOLEAN, NEW n \in 1 .. 4,
             OB' = [OB EXCEPT !.app = a, !.active = t, !.step = n],
             server' \in [App -> {"none", "pending", "active"}]
      PROVE  OBType'
  BY <1>2 DEF OBType
<1>3. CASE AnswerLoad
  <2>1. UNCHANGED server /\ (OB' = OB \/ OB' = [OB EXCEPT !.step = 1])
    BY <1>3 DEF AnswerLoad, Rendered
  <2>2. CASE OB' = [OB EXCEPT !.step = 1]
    BY <2>1, <2>2 DEF OBType
  <2> QED BY <1>1, <2>1, <2>2
<1>4. CASE Next1
  <2>1. PICK picked \in BOOLEAN :
          OB' = [OB EXCEPT !.team = picked, !.step = IF picked THEN 2 ELSE OB.step]
    BY <1>4 DEF Next1
  <2>2. UNCHANGED server
    BY <1>4 DEF Next1
  <2> DEFINE n == IF picked THEN 2 ELSE OB.step
  <2>3. n \in 1 .. 4
    BY DEF OBType
  <2> HIDE DEF n
  <2>4. OB' = [OB EXCEPT !.team = picked, !.step = n]
    BY <2>1 DEF n
  <2> QED BY <2>2, <2>3, <2>4 DEF OBType
<1>5. CASE Back2
  BY <1>5 DEF Back2, OBType
<1>6. CASE AnswerCreate
  <2>1. PICK r \in requests, a \in App, s \in {"pending", "active"} :
          /\ server' = [server EXCEPT ![a] = s]
          /\ OB' = [OB EXCEPT !.app = a, !.active = (s = "active"),
                              !.step = IF s = "active" THEN 4 ELSE 3]
    BY <1>6, AnswerCreateShape, ZenonT(60)
  <2> DEFINE t == s = "active"
             n == IF s = "active" THEN 4 ELSE 3
  <2>2. OB' = [OB EXCEPT !.app = a, !.active = t, !.step = n]
    BY <2>1
  <2>3. t \in BOOLEAN /\ n \in 1 .. 4
    OBVIOUS
  <2>4. server' \in [App -> {"none", "pending", "active"}]
    BY <2>1 DEF OBType
  <2> HIDE DEF t, n
  <2> QED BY <1>2, <2>2, <2>3, <2>4, ZenonT(60)
<1>7. CASE AnswerStatus
  <2>1. PICK r \in requests :
          /\ r.kind = "status"
          /\ \E s : OB' = [OB EXCEPT !.app = r.app, !.active = (s = "active"),
                                     !.step = IF s = "active" THEN 4 ELSE OB.step]
    BY <1>7 DEF AnswerStatus
  <2>2. PICK s : OB' = [OB EXCEPT !.app = r.app, !.active = (s = "active"),
                                  !.step = IF s = "active" THEN 4 ELSE OB.step]
    BY <2>1
  <2>3. UNCHANGED server /\ r.app \in App \cup {NoApp}
    BY <1>7, <2>1 DEF AnswerStatus, AskedType, Typed, AppType
  <2> DEFINE t == s = "active"
             n == IF s = "active" THEN 4 ELSE OB.step
  <2>4. OB' = [OB EXCEPT !.app = r.app, !.active = t, !.step = n]
    BY <2>2
  <2>5. t \in BOOLEAN /\ n \in 1 .. 4
    BY DEF OBType
  <2>6. server' \in [App -> {"none", "pending", "active"}]
    BY <2>3 DEF OBType
  <2> HIDE DEF t, n
  <2> QED BY <1>2, <2>3, <2>4, <2>5, <2>6
<1>8. CASE AnswerCredential
  <2>1. PICK r \in requests : r.kind = "cred" /\ OB' = [OB EXCEPT !.cred = r.app]
    BY <1>8 DEF AnswerCredential
  <2>2. UNCHANGED server /\ r.app \in App \cup {NoApp}
    BY <1>8, <2>1 DEF AnswerCredential, AskedType, Typed, AppType
  <2> QED BY <2>1, <2>2 DEF OBType
<1>9. CASE Approve
  BY <1>9 DEF Approve, OBType
<1>10. ~(AnswerLoad \/ Next1 \/ Back2 \/ AnswerCreate \/ AnswerStatus \/ AnswerCredential
         \/ Approve) => UNCHANGED <<OB, server>>
  BY DEF ConsoleNext, User, Answer, consoleVars, wizard, Show, Connect, Click, Push, Look,
    Pick, Next2, obStatus, Credential, EditFolder, TypeRule, AnswerMe, RefuseLoad,
    AnswerChange, RefuseChange, AnswerPush, RefuseWizard
<1> QED BY <1>1, <1>3, <1>4, <1>5, <1>6, <1>7, <1>8, <1>9, <1>10

LEMMA ShownTypeStep ==
  ASSUME ShownType, AskedType, ReqInv, PageInv, [ConsoleNext]_consoleVars
  PROVE  ShownType'
<1>1. CASE UNCHANGED <<shown, filter, busy>>
  BY <1>1 DEF ShownType
<1>2. CASE AnswerLoad
  <2>1. PICK r \in requests :
          /\ r.kind = "load"
          /\ shown' = [shown EXCEPT ![r.chain[1].el] = Content(r.key, r.arg, r.old)]
          /\ busy' = busy \ {r.chain[1].el}
    BY <1>2 DEF AnswerLoad
  <2>2. r.old \in BOOLEAN
    BY <2>1 DEF AskedType, Typed, RequestType
  <2>3. Content(r.key, r.arg, r.old).old = r.old
    BY DEF Content
  <2>4. UNCHANGED filter
    BY <1>2 DEF AnswerLoad
  <2> QED BY <2>1, <2>2, <2>3, <2>4 DEF ShownType
<1>3. CASE RefuseLoad
  <2>1. \/ UNCHANGED <<shown, busy>>
        \/ \E el : /\ shown' = [shown EXCEPT ![el] = Refused]
                   /\ busy' = busy \ {el}
    BY <1>3 DEF RefuseLoad
  <2>2. Refused.old \in BOOLEAN
    BY DEF Refused, Content
  <2>3. UNCHANGED filter
    BY <1>3 DEF RefuseLoad
  <2> QED BY <2>1, <2>2, <2>3 DEF ShownType
<1>4. ASSUME NEW x \in Region, UNCHANGED <<filter, busy>>,
             shown' = [shown EXCEPT ![x].old = @ \/ shown[x] \notin {Blank, Refused}]
      PROVE  ShownType'
  <2> DEFINE t == shown[x].old \/ shown[x] \notin {Blank, Refused}
             v == [shown[x] EXCEPT !.old = t]
  <2>1. t \in BOOLEAN
    BY Zenon
  <2>2. shown' = [shown EXCEPT ![x] = v]
    BY <1>4, Zenon DEF ShownType
  <2>3. PICK k, a, o : shown[x] = [key |-> k, arg |-> a, old |-> o]
    BY DEF PageInv, ShownShape, Blank, Refused, Content
  <2> HIDE DEF t
  <2>4. v.old = t
    BY <2>3
  <2> HIDE DEF v
  <2> QED BY <1>4, <2>1, <2>2, <2>4 DEF ShownType
<1>5. CASE AnswerChange
  <2>1. PICK r \in requests :
          /\ r.kind = "change"
          /\ shown' = [shown EXCEPT ![r.el].old = @ \/ shown[r.el] \notin {Blank, Refused}]
    BY <1>5, Zenon DEF AnswerChange
  <2>2. r.el \in Region
    BY <2>1, ReloadReads, SectionsHaveRegions DEF ReqInv, Shaped
  <2>3. UNCHANGED <<filter, busy>>
    BY <1>5 DEF AnswerChange
  <2> QED BY <1>4, <2>1, <2>2, <2>3
<1>6. CASE AnswerPush
  <2>1. shown' = [shown EXCEPT !["installs"].old =
                    @ \/ shown["installs"] \notin {Blank, Refused}]
    BY <1>6, Zenon DEF AnswerPush
  <2>2. "installs" \in Region
    BY ButtonNames DEF Button
  <2>3. UNCHANGED <<filter, busy>>
    BY <1>6 DEF AnswerPush
  <2> QED BY <1>4, <2>1, <2>2, <2>3
<1>7. CASE Pick
  <2>1. /\ UNCHANGED <<shown, busy>>
        /\ \E v \in Choice \cup {NoChoice} : \E x : filter' = [filter EXCEPT ![x] = v]
    BY <1>7 DEF Pick
  <2> QED BY <2>1 DEF ShownType
<1>8. CASE Click \/ Push
  <2>1. UNCHANGED <<shown, filter>> /\ busy' \subseteq busy \cup Button
    BY <1>8 DEF Click, Push, Button
  <2> QED BY <2>1, ButtonNames DEF ShownType
<1>9. ~(AnswerLoad \/ RefuseLoad \/ AnswerChange \/ AnswerPush \/ Pick \/ Click \/ Push)
        => UNCHANGED <<shown, filter, busy>>
  BY ZenonT(60) DEF ConsoleNext, User, Answer, consoleVars, pageVars, Show, Connect, Look, Next1,
    Back2, Next2, obStatus, Credential, EditFolder, TypeRule, AnswerMe, RefuseChange,
    AnswerCreate, AnswerStatus, AnswerCredential, RefuseWizard, Approve
<1> QED BY <1>1, <1>2, <1>3, <1>5, <1>6, <1>7, <1>8, <1>9

LEMMA RestTypeStep ==
  ASSUME RestType, [ConsoleNext]_consoleVars
  PROVE  RestType'
<1>1. inputs' \in 0 .. MaxInputs /\ failures' \in 0 .. MaxFailures
  <2>1. \/ UNCHANGED bounds
        \/ Input
        \/ \E k : Refuse(k)
    BY ZenonT(60) DEF ConsoleNext, User, Answer, consoleVars, Show, Connect, Click, Push, Look, Pick,
      Next1, Back2, Next2, obStatus, Credential, EditFolder, TypeRule, AnswerMe, AnswerLoad,
      RefuseLoad, AnswerChange, RefuseChange, AnswerPush, AnswerCreate, AnswerStatus,
      AnswerCredential, RefuseWizard, Approve
  <2>2. MaxInputs \in Nat /\ MaxFailures \in Nat
    BY ConsoleAssumption
  <2> QED BY <2>1, <2>2 DEF RestType, bounds, Input, Refuse
<1>2. body' \in [ro : BOOLEAN, noadmin : BOOLEAN]
  <2>1. UNCHANGED body \/ \E k : body' = Classes(k)
    BY DEF ConsoleNext, User, Answer, consoleVars, session, Show, Connect, Click, Push, Look,
      Pick, Next1, Back2, Next2, obStatus, Credential, EditFolder, TypeRule, AnswerMe,
      AnswerLoad, RefuseLoad, AnswerChange, RefuseChange, AnswerPush, AnswerCreate,
      AnswerStatus, AnswerCredential, RefuseWizard, Approve
  <2>2. ASSUME NEW k PROVE Classes(k) \in [ro : BOOLEAN, noadmin : BOOLEAN]
    <3> DEFINE a == k \notin AdminKey \cup OperatorKey
               b == k \notin AdminKey
    <3>1. a \in BOOLEAN /\ b \in BOOLEAN /\ Classes(k) = [ro |-> a, noadmin |-> b]
      BY DEF Classes
    <3> HIDE DEF a, b
    <3> QED BY <3>1
  <2> QED BY <2>1, <2>2 DEF RestType
<1>3. /\ EDITING' \in Folder \cup {NoFolder}
      /\ rules' \in [of : Folder \cup {NoFolder}, typed : BOOLEAN]
  <2> DEFINE no == FALSE
             yes == TRUE
  <2>1. no \in BOOLEAN /\ yes \in BOOLEAN
    OBVIOUS
  <2>2. CASE AnswerLoad
    <3>1. UNCHANGED EDITING /\ (rules' = rules \/ rules' = [of |-> NoFolder, typed |-> no])
      BY <2>2 DEF AnswerLoad, Rendered
    <3> HIDE DEF no
    <3> QED BY <2>1, <3>1 DEF RestType
  <2>3. CASE EditFolder
    <3>1. \E f \in Folder \cup {NoFolder} :
            EDITING' = f /\ rules' = [of |-> f, typed |-> no]
      BY <2>3 DEF EditFolder, editFolder
    <3> HIDE DEF no
    <3> QED BY <2>1, <3>1 DEF RestType
  <2>4. CASE TypeRule
    <3>1. UNCHANGED EDITING /\ rules' = [rules EXCEPT !.typed = yes]
      BY <2>4 DEF TypeRule
    <3> HIDE DEF yes
    <3> QED BY <2>1, <3>1 DEF RestType
  <2>5. ~(AnswerLoad \/ EditFolder \/ TypeRule) => UNCHANGED editor
    BY ZenonT(60) DEF ConsoleNext, User, Answer, consoleVars, editor, Show, Connect, Click,
      Push, Look, Pick, Next1, Back2, Next2, obStatus, Credential, AnswerMe, RefuseLoad,
      AnswerChange, RefuseChange, AnswerPush, AnswerCreate, AnswerStatus,
      AnswerCredential, RefuseWizard, Approve
  <2>6. CASE UNCHANGED editor
    BY <2>6 DEF editor, RestType
  <2> QED BY <2>2, <2>3, <2>4, <2>5, <2>6
<1> QED BY <1>1, <1>2, <1>3 DEF RestType

LEMMA TypesInit == ConsoleInit => OBType /\ ShownType /\ RestType
<1> SUFFICES ASSUME ConsoleInit PROVE OBType /\ ShownType /\ RestType
  OBVIOUS
<1>1. Blank.old \in BOOLEAN
  BY DEF Blank, Content
<1>2. ShownType
  BY <1>1 DEF ConsoleInit, ShownType
<1> DEFINE no == FALSE
<1>3. /\ no \in BOOLEAN /\ body = [ro |-> no, noadmin |-> no]
      /\ OB = [team |-> no, app |-> NoApp, active |-> no, step |-> 1, cred |-> NoApp]
      /\ rules = [of |-> NoFolder, typed |-> no] /\ EDITING = NoFolder
      /\ server = [a \in App |-> "none"] /\ inputs = 0 /\ failures = 0
  BY DEF ConsoleInit
<1> HIDE DEF no
<1>4. OBType
  BY <1>3 DEF OBType
<1>5. MaxInputs \in Nat /\ MaxFailures \in Nat
  BY ConsoleAssumption
<1>6. RestType
  BY <1>3, <1>5 DEF RestType
<1> QED BY <1>2, <1>4, <1>6

\* The state of the page keeps its shape: what is known of an answer when it comes
\* is what its handler needs (console.js, the state at the top of the file).
THEOREM ConsoleTypes == ConsoleSpec => []ConsoleTypeOK
<1>1. ASSUME ReqInv, MeInv, PageInv, AskedType, OBType, ShownType, RestType,
             [ConsoleNext]_consoleVars
      PROVE  PageInv' /\ AskedType' /\ OBType' /\ ShownType' /\ RestType'
  <2>1. PageInv' /\ AskedType'
    BY <1>1, PageStep, AskedStep
  <2>2. OBType' /\ ShownType' /\ RestType'
    BY <1>1, OBTypeStep, ShownTypeStep, RestTypeStep
  <2> QED BY <2>1, <2>2
<1>2. ReqInv /\ AskedType /\ OBType /\ ShownType /\ RestType => ConsoleTypeOK
  <2> SUFFICES ASSUME ReqInv, AskedType, OBType, ShownType, RestType PROVE ConsoleTypeOK
    OBVIOUS
  <2>1. KEY \in Key \cup {NoKey} /\ tab \in Opened /\ \A r \in requests : RequestType(r)
    BY DEF ReqInv, AskedType, Typed
  <2>2. last \in [Region -> {"none", "sent", "ok", "failed", "raced"}]
    BY DEF AskedType, Went
  <2> QED BY <2>1, <2>2, Zenon DEF OBType, ShownType, RestType, ConsoleTypeOK
<1> QED BY <1>1, <1>2, AskedInit, TypesInit, PageInit, SessionInvariant, PTL
    DEF ConsoleSpec

=============================================================================
