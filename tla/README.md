# Certadillo: specifications

TLA+ modules of Certadillo (a certificate authority platform: `src/certadillo`, Python, SQLAlchemy
on PostgreSQL or SQLite, with a web console and a knowledge base in JavaScript), the TLC runs that check them on small instances and the TLAPS proofs about
them. `PROJECT.json` lists the components, the runs, the map from definitions to source lines, the
hazards, the findings and the theorems.

Paths below are under `src/certadillo/` unless they begin with `docs/`, `kb-src/` or `scripts/`.

## The system

One API process, or several replicas of it (`docs/ARCHITECTURE.md`), share one database. A request is
one database transaction: `runtime.platform()` opens a session, commits when the handler returns and
rolls back when it raises. Two background loops (`api/app.py`) run housekeeping and audit shipping in
transactions of their own; the command line runs the same functions in a third process. Nothing is
kept between requests except in the database, so components interact through tables, through the
locks those tables need and through the audit trail every one of them writes to.

| Component | Source | State it keeps | Operations | What makes it correct |
|---|---|---|---|---|
| Certificate status | `services.py`, `ca/authority.py` | `certificates`, `certificate_authorities` (CRL) | request, renew, revoke, campaign cutoff, assign, generate CRL | what was revoked is answered revoked by OCSP and the CRL; nothing else is; a superseded certificate has a successor; one audit event per revocation |
| Row seals | `integrity.py` | an HMAC column per row | seal at flush, verify at read, trusted status | what the application writes verifies; what it did not write does not |
| Dual control | `services.py`, `codesign/service.py` | `approval_requests`, `principals`, `signing_requests` | ask, approve, reject, execute | two persons, one decision, carried out once |
| Audit trail | `audit/log.py` | `audit_events` | record, verify, anchor | one chain, never forked or lost; anchors stay true |
| Audit shipping | `audit/shipping.py` | `audit_ship_cursors` | ship a pass, verify an export | every event leaves the host, in order; no false alarm |
| ACME | `enrollment/acme.py` | nonces, accounts, EABs, orders, authorizations | new-account, new-order, challenge, finalize, revoke, key change | a nonce or EAB is used once; an order is issued once, only with every authorization valid |
| CMP, SCEP, EST | `enrollment/*.py` | transactions, one-time challenges and secrets | enroll, poll, confirm, revoke | a secret is used once; a retry gets the same certificate; a rejected certificate is revoked |
| Campaigns, ARI | `enrollment/ari.py` | campaigns, advice | create, replaced, cutoff | only replaced certificates are revoked without a second person |
| Provisioning | `provisioning/` | targets, installations, runs | provision, validate, renew due, back off | what is installed and what is active agree; every installation is retried |
| AD CS gateway | `adcs/gateway.py`, `services.py` | `adcs_jobs` | enqueue, claim, complete, fail | a job is carried out once and its outcome recorded |
| Policy | `policy/` | profiles, folders, pending changes | effective policy, apply a change | a locked setting is never overridden below |
| Alerts | `alerting/` | `alert_states` | evaluate, reconcile, notify | what fires is told once per period, what ends is told |
| Code signing | `codesign/` | keys, requests | request, sign, reject | one signature per approval |
| Discovery, ingest | `discovery/`, `services.py` | inventory rows | scan, ingest | one row per certificate |
| Web console | `web/static/console.js` | the page: key, tab, lists, wizard, editor; `sessionStorage` | connect, open a tab, filter, change, edit | what stands on the page in the end is what the key typed in is shown, and no older than the user's own change |
| Knowledge base | `kb-src/kb-app.js` | `location.hash`, page, search, `sessionStorage` | navigate, search, reload | the page is that of the hash; one player is alive |
| Walkthroughs | `kb-src/scenes-engine.js`, `kb-src/scenes-data.js` | `SceneView`: step, moves, envelopes, chain, mood | play, pause, step, frame | a step shows its moves one after the other; whichever way one came to it |

Interactions: every handler calls `audit.record`, which serializes transactions on PostgreSQL from that
point to their commit. Issuance is the same call (`request_certificate`) for every protocol. Revocation
re-signs the CRL in the same transaction. An approval carries its action out in the approver's
transaction. Housekeeping runs CRLs, protocol cleanup, anchors, discovery, provisioning and alerts in
one transaction, in that order.

The console is a client of the HTTP API and keeps nothing that the API relies on; each of its handlers
runs to its next `await`, and answers come in any order. The knowledge base is static: `kb-app.js`
mounts a `SceneView` on the pages that have a scene, and the scene's player runs on frames. `web/static/kb`
holds a copy of the three files that `scripts/build_kb.py` makes.

What is hard: sessions work on the copy of a row they loaded and write changed columns only
(READ COMMITTED, no version columns); locks are taken in different orders by different handlers;
side effects that leave the host (an anchor, a shipped batch, an installed certificate, a notification)
happen before the commit; several replicas run the same loops; lost answers are retried. In the browser:
an answer, a hash change or a frame comes after the user has gone on.
`PROJECT.json`, "hazards", lists each at its line.

## Modules

Every module models transactions at the points where they read, lock, write and commit. A read keeps
what it saw; a write waits for the lock.

### `CertStatus`, `Revocations` (`MCCertStatus`)

`row` is the `certificates` table with the columns that change and the seal (what it was computed
over, since an HMAC verifies exactly when the columns are the ones it covers). `audit` is the set of
serials with a `certificate.revoke` event, `crl` the published CRL, `tx[p]` the transaction of
request `p`. A request starts one handler: `StartRevoke` (API, EST, ACME, CMP), `StartCutoff`
(campaigns; `decided` when it runs inside an approval and so under the audit lock already),
`StartRenew` (any protocol), `StartAssign`, `StartCrl`. `WriteRow` is the UPDATE: `Written` puts the
changed columns on the row as it is by then and a seal over the session's stale copy. `GenerateCrl`,
`LogRevoke`, `Issue` and `LogAssign` are the flushes in the order the code makes them. `Rollback` is
an exception, a lost connection or a crash; `BreakDeadlock` the database's victim.

`Reported` is the answer of OCSP (`trusted_status`): a broken seal or a recorded revocation reads as
revoked. Bounds: two certificates, two serials to be issued and three requests let a
revocation, a renewal and a CRL or assignment overlap on one row; requests run once, which only bounds
the number of transactions, not their overlap.

- `CertStatus.cfg`: `RevocationEffective`, `RevocationRecorded`, `SupersededReplaced`.
- `CertStatus_live.cfg`: without assignments, `AnswersAgree` and `RevokedAtOnce`; `RequestsEnd` under fairness.
  `Revocations` is the promise to relying parties: the OCSP answers, the CRL and the audit trail revoke in
  one step, and only what was known. `RevokedAtOnce` says that the transactions implement it (`answer` is `Answer` of each
  row). Without the CA row's lock before the list is taken (the mutant) a CRL signed late would miss a revocation.
- `CertStatus_seal.cfg` (violated): `GoodUntilRevoked`. An assignment and a renewal of one certificate
  leave a row whose seal verifies for neither; the certificate is then reported revoked.

Fairness: strong for a request's next step, because row locks and the advisory lock are granted in
queue order, so a request that can have its lock again and again gets it; weak for the deadlock
victim, since PostgreSQL looks for cycles after `deadlock_timeout`. Nothing is assumed about requests
starting.

### `DualControl` (`MCDualControl`)

`principal`, `app`, `cas`, `req` are tables; `session[s]` a call of approve or reject; `effects` what
was carried out. `DecideRead` is `decide` up to its first write: all its checks, on copies.
`DecideWrite` is the rest, one step because its first `record` takes the audit lock and all
that other calls write is recorded too. `Execute`, `ExecuteRefused` (a logon certificate refused and
committed half way) and `Reject` are its branches. Four actions stand for all by how they are
guarded: onboarding sets a status, an issuance is not guarded at all, a signature by the signing
request's status, a CA by its unique name.

- `DualControl.cfg`: `MakerChecker`, `OnboardingAgrees`, `ExecutedOnce` with two overlapping decisions
  on two requests, and principals created and withdrawn meanwhile. The last two say nothing of issuances: one that is
  approved twice is issued twice, and one that `ExecuteRefused` leaves approved has no certificate; `Cmp` shows what
  the first means for a device.
- `DualControl_final.cfg` (violated): `DecisionIsFinal`. Two approvers who load one pending request both
  decide it.

`MCDualControl` puts `Cmp` beside it, whose approvals are decided in the same way. The two share nothing there, so one
of them (`part`) goes on in a behaviour while the other lies as it began; the run has the properties of both, about
820,000 states.

Not modelled: approvers signed in by OIDC who have no row in `principals`, the seals of approvals.

### `AuditTrail`, `AuditAnchor`, `AuditFeed`, `AuditShipping` (`MCAuditShipping`)

`AuditTrail` is `record` inside any transaction: `Record` (the advisory lock on PostgreSQL), `ReadHead`,
`Insert` (on SQLite only here is a lock taken; `prev_hash` is unique on both), then more records, a
`Commit` or a `Rollback`. `db` is chosen at the start and never changes. A hash is the order in which
rows were made, rolled back ones included: two rows never share one. The in-process lock of
`log.py` is left out: it only removes interleavings of threads of one process.

`AuditAnchor` adds `maybe_anchor`: read and publish the head in the middle of a transaction.
Its run is violated: the head may be the transaction's own row, and a rollback removes it.

`AuditShipping` adds the passes of `ship` over one sink, step by step, and the receiver. The receiver
keeps records once each (`verify_records` drops those whose hash it has); a pass can fail after any
record, lose the rest of a batch or have it arrive later (`late`). Several sinks have cursors of
their own and do not touch each other, so one is modelled; syslog without acknowledgement and lines
torn by a full disk are not modelled.

`AuditFeed` is what shipping promises: the chain grows and never forks, the receiver gets the next
event, and gets every event in the end. `AuditShipping` implements it (`chain <- events`).

- `AuditShipping.cfg`: `ChainValid`, `ExportVerifies`, `CursorCovers`, `NoFalseAlarm`; two writers, two
  passes, three rows ever made (rolled back ones count), batches of two and two batches to a pass: a
  batch can end before, at and after what another pass sent, and a pass flushes its cursor half way
  and waits for the other's lock.
- `AuditShipping_live.cfg`: `FeedImplemented`, refinement and liveness, with one writer and one batch to
  a pass, so that passes go on from one another. Fairness: each pass's steps are weakly fair (the loop
  of every replica starts passes for ever) and outages (`SendFails`, `Crash`) end.
- `AuditAnchor.cfg` (violated): `AnchorsVerify`.

### `Acme`

The orders of one account. `order`, `authz`, `account` are tables; `age` says whether an order is past its
expiry, or the 30 days after which it is deleted; `work[r]` is a request, or housekeeping (`Keeper`). A
request loads what it decides on in one step and writes in another. `loops` is chosen at the
start: with `"one"` replica a handler runs alone between two awaits (`LoopFree`), and the only await
between a load and a write is that of the challenge's validation (`Challenge` to `Validated`); with
`"many"` handlers of different replicas interleave anywhere. `Look` is the query for the other names,
`Update` what the challenge writes from the copies it loaded before it waited. `Refuse` is the
policy's refusal, which commits the order half way (`services.py:640-649`). All that closes
orders (expiry, giving up, deactivation, housekeeping, the end of a refusal) loads first and ends in `Close`.
`issued` is kept although an order may be deleted. One order of two names suffices: orders of an
account meet only in `Leave` and housekeeping, which treat each alike. Two requests and housekeeping let
two challenges, of one name or of both, overlap, and one challenge with whatever closes its order.

- `Enrollment.cfg`: `IssuedProven`, `ReadyWhenProven`, and `OrdersEnd` under fairness: the background loop runs
  housekeeping again and again and does not fail for ever, and the clock goes on. Nothing is assumed
  about requests.
- `Acme_deactivated.cfg` (violated): `GivenUpForGood`. A client gives an authorization up while its
  challenge waits; the handler then makes it valid again, and its order ready.

Not modelled here: nonces and external account bindings, `replaces`, key change, revocation (the
latter is `CertStatus`). Row locks are left out, since they only order commits that are one step each.
Housekeeping of several replicas is one worker: a second one closes what the first closed already.

### `Cmp`, `Enrolment`

CMP transactions. `txn`, `approval` and `cert` are tables (of `ApprovalRequest` the status and the
certificate in its payload); `old` is the status of the certificate a key update replaces. `device[t]` is
what the device of a transaction waits for and every message it ever sent, since each may be handled at any
time and again: that is loss, repetition and reordering of messages in one. `Load` is what a handler reads
before its first audit event; the actions after it (`Enroll`, `AskApproval`, `Poll`, `Confirm`, `OutOfPlace`)
are the rest of the handler, one step because of the audit lock, and write from what was loaded. `Answer`
brings the device on, if it arrives and the device still waits for it (`AnswerWith` is one with a certificate).
`OtherHash` is a `certConf` whose hash is of another certificate than the transaction has by then.

A call of `decide` loads the approval and finds it pending in one step (`Decide`, `services.py:455-468`) and writes its
decision in another (`Approve`, `Disapprove`, `services.py:471-532`), when others may have decided: `deciding[t]` are the
calls in between. The audit lock only puts the writes one after the other, as in `DualControl`, which has the checks
and whose finding this is. So a transaction can be decided again, and `twice` records which were: two approvals issue
two certificates, the second in the payload; a rejection after an approval leaves the certificate behind a seal
that is broken, which `handle_poll` takes for a rejection. `Find` and `ExpireFound` are housekeeping, which loads
first and writes later; `late` is the set of transactions older than its 15 minutes.

- `OneCertificate`: however often a request or a poll is handled, a transaction that was not decided twice yields
  one certificate; and a key update ends the old one only with a new one, decided twice or not. The unique
  transaction id carries the first half.
- `RefusedIsRevoked`: once a refusal is answered the certificates of the transaction are revoked, also when the first
  answer was lost and the repeated refusal is an error; except for transactions that are late or were decided twice.
- `EnrolledOnce`: `Cmp` implements `Enrolment`, where each transaction is an enrolment: one certificate or none, more only
  when it is decided again; the device learns what became of it and what it is told is so (it is granted a
  valid certificate of its own only, also when decided twice, and what it keeps is valid); a certificate is revoked only
  if its device refused. Rows, threads, what is sent again and housekeeping are not seen there; `Knows` says what of
  the devices is.

One device per transaction; each transaction may or may not be a key update and may or may not ask for implicit
confirmation. In the run (part `devices` of `DualControl.cfg`, about 295,000 states) one transaction has two certificates, two threads and two
calls of `decide`: enough for a request or a poll to be handled twice at once, and for two decisions of either
kind to overlap. Transactions share only housekeeping's list. A device or a call may stop anywhere, so deadlock is not looked for.

What the model shows besides, and no property claims: after two approvals that overlap, the device has one of the two
certificates and the other stays valid whatever the device says; its `certConf` can even be answered with an error, for the
transaction has the other certificate by then, and a refused one stays valid; a rejection that overlaps an approval leaves
a valid certificate nobody gets. Two key updates of one old certificate in different
transactions can both pass the check that it is current; a poll that overlaps another, or a confirmation, can write
`waiting_conf` over `confirmed` or `rejected`; after a refused key update the client has no valid certificate, since
the old one is superseded already; one that is late when it refuses keeps a valid certificate, though its 15 minutes
counted from the request and not from the grant. Not in the model is an approval committed without its certificate (`services.py:592`, the
logon SID), which makes every poll end in a system failure.

### `Provisioning`

The runs that push a certificate to one installation: `run[w]` is at the next step of `run_installation`, with the
installation as it loaded it (`seen`; sessions keep what they loaded, `db.py:436`). `host` is the target: the key
made last, the key, the certificate, and what its server serves. `setup`, chosen at the start, says how it is
driven: files one by one or one API call, a key made there or here, a reload command, an endpoint to check. From
`Sign`, which records the issuance, to its commit a run holds the audit lock (`pushing`), so only the steps
before it overlap with another run. Every step on the target may fail (`StepFails`), an API call may be carried
out although its answer is lost (`Put`), the run may die anywhere (`Dies`: its transaction is rolled back and
the platform forgets the certificate), and somebody may restart the server (`Restart`). `Succeeds` and `Fails`
are the two ends. `standing` is `"lost"` for certificates that were issued and rolled back.

- `NothingLost`: the certificate on record is active, and one is superseded only by one that reached the target
  and, where there is an endpoint, was seen there.
- `RecordedIsInstalled`: if the last run that wrote to the target installed its certificate, that one is on record;
  where it was seen served, it is, with its own key.

Two runs and three certificates let a run that loaded the old certificate end after another one has replaced it.

What the model shows besides: overlapped runs leave the first one's certificate active although nothing uses
it; a run that died after the installation leaves a certificate on the target that the platform does not know;
a failed reload or a lost answer leaves a revoked one there; with a device key, two runs and no endpoint, the
key of one is kept with the certificate of the other, since `key.next` is one file. The drivers
move that key over the old one before the certificate is written (`provisioning/drivers/ssh.py`), whereas
`docs/guide/22-push-provisioning.md` says it is swapped in only when the certificate is installed.

### `RenewDue`

`due` and `renew_due`: time is counted in cycles of five minutes. `Picked` is the first `PER_CYCLE` installations that
are due and do not wait, in the order of their ids; `Renew` runs the first that is left and commits; a failure waits
twice as long as the last one (`pause` is that wait, instead of the number of failures it is computed from), up to
`MAX_BACKOFF`, and the first time two cycles (`engine.py:252` has ten minutes where `docs/guide/22-push-provisioning.md:127`
says five; the model follows the code); `Abort` is a cycle given up with an exception, what is committed kept. Targets in `down` never come up.
`EveryoneServed`: an installation that is due and whose target works is renewed in the end.

Fairness: weak for `Cycle` (the loop of `api/app.py` goes on) and for the runs (every wait in the drivers has a
timeout). Two assumptions stand in the guards: a cycle is not given up twice in a row before it came to a run, and
a new certificate is not due for `LIFE` cycles. Bounds: three installations of which a cycle takes one,
`MAX_BACKOFF = 8`, `LIFE = 4`: two that are down for good and come first can take cycle after cycle, as with the code's
20 and 288 (24 hours). More than 5760 installations that fail for ever would be too many in the code, as more
than `PER_CYCLE * MAX_BACKOFF` are in the model.

### `MCEnrollment` (`Enrollment.cfg`)

`Acme`, `Provisioning` and `RenewDue` share nothing here, so one of them (`part`) goes on in a behaviour while the others lie
as they began; the run has the properties of all three and the fairness of each in its part. About 530,000 states. The
bounded parts stop, so deadlock is not looked for.

### `SceneData`, `Walkthrough`, `KnowledgeBase`

`SceneData` is every scene of `kb-src/scenes-data.js` with the moves of its steps. `Walkthrough` is `SceneView`: `view` is
the mounted player with the queue of the step's moves, the envelopes that fly, whether a local move is lit, what
is on the platform (`chain`, `mood`). The reader's actions are the buttons, the keys and scrolling; `Arrive`, `LocalOver`
and `ReadOn` are what `loop()` finds out on a frame. Durations are left open: a flight, a pause and the reading of
a step end at some frame. `Arrive` is true to `filter()`: an envelope that joins the list while it is walked is lost.
`KnowledgeBase` is the shell around it: the browser changes `hash` at once and owes `events` calls of `HashChange`.

- `ShownIsPlayed`: whichever way a step was reached, chain and mood are those of the moves that were played before.
- `OnePlayer`, `SettledOnHash`, `HitsOfText`: one player is alive, that of the page; the page is that of the
  hash when nothing is due; the hits shown are those of the text.
- `PlaysOn` (under `KBFairness`: the browser calls what is due, and `loop()` on every frame): a walkthrough that
  plays ends, is out of sight, or stands at a step in which an envelope follows an envelope.
- `Walkthrough_messages.cfg` (violated): `MessageByMessage`, see Findings.

All fifteen scenes are there, each as the page that is opened first; three actions of the reader, two guides and two scenes to
go to: enough to interrupt a flight and go back, or to leave between two hash changes and return.

What the model shows besides: a link with an anchor that is opened in another tab leaves `pendingAnchor` behind for
the next page; Back to the empty hash shows the page `kb-last` remembers; Enter opens the first hit of a list
that is hidden.

One limit: `Resolve` takes every slug no page has to the first page. In the code `bySlug` is a plain object
(`kb-app.js:5`), and `bySlug["constructor"]` (line 38) finds a name every object inherits; the few hashes of that
kind are not modelled.

### `Console`

`web/static/console.js`. `requests` is what is not answered; a loader is a set of chains of sections, as
the code awaits them, guarded (`part403`: the error stands in place of the content, the chain goes on) or plain. Of a
region `shown` keeps for which key and filter its content was read and whether a change of the user came after. `last` is a
history variable: how the last request for a region went, and whether two different ones were on their way at once
(`"raced"`). `OB` is the onboarding wizard and `server` the applications at the server; `EDITING` and `rules` the editor of
policy folders. One action for every handler that sends a request, and one for each kind of answer.

- `SettledPage`: when all is answered, the tab shows what the key typed in may see under the filters as they
  are, no older than the user's own changes, unless requests raced or the last one failed.
- `ChangesHidden`: the classes that hide buttons fit the key. `ButtonsComeBack`: when all is answered, a button is
  disabled only where the last request for its list failed.
- `WizardFits`: the wizard's last steps agree with the application, unless its own requests overtook each other; with one
  application in the run it says nothing of a late answer about another. `RulesOfFolder`, `AnswersKeepEdits`: the rules
  in the editor are those of the folder they would be saved to, and no answer touches them.

Bounds in `WebFrontEnd.cfg`: five tabs that between them have every kind of loader, an admin's and a reader's key, one app, one
folder, one choice of each filter, two inputs and one failure beyond those a role causes. With two inputs a request meets
another key, tab, filter or change; typing in the editor is not bounded. Requests that are alike and on their way at
once are one. `MCWebFrontEnd` puts the two pages side by side: they share nothing, and one is used in a behaviour.

What the model shows besides: answers that raced are rendered in the order they come in, so an older one may stay; a
refused key leaves what an earlier one was shown on the page; rules typed for a folder that is not created yet are
lost by any reload of the tree (`EDITING` is null); a late `obStatus` replaces `OB.app` by another application and its
answer has no `approval_id`; the credential shown is not cleared when the wizard turns to another application; a
push that was refused still says that the run detail shows why; a list drawn again enables a button whose request is
still under way.

Symmetry is used in the safety runs only, on sets whose members the modules treat alike.

## Proofs

Proved for every value of the constants that the modules' assumptions allow; `tlapm` checks each leaf.
The fairness of `FairSpec` plays no role in them.

- `CertStatusProofs`: `TypeOK`, `RevocationEffective`, `RevocationRecorded`, `SupersededReplaced`. The
  properties speak of committed state, so the invariant says of each transaction what its commit would
  make true: a revocation it inserted is on the list it signed; that list is taken under the CA
  row's lock and covers what was committed before; what it wrote to a row it still has locked. The
  lock is why the list cannot miss a revocation that commits later: that one signs its own list after.
  `AnswersAgree` is proved under the assumption that there is one application, so that no certificate changes
  hands (with two, `GoodUntilRevoked` is violated): then a row that OCSP would call revoked, by its status or a
  broken seal (`Marked`), has its revocation on record, and so has everything a transaction is about to write (`SoundInv`).
  Under the same assumption `RevokedAtOnce` is: only a commit is seen, and it either makes known the one
  certificate it issued, which no other transaction has (`TidyInv`), or adds its revocations to all three places at once.
- `DualControlProofs`: `TypeOK`, `MakerChecker`, `OnboardingAgrees`, `ExecutedOnce`. The invariant says of a
  loaded decision what stays true although the request changes under it: the requester, who decides
  and who created that credential never change once they exist.
- `AuditProofs`: `TypeOK`, `ChainValid`, `ExportVerifies`, `CursorCovers`, `NoFalseAlarm`, and `FeedSafety`
  (`Spec => Feed!Safety`). For the trail: uncommitted rows exist under one lock only, and what a
  transaction sees is a chain in which every row but the last has a successor. So a head that was
  read too early is caught by the unique `prev_hash` alone. For shipping: everything up to a cursor
  (`Covers`) has been received, for the stored cursor and each pass's, and what is left of a batch goes on
  from what was received (`Ready`). A new record then can only be the successor of the receiver's last.
- `ConsoleProofs`: `ConsoleTypeOK`, `ChangesHidden`, `WizardFits`, `RulesOfFolder`, `AnswersKeepEdits`, `SettledPage`,
  `ButtonsComeBack`, for any number of keys, applications, folders, inputs and requests on their way. The invariant follows the
  requests the session and the wizard wait for (`Waited`): unless connections raced, the question whose the key is (`me`)
  that is under way is asked with the key typed in, or the classes fit it already; likewise the wizard's. Most actions
  leave those requests alone (`Quiet`), so that most of the proof is said once for all of them.
  For the page (`PageInv`) it says of each region of the tab that a chain under way still has it to read (`ToCome`), or that
  it is up to date (`UpToDate`): what is under way for it reads it for the key and the filter of now and after the user's
  last change, and so did what it shows, if that was the last answer. A region whose requests raced or failed is
  let go, until the next request for it. For the buttons (`ButtonInv`) a disabled one has a request `Coming` whose answer draws its list again.
- `KnowledgeBaseProofs`: `KBTypeOK`, `OnePlayer`, `SettledOnHash`, `HitsOfText`, `ShownIsPlayed`, for any set of guides and
  links and any number of the reader's acts. The player's invariant (`Story`) is that the queue is the rest of the step
  after the moves that have begun, and that of those all have left their effect but an envelope that still flies, which is
  the only one. `StartOn` shows it of `StartNextMove`, from which every handler is made; blocks and mood are
  followed from a sequence of moves to one that goes on from it (`GoesOn`), never through a recursion. Two facts come in as
  assumptions: `NoViewAssumption` (nothing mounted is no view) and `ScenesAssumption`: every scene is a non-empty
  sequence of sequences of moves, and a move its scene cannot show has no effect. The latter is about the fifteen
  scenes as `SceneData` has them, not about a small instance, and TLC evaluates it in full.
- `CmpProofs`: `CmpTypeOK`, `OneCertificate`, `RefusedIsRevoked`, `EnrolledOnce`. What a thread has loaded is old when it is written, so
  the invariant keeps of it what never changes again (`ThreadFit`): a certificate of the transaction, the only one unless it
  was decided twice, a decided approval, a refusal that found nothing to refuse. `RowsFit` says how many certificates the rows
  of a transaction stand for, and that until the first decision there is none; `RefusalFit` that a refusal that was sent
  still finds the transaction waiting or the certificate revoked; `DeviceFit` that a device that refused is at its refusal or
  was told, and nothing else is revoked, so that an answer given late grants a valid certificate or changes nothing. Every
  step but housekeeping's is of one transaction (`OnlyTouches`), so that the invariant is shown of that one and of what
  threads have loaded of it (`Carries`). Each action of `Cmp` is then put in what is seen of it (`SeenStep`) and that in
  steps of `Enrolment` (`SeenIsPromised`), where a second decision may issue again.
- `EnrollmentProofs`: `ProvTypeOK`, `NothingLost`, `RecordedIsInstalled`. One run at a time is between its signature and its
  commit (`OneWrites`); no two make the same certificate and what is not placed yet is not on the target (`Distinct`,
  `Fresh`), so that what is served can be the new certificate only with the new key (`Placed`); and while a run writes,
  how the last one ended is unknown (`Writing`). It assumes that there is a certificate at all (`NothingAssumption`).
  `DueTypeOK` is proved of `RenewDue`, whose limits may be any numbers (`CycleAssumption`). The module also
  puts the three together: `EachGoesOn` says that a behaviour of `EnrollSpec` is one of each of them, so
  that `EnrollTypeOK` and all the safety properties of the run hold of it (`EnrollSafe`).
- `AcmeProofs`: `TypeOK`, `IssuedProven`, `ReadyWhenProven`. The tables only move forward (`Forward`): an
  order is never pending again and a proof is never lost. So what a challenge decided stays right until it
  is written (`PutFit`), whatever happens to the order meanwhile; and on one replica what `Look` saw is
  still so (`LookFresh`), because the handlers that write run alone (`Serial`).

Only model-checked: liveness (`RequestsEnd`, `OrdersEnd`, `EveryoneServed`, `PlaysOn`, the liveness of `FeedImplemented`),
which the proof system does not reach. Every invariant, every action property and the safety of all three refinements
(`FeedImplemented`, `RevokedAtOnce`, `EnrolledOnce`) are proved.

## Findings

Five runs are violated by what the code does: `CertStatus_seal`, `DualControl_final`, `AuditAnchor`,
`Acme_deactivated` and `Walkthrough_messages`. `PROJECT.json` quotes the lines and says what each shows. The last one:
`loop()` replaces the list of envelopes by what `filter()` kept (`kb-src/scenes-engine.js:596`), and the next envelope, which
the arrival of the one before has added to the old list, is gone: a step with two envelopes in a row stops after the first.

## What could come next

1. The rest of `Acme`: nonces and external account bindings across replicas, `replaces`, key change, and how
   often an order is issued when finalize is sent twice.
2. `Cmp` with several devices that share one old certificate, and SCEP's one-time challenges, once the
   repository says what holds when two requests overlap.
3. `PolicyTree`: effective settings as a recursive function on the folder tree, checked against a definition by paths.

## Not modelled

- AD CS gateway: a queue for a worker on a Windows host; what a claimed job comes to is decided by the Microsoft
  CA, outside the repository, and two workers that claim at once do take the same job.
- Alerts: the state is stored before its notification is sent, so that one can be lost or come twice; the
  repository promises neither delivery nor that it comes once.
- Policy engine and folders: computed from one request and the tree, in one transaction; a change is validated again when
  it is approved, and what overlapping decisions do is in `DualControl`.
- SCEP and EST: SCEP answers a request like a CMP request, found by its key; EST keeps nothing of its own.
- ACME nonces, external account bindings, key change and `replaces`: see `Acme`. `docs/SECURITY.md` and
  `docs/guide/05-acme.md:47` say that nonces and bindings are used once; that of SCEP challenges `docs/guide/07-scep.md:52`.
- Campaigns: the cutoff is in `CertStatus`; which certificates count as replaced is one query.
- Discovery and ingest: scans and upserts, each in one transaction.
- Cryptography, DER and protocol encodings, issuers at other CAs, reports, the command line's formatting, the markup
  and drawing of the two web pages: pure functions or I/O.
- Real time appears only as what may happen (a CRL is due, a request timed out) or as cycles (`RenewDue`).
