----------------------------- MODULE CertStatus -----------------------------
(***************************************************************************)
(* The status of the certificates one local CA issued, as the request      *)
(* handlers of several API replicas change it.  A handler is one database  *)
(* transaction (runtime.py, Runtime.platform) on PostgreSQL at READ        *)
(* COMMITTED:                                                              *)
(*                                                                         *)
(*  - an ORM object keeps the column values it was loaded with, so what a  *)
(*    handler tests and what it seals is what it read, not what the table  *)
(*    holds when its UPDATE runs;                                          *)
(*  - an UPDATE waits for the row lock and writes the changed columns only;*)
(*  - audit.record takes one advisory lock, held to the end of the         *)
(*    transaction; the certificate and CA rows stay locked as long;        *)
(*  - nothing is visible to others before the commit, and a handler that   *)
(*    raises, crashes or is chosen by the deadlock detector rolls back.    *)
(*                                                                         *)
(* What relying parties see is computed from the committed state: Reported *)
(* (integrity.trusted_status, the OCSP answer) and crl (the published CRL).*)
(***************************************************************************)
EXTENDS Naturals

CONSTANTS
  Cert,       \* the certificate rows there can be
  Initial,    \* those issued and active at the start
  App,        \* the apps a certificate can be assigned to
  FirstApp,   \* the app of every certificate at the start
  Req,        \* the requests, each handled by one transaction
  NoCert      \* an empty replaced_by column

ASSUME CertAssumption ==
  /\ Initial \subseteq Cert
  /\ FirstApp \in App
  /\ NoCert \notin Cert

VARIABLES
  row,    \* the committed certificates table
  audit,  \* the serials with a committed certificate.revoke event
  crl,    \* the committed crl_number and crl_der of the CA's row
  tx      \* the transaction of each request

vars == <<row, audit, crl, tx>>

-----------------------------------------------------------------------------
(* Rows and their seals *)

Status == {"none", "active", "superseded", "revoked"}

\* What the HMAC of a certificate row covers, of the columns that change.
Seal == [status : Status, reason : BOOLEAN, app : App]

Row == [status : Status, reason : BOOLEAN, app : App,
        next : Cert \cup {NoCert}, seal : Seal]

Sealed(r) == [status |-> r.status, reason |-> r.reason, app |-> r.app]

SealOK(r) == r.seal = Sealed(r)

\* Mutant: the seal is computed before the column defaults are applied.
NewRow_SealedEarly(status, a) ==
  [status |-> status, reason |-> FALSE, app |-> a, next |-> NoCert,
   seal |-> [status |-> "null", reason |-> FALSE, app |-> a]]

NewRow(status, a) ==
  [status |-> status, reason |-> FALSE, app |-> a, next |-> NoCert,
   seal |-> [status |-> status, reason |-> FALSE, app |-> a]]

NoRow == NewRow("none", FirstApp)

\* The row after an UPDATE: a session that loaded the row as seen and changed
\* it to new writes the columns that differ, and a seal computed over its own
\* copy, unless the copy it loaded had a broken seal.
Written(cur, seen, new) ==
  [status |-> IF new.status # seen.status THEN new.status ELSE cur.status,
   reason |-> IF new.reason # seen.reason THEN new.reason ELSE cur.reason,
   app    |-> IF new.app # seen.app THEN new.app ELSE cur.app,
   next   |-> IF new.next # seen.next THEN new.next ELSE cur.next,
   seal   |-> IF SealOK(seen) THEN Sealed(new) ELSE cur.seal]

\* Mutant: the answer is the status column.
Trusted_StatusOnly(r, revoked) == r.status

\* What a relying party is told, given the row and the revocations on record.
Trusted(r, revoked) == IF ~SealOK(r) \/ revoked THEN "revoked" ELSE r.status

Reported(c) == Trusted(row[c], c \in audit)

-----------------------------------------------------------------------------
(* Transactions *)

Crl == [number : Nat, listed : SUBSET Cert]

Kind == {"none", "revoke", "cutoff", "renew", "assign", "crl"}

Pc == {"idle", "next", "row", "ca", "crl", "log", "commit", "done"}

Tx == [kind : Kind, pc : Pc,
       cert : Cert \cup {NoCert},   \* the certificate at hand
       seen : Row,                  \* that row as the session loaded it
       new  : Cert \cup {NoCert},   \* the certificate being issued
       to   : App,                  \* the app being assigned
       todo : SUBSET Cert,          \* what a campaign cutoff has left
       rows : SUBSET Cert,          \* the rows written and locked
       put  : [Cert -> Row],        \* what was written to them
       ca   : BOOLEAN,              \* the CA row is written and locked
       number : Nat,                \* crl_number as the session loaded it
       crl  : Crl,                  \* what was written to the CA row
       log  : BOOLEAN,              \* the audit lock is held
       revoked : SUBSET Cert]       \* certificate.revoke events inserted

Blank ==
  [kind |-> "none", pc |-> "idle", cert |-> NoCert, seen |-> NoRow,
   new |-> NoCert, to |-> FirstApp, todo |-> {}, rows |-> {},
   put |-> [c \in Cert |-> NoRow], ca |-> FALSE, number |-> 0,
   crl |-> [number |-> 0, listed |-> {}], log |-> FALSE, revoked |-> {}]

Ended == [Blank EXCEPT !.pc = "done"]

\* The table as p's own statements see it: committed rows and its own writes.
View(p) == [c \in Cert |-> IF c \in tx[p].rows THEN tx[p].put[c] ELSE row[c]]

\* No other transaction holds the lock.
RowFree(p, c) == \A q \in Req \ {p} : c \notin tx[q].rows
CaFree(p)     == \A q \in Req \ {p} : ~tx[q].ca
LogFree(p)    == \A q \in Req \ {p} : ~tx[q].log

\* Mutant: the CRL lists the rows whose status column says revoked.
Listed_ByStatus(p) == {c \in Cert : View(p)[c].status = "revoked"}

\* The certificates generate_crl lists: every row the session finds revoked,
\* whose seal is broken, or whose revocation is on record.
Listed(p) ==
  {c \in Cert : /\ View(p)[c].status # "none"
                /\ Trusted(View(p)[c], c \in audit \cup tx[p].revoked) = "revoked"}

-----------------------------------------------------------------------------
(* The handlers, a step for each point where they read, lock or write *)

\* Request p goes on with its transaction.
Goes(p, t) == tx' = [tx EXCEPT ![p] = t] /\ UNCHANGED <<row, audit, crl>>

\* POST .../revoke, EST/ACME/CMP revocation: load the row.  A row that already
\* reads revoked is not written again, but its CRL is still re-signed.
StartRevoke(p, c) ==
  /\ tx[p].pc = "idle"
  /\ row[c].status # "none"
  /\ Goes(p, [Blank EXCEPT !.kind = "revoke", !.cert = c, !.seen = row[c],
                !.pc = IF row[c].status = "revoked" THEN "ca" ELSE "row"])

\* A campaign revokes what it covers in one transaction.  revoke-replaced
\* starts without a lock; the cutoff of revoke-remaining runs inside the
\* approver's decision, recorded first, so all of it under the audit lock.
StartCutoff(p, S, decided) ==
  /\ tx[p].pc = "idle"
  /\ decided => LogFree(p)
  /\ \A c \in S : row[c].status # "none"
  /\ Goes(p, [Blank EXCEPT !.kind = "cutoff", !.todo = S, !.log = decided,
                !.pc = "next"])

\* The cutoff's loop: a certificate that reads revoked is skipped.
CutoffNext(p, c) ==
  /\ tx[p].pc = "next"
  /\ c \in tx[p].todo
  /\ LET left == [tx[p] EXCEPT !.todo = @ \ {c}]
     IN  Goes(p, IF row[c].status = "revoked" THEN left
                 ELSE [left EXCEPT !.cert = c, !.seen = row[c], !.pc = "row"])

CutoffEnd(p) ==
  /\ tx[p].pc = "next"
  /\ tx[p].todo = {}
  /\ Goes(p, [tx[p] EXCEPT !.pc = "commit"])

\* A renewal of any protocol: the row must read active.  n is the row the new
\* certificate will have; its serial is random, so no other request has it.
StartRenew(p, c, n) ==
  /\ tx[p].pc = "idle"
  /\ row[c].status = "active"
  /\ row[n].status = "none"
  /\ \A q \in Req : tx[q].new # n
  /\ Goes(p, [Blank EXCEPT !.kind = "renew", !.cert = c, !.seen = row[c],
                !.new = n, !.pc = "log"])

\* POST .../assign: hand the certificate to another app.
StartAssign(p, c, a) ==
  /\ tx[p].pc = "idle"
  /\ row[c].status # "none"
  /\ row[c].app # a
  /\ Goes(p, [Blank EXCEPT !.kind = "assign", !.cert = c, !.seen = row[c],
                !.to = a, !.pc = "log"])

\* Housekeeping, or a download of a CRL past its nextUpdate: load the CA row.
StartCrl(p) ==
  /\ tx[p].pc = "idle"
  /\ Goes(p, [Blank EXCEPT !.kind = "crl", !.number = crl.number, !.pc = "crl"])

\* The handler's change to the row it loaded.
Changed(p) ==
  LET t == tx[p]
  IN  CASE t.kind \in {"revoke", "cutoff"} ->
             [t.seen EXCEPT !.status = "revoked", !.reason = TRUE]
        [] t.kind = "renew" ->
             [t.seen EXCEPT !.status = "superseded", !.next = t.new]
        [] OTHER -> [t.seen EXCEPT !.app = t.to]

\* The UPDATE of the certificate row, once the row lock is free.
WriteRow(p) ==
  LET t == tx[p]
      c == t.cert
  IN  /\ t.pc = "row"
      /\ RowFree(p, c)
      /\ Goes(p, [t EXCEPT !.rows = @ \cup {c},
                    !.put[c] = Written(View(p)[c], t.seen, Changed(p)),
                    !.pc = IF t.kind \in {"revoke", "cutoff"} THEN "ca"
                           ELSE "commit"])

\* revoke loads the CA row; a session that already wrote it keeps its copy.
ReadCa(p) ==
  /\ tx[p].pc = "ca"
  /\ Goes(p, [tx[p] EXCEPT !.pc = "crl",
                !.number = IF tx[p].ca THEN tx[p].crl.number ELSE crl.number])

\* Mutant: the list is taken before the new crl_number is flushed.
GenerateCrl_Unlocked(p) ==
  /\ tx[p].pc = "crl"
  /\ Goes(p, [tx[p] EXCEPT !.ca = TRUE,
                !.crl = [number |-> tx[p].number + 1, listed |-> Listed(p)],
                !.pc = IF tx[p].kind = "crl" THEN "commit" ELSE "log"])

\* generate_crl: the query for the revoked rows flushes the new crl_number
\* first, so the list is taken under the CA row's lock.
GenerateCrl(p) ==
  /\ tx[p].pc = "crl"
  /\ CaFree(p)
  /\ Goes(p, [tx[p] EXCEPT !.ca = TRUE,
                !.crl = [number |-> tx[p].number + 1, listed |-> Listed(p)],
                !.pc = IF tx[p].kind = "crl" THEN "commit" ELSE "log"])

\* Mutant: only a single revocation is recorded, not a campaign's.
LogRevoke_SingleOnly(p) ==
  /\ tx[p].pc = "log"
  /\ tx[p].kind \in {"revoke", "cutoff"}
  /\ LogFree(p)
  /\ Goes(p, IF tx[p].kind = "cutoff" THEN [tx[p] EXCEPT !.pc = "next"]
             ELSE [tx[p] EXCEPT !.log = TRUE, !.revoked = {tx[p].cert},
                                !.pc = "commit"])

\* The certificate.revoke event, under the audit lock.
LogRevoke(p) ==
  /\ tx[p].pc = "log"
  /\ tx[p].kind \in {"revoke", "cutoff"}
  /\ LogFree(p)
  /\ Goes(p, [tx[p] EXCEPT !.log = TRUE, !.revoked = @ \cup {tx[p].cert},
                !.pc = IF tx[p].kind = "cutoff" THEN "next" ELSE "commit"])

\* Mutant: the new row is not added to the session.
Issue_NotAdded(p) ==
  /\ tx[p].pc = "log"
  /\ tx[p].kind = "renew"
  /\ LogFree(p)
  /\ Goes(p, [tx[p] EXCEPT !.log = TRUE, !.pc = "row"])

\* _sign: the new row and its certificate.issue event.
Issue(p) ==
  LET t == tx[p]
  IN  /\ t.pc = "log"
      /\ t.kind = "renew"
      /\ LogFree(p)
      /\ Goes(p, [t EXCEPT !.log = TRUE, !.rows = @ \cup {t.new},
                    !.put[t.new] = NewRow("active", t.seen.app), !.pc = "row"])

\* assign records before the changed row is flushed.
LogAssign(p) ==
  /\ tx[p].pc = "log"
  /\ tx[p].kind = "assign"
  /\ LogFree(p)
  /\ Goes(p, [tx[p] EXCEPT !.log = TRUE, !.pc = "row"])

Commit(p) ==
  /\ tx[p].pc = "commit"
  /\ row' = View(p)
  /\ audit' = audit \cup tx[p].revoked
  /\ crl' = IF tx[p].ca THEN tx[p].crl ELSE crl
  /\ tx' = [tx EXCEPT ![p] = Ended]

\* Mutant: a session-level advisory lock, which a rollback does not release.
Rollback_LockKept(p) ==
  /\ tx[p].pc \notin {"idle", "done"}
  /\ Goes(p, [Ended EXCEPT !.log = tx[p].log])

\* Any exception, a lost connection or a crash of the replica.
Rollback(p) ==
  /\ tx[p].pc \notin {"idle", "done"}
  /\ Goes(p, Ended)

WaitsFor(p, q) ==
  /\ p # q
  /\ \/ tx[p].pc = "row" /\ tx[p].cert \in tx[q].rows
     \/ tx[p].pc = "crl" /\ tx[q].ca
     \/ tx[p].pc = "log" /\ tx[q].log

\* p is on a cycle of transactions that wait for one another.
Deadlocked(p) ==
  \E S \in SUBSET Req :
    /\ p \in S
    /\ \A q \in S : /\ \E r \in S : WaitsFor(q, r)
                    /\ \E r \in S : WaitsFor(r, q)

\* The database picks p as the deadlock's victim.
BreakDeadlock(p) == Deadlocked(p) /\ Rollback(p)

-----------------------------------------------------------------------------

Init ==
  /\ row = [c \in Cert |-> IF c \in Initial THEN NewRow("active", FirstApp)
                           ELSE NoRow]
  /\ audit = {}
  /\ crl = [number |-> 0, listed |-> {}]
  /\ tx = [p \in Req |-> Blank]

Start(p) ==
  \/ \E c \in Cert : StartRevoke(p, c)
  \/ \E S \in SUBSET Cert, decided \in BOOLEAN : StartCutoff(p, S, decided)
  \/ \E c, n \in Cert : StartRenew(p, c, n)
  \/ \E c \in Cert, a \in App : StartAssign(p, c, a)
  \/ StartCrl(p)

Step(p) ==
  \/ \E c \in Cert : CutoffNext(p, c)
  \/ CutoffEnd(p)
  \/ WriteRow(p)
  \/ ReadCa(p)
  \/ GenerateCrl(p)
  \/ LogRevoke(p)
  \/ Issue(p)
  \/ LogAssign(p)
  \/ Commit(p)

Next == \E p \in Req : Start(p) \/ Step(p) \/ Rollback(p)

Spec == Init /\ [][Next]_vars

\* A handler thread keeps running and row and advisory locks are granted in
\* queue order, so a step that is possible again and again is taken; the
\* database resolves deadlocks.
FairSpec ==
  /\ Spec
  /\ \A p \in Req : SF_vars(Step(p)) /\ WF_vars(BreakDeadlock(p))

-----------------------------------------------------------------------------
(* Properties *)

TypeOK ==
  /\ row \in [Cert -> Row]
  /\ audit \subseteq Cert
  /\ crl \in Crl
  /\ tx \in [Req -> Tx]

\* A committed revocation is what relying parties are told from then on, by
\* OCSP and by the published CRL, whoever publishes it and in whatever order
\* revocations, campaigns and renewals commit; also when a renewal that loaded
\* the row before writes "superseded" over it (docs/SECURITY.md: a new CRL is signed
\* on every revocation).
RevocationEffective ==
  \A c \in audit : Reported(c) = "revoked" /\ c \in crl.listed

\* No revocation reaches the table without its audit event, nor the other
\* way round: a row is revoked only if the event is committed with it.
RevocationRecorded == \A c \in Cert : row[c].status = "revoked" => c \in audit

\* A superseded certificate has a successor that was issued, also when the
\* renewal that wrote it failed half way or ran beside others.
SupersededReplaced ==
  \A c \in Cert : row[c].status = "superseded" =>
     row[c].next \in Cert \ {c} /\ row[row[c].next].status # "none"

\* guide/11-revocation.md: renewal marks the old certificate superseded and
\* OCSP keeps answering "good"; only a revocation makes the answer "revoked".
GoodUntilRevoked == \A c \in Cert : Reported(c) = "revoked" => c \in audit

\* Where no certificate changes hands, the two answers agree: a certificate is
\* on the published CRL exactly when OCSP calls it revoked, and both only when
\* its revocation is on record.
AnswersAgree ==
  \A c \in Cert : /\ c \in crl.listed <=> Reported(c) = "revoked"
                  /\ c \in crl.listed => c \in audit

\* OCSP says "good" of a superseded certificate.
Answer(c) ==
  CASE Reported(c) = "revoked" -> "revoked"
    [] Reported(c) = "none" -> "unknown"
    [] OTHER -> "good"

RelyingParties == INSTANCE Revocations WITH
  answer <- [c \in Cert |-> Answer(c)], listed <- crl.listed, recorded <- audit

\* Where no certificate changes hands, relying parties see revocations happen at
\* once: the answer, the CRL and the audit trail change in one step, only to add
\* to what is revoked, whatever requests overlap, fail or wait for one another
\* (docs/SECURITY.md: a new CRL is signed on every revocation).
RevokedAtOnce == RelyingParties!Spec

\* Every request ends, committed or rolled back, whatever waits for what.
RequestsEnd == \A p \in Req : tx[p].pc # "idle" ~> tx[p].pc = "done"

=============================================================================
