-------------------------------- MODULE Cmp --------------------------------
(***************************************************************************)
(* CMP transactions (enrollment/cmp.py).  A device asks for a certificate, *)
(* polls while a second person decides, and confirms or refuses what it    *)
(* gets.  What it has sent may be handled at any time and again, and any   *)
(* answer may be lost: the device sends its message again.  A handler runs *)
(* in a thread of its own: it loads the transaction, the approval and the  *)
(* signer, and commits later, when others may have committed; from its     *)
(* first audit event on it is alone, so that what it writes is one step.   *)
(*                                                                         *)
(* An approver's call works in the same way: it loads the approval, finds  *)
(* it pending, and writes its decision later, when others may have decided *)
(* (DualControl has its checks).  So a transaction can be decided twice,   *)
(* and then it can have two certificates, or one that was turned down;     *)
(* the properties say where they leave such a transaction out.             *)
(*                                                                         *)
(* A message here is one whose protection verified and whose request is    *)
(* well formed.  Secrets, revocation requests, genm, approvals that end    *)
(* without a certificate and certificates that a gateway issues are left   *)
(* out, and only its own key update writes the certificate the update is   *)
(* signed with.                                                            *)
(***************************************************************************)
EXTENDS FiniteSets

CONSTANTS
  Txn,       \* the transaction ids devices choose, each with a device
  Cert,      \* the certificates there can be
  Thread,    \* messages handled at the same time
  Decider,  \* calls of decide at the same time
  None       \* no certificate, no transaction

ASSUME NoneAssumption == None \notin Cert \cup Txn

VARIABLES
  updates,   \* the transactions that are key updates (kur); does not change
  implicit,  \* those whose device asks for implicit confirmation; likewise
  device,    \* what each device waits for, has been granted, and has sent
  old,       \* the status of the certificate a key update replaces
  txn,       \* CmpTransaction: status and certificate_id
  approval,  \* ApprovalRequest: status and the certificate in its payload
  deciding,  \* the calls of decide that found the approval pending
  twice,     \* the transactions whose approval was decided more than once
  cert,      \* certificates: status, and the transaction they are for
  late,      \* the transactions that are 15 minutes old
  thread,    \* the message each thread handles, and what it has loaded
  sweep      \* the transactions housekeeping has found unconfirmed

decisionVars == <<deciding, twice>>

cmpVars == <<updates, implicit, device, old, txn, approval, decisionVars, cert, late, thread, sweep>>

-----------------------------------------------------------------------------

\* request: ir, cr, p10cr or kur; accept and refuse: certConf.
Message == {"request", "poll", "accept", "refuse"}

\* A device that was granted a certificate decides; told: its refusal was answered.
At == Message \cup {"new", "granted", "done", "told", "failed"}

TxnRow == [status : {"none", "pending", "waiting_conf", "confirmed", "rejected", "expired"},
           cert : Cert \cup {None}]
ApprovalRow == [status : {"none", "pending", "approved", "rejected"},
                cert : Cert \cup {None}]

NoRow == [status |-> "none", cert |-> None]
Free == [of |-> None, msg |-> "none", txn |-> NoRow, approval |-> NoRow, old |-> "none"]

Issued(t) == {c \in Cert : cert[c].of = t}

-----------------------------------------------------------------------------
(* Devices *)

Send(t, at, c) ==
  device' = [device EXCEPT ![t] =
    [at |-> at, cert |-> c, sent |-> @.sent \cup ({at} \cap Message)]]

Start(t) ==
  /\ device[t].at = "new"
  /\ Send(t, "request", device[t].cert)
  /\ UNCHANGED <<updates, implicit, decisionVars, old, txn, approval, cert, late, thread, sweep>>

Judge(t, m) ==
  /\ device[t].at = "granted"
  /\ m \in {"accept", "refuse"}
  /\ Send(t, m, device[t].cert)
  /\ UNCHANGED <<updates, implicit, decisionVars, old, txn, approval, cert, late, thread, sweep>>

\* The answer to h's message, with a certificate: where it brings the device, if it
\* arrives and the device still waits for it.
AnswerWith(h, at, c) ==
  LET t == thread[h].of
  IN  /\ thread' = [thread EXCEPT ![h] = Free]
      /\ \/ device' = device
         \/ device[t].at = thread[h].msg /\ Send(t, at, c)

\* An answer without one.
Answer(h, at) == AnswerWith(h, at, device[thread[h].of].cert)

\* Where an error brings it.
Error(h) == IF thread[h].msg = "refuse" THEN "told" ELSE "failed"

-----------------------------------------------------------------------------
(* Handlers *)

\* authenticate, and what the handler loads.
Load(h, t, m) ==
  /\ thread[h] = Free
  /\ m \in device[t].sent
  /\ thread' = [thread EXCEPT ![h] =
       [of |-> t, msg |-> m, txn |-> txn[t], approval |-> approval[t], old |-> old[t]]]
  /\ UNCHANGED <<updates, implicit, decisionVars, device, old, txn, approval, cert, late, sweep>>

\* issued_here: a key update must be signed with a certificate that is current.
MayAsk(h) ==
  /\ thread[h].msg = "request"
  /\ thread[h].of \in updates => thread[h].old = "active"

\* Mutant: the id of a transaction may come again.
NewRow_Again(t) == t \in Txn

\* transaction_id is unique.
NewRow(t) == txn[t].status = "none"

\* Mutant: the answer does not say that the confirmation is implicit.
Deliver_Silent(h, c) ==
  LET t == thread[h].of
  IN  /\ txn' = [txn EXCEPT ![t] =
           [status |-> IF t \in implicit THEN "confirmed" ELSE "waiting_conf", cert |-> c]]
      /\ AnswerWith(h, "granted", c)

\* _deliver
Deliver(h, c) ==
  LET t == thread[h].of
  IN  /\ txn' = [txn EXCEPT ![t] =
           [status |-> IF t \in implicit THEN "confirmed" ELSE "waiting_conf", cert |-> c]]
      /\ AnswerWith(h, IF t \in implicit THEN "done" ELSE "granted", c)

\* A certificate for t, and the end of the one that a key update replaces.
Certify(t, c) ==
  /\ cert[c].status = "none"
  /\ cert' = [cert EXCEPT ![c] = [status |-> "active", of |-> t]]
  /\ old' = [old EXCEPT ![t] = IF t \in updates THEN "superseded" ELSE @]

Enroll(h, c) ==
  /\ MayAsk(h) /\ NewRow(thread[h].of)
  /\ Certify(thread[h].of, c)
  /\ Deliver(h, c)
  /\ UNCHANGED <<updates, implicit, decisionVars, approval, late, sweep>>

\* The profile is under dual control.
AskApproval(h) ==
  LET t == thread[h].of
  IN  /\ MayAsk(h) /\ NewRow(t)
      /\ txn' = [txn EXCEPT ![t] = [status |-> "pending", cert |-> None]]
      /\ approval' = [approval EXCEPT ![t] = [status |-> "pending", cert |-> None]]
      /\ Answer(h, "poll")
      /\ UNCHANGED <<updates, implicit, decisionVars, old, cert, late, sweep>>

\* The policy refuses the request, or the handler ends in an error and is rolled back.
RequestFails(h) ==
  /\ thread[h].msg = "request"
  /\ Answer(h, "failed")
  /\ UNCHANGED <<updates, implicit, decisionVars, old, txn, approval, cert, late, sweep>>

\* handle_poll
Poll(h) ==
  LET t == thread[h].of
      a == thread[h].approval
  IN  /\ thread[h].msg = "poll" /\ thread[h].txn.status = "pending"
      /\ \/ a.status = "pending" /\ Answer(h, "poll") /\ UNCHANGED txn
         \/ /\ a.status = "rejected" /\ Answer(h, "failed")
            /\ txn' = [txn EXCEPT ![t].status = "rejected"]
         \/ a.status = "approved" /\ Deliver(h, a.cert)
      /\ UNCHANGED <<updates, implicit, decisionVars, old, approval, cert, late, sweep>>

\* handle_cert_conf.  The client refused the certificate: it must not stay valid.
\* To revoke it again is an error, and what the handler wrote is rolled back.  Who
\* accepts names the certificate by its hash, who refuses may leave the hash out.
Confirm(h) ==
  LET t == thread[h].of
      c == thread[h].txn.cert
  IN  /\ thread[h].txn.status = "waiting_conf"
      /\ \/ /\ thread[h].msg = "accept" /\ device[t].cert = c
            /\ txn' = [txn EXCEPT ![t].status = "confirmed"]
            /\ Answer(h, "done")
            /\ UNCHANGED cert
         \/ /\ thread[h].msg = "refuse" /\ cert[c].status = "active"
            /\ txn' = [txn EXCEPT ![t].status = "rejected"]
            /\ cert' = [cert EXCEPT ![c].status = "revoked"]
            /\ Answer(h, "told")
         \/ /\ thread[h].msg = "refuse" /\ cert[c].status = "revoked"
            /\ Answer(h, "told")
            /\ UNCHANGED <<txn, cert>>
      /\ UNCHANGED <<updates, implicit, decisionVars, old, approval, late, sweep>>

\* certHash does not match: the transaction has another certificate by now.
OtherHash(h) ==
  /\ thread[h].msg \in {"accept", "refuse"} /\ thread[h].txn.status = "waiting_conf"
  /\ device[thread[h].of].cert # thread[h].txn.cert
  /\ Answer(h, Error(h))
  /\ UNCHANGED <<updates, implicit, decisionVars, old, txn, approval, cert, late, sweep>>

\* Nothing is pending, or waits for confirmation, in this transaction.
OutOfPlace(h) ==
  /\ \/ thread[h].msg = "poll" /\ thread[h].txn.status # "pending"
     \/ thread[h].msg \in {"accept", "refuse"} /\ thread[h].txn.status # "waiting_conf"
  /\ Answer(h, Error(h))
  /\ UNCHANGED <<updates, implicit, decisionVars, old, txn, approval, cert, late, sweep>>

\* The handler fails, or its process dies; the device sends its message again.
Crash(h) ==
  /\ thread[h] # Free
  /\ thread' = [thread EXCEPT ![h] = Free]
  /\ UNCHANGED <<updates, implicit, decisionVars, device, old, txn, approval, cert, late, sweep>>

-----------------------------------------------------------------------------
(* Approvers, housekeeping and the clock *)

\* decide loads the approval and asks if it is pending.
Decide(t, a) ==
  /\ approval[t].status = "pending"
  /\ a \notin deciding[t]
  /\ deciding' = [deciding EXCEPT ![t] = @ \cup {a}]
  /\ UNCHANGED <<updates, implicit, device, old, txn, approval, twice, cert, late, thread, sweep>>

\* What it writes to the approval, whatever others have written since.
Decided(t, a, row) ==
  /\ a \in deciding[t]
  /\ deciding' = [deciding EXCEPT ![t] = @ \ {a}]
  /\ approval' = [approval EXCEPT ![t] = row]
  /\ twice' = IF approval[t].status = "pending" THEN twice ELSE twice \cup {t}

\* _execute: the old certificate is superseded if it is still active, and the
\* payload this call has loaded gets the new one.
Approve(t, a, c) ==
  /\ Decided(t, a, [status |-> "approved", cert |-> c])
  /\ Certify(t, c)
  /\ UNCHANGED <<updates, implicit, device, txn, late, thread, sweep>>

\* Over an approval this leaves the certificate in the payload and a seal that is
\* not of it: handle_poll then refuses the transaction all the same.
Disapprove(t, a) ==
  /\ Decided(t, a, [status |-> "rejected", cert |-> approval[t].cert])
  /\ UNCHANGED <<updates, implicit, device, old, txn, cert, late, thread, sweep>>

\* The call fails, or is rolled back.
DecisionFails(t, a) ==
  /\ a \in deciding[t]
  /\ deciding' = [deciding EXCEPT ![t] = @ \ {a}]
  /\ UNCHANGED <<updates, implicit, device, old, txn, approval, twice, cert, late, thread, sweep>>

\* Mutant: the age of a transaction is not looked at.
Unconfirmed_Young == {t \in Txn : txn[t].status = "waiting_conf"}

Unconfirmed == {t \in late : txn[t].status = "waiting_conf"}

\* housekeeping: it loads the rows and writes them, unless all is rolled back.
Find ==
  /\ sweep = {} /\ Unconfirmed # {}
  /\ sweep' = Unconfirmed
  /\ UNCHANGED <<updates, implicit, decisionVars, device, old, txn, approval, cert, late, thread>>

ExpireFound ==
  /\ sweep # {}
  /\ \/ txn' = [t \in Txn |-> IF t \in sweep THEN [txn[t] EXCEPT !.status = "expired"]
                              ELSE txn[t]]
     \/ UNCHANGED txn
  /\ sweep' = {}
  /\ UNCHANGED <<updates, implicit, decisionVars, device, old, approval, cert, late, thread>>

QuarterHour(t) ==
  /\ txn[t].status # "none" /\ t \notin late
  /\ late' = late \cup {t}
  /\ UNCHANGED <<updates, implicit, decisionVars, device, old, txn, approval, cert, thread, sweep>>

-----------------------------------------------------------------------------

CmpInit ==
  /\ updates \in SUBSET Txn /\ implicit \in SUBSET Txn
  /\ device = [t \in Txn |-> [at |-> "new", cert |-> None, sent |-> {}]]
  /\ old = [t \in Txn |-> IF t \in updates THEN "active" ELSE "none"]
  /\ txn = [t \in Txn |-> NoRow]
  /\ approval = [t \in Txn |-> NoRow]
  /\ deciding = [t \in Txn |-> {}] /\ twice = {}
  /\ cert = [c \in Cert |-> [status |-> "none", of |-> None]]
  /\ late = {}
  /\ thread = [h \in Thread |-> Free]
  /\ sweep = {}

Device(t) == Start(t) \/ \E m \in Message : Judge(t, m)

Handler(h) ==
  \/ \E t \in Txn, m \in Message : Load(h, t, m)
  \/ \E c \in Cert : Enroll(h, c)
  \/ AskApproval(h) \/ RequestFails(h)
  \/ Poll(h) \/ Confirm(h) \/ OtherHash(h) \/ OutOfPlace(h) \/ Crash(h)

Decision(t, a) ==
  \/ Decide(t, a) \/ Disapprove(t, a) \/ DecisionFails(t, a)
  \/ \E c \in Cert : Approve(t, a, c)

CmpNext ==
  \/ \E t \in Txn : Device(t) \/ QuarterHour(t) \/ \E a \in Decider : Decision(t, a)
  \/ \E h \in Thread : Handler(h)
  \/ Find \/ ExpireFound

CmpSpec == CmpInit /\ [][CmpNext]_cmpVars

-----------------------------------------------------------------------------
(* Properties *)

CmpTypeOK ==
  /\ updates \subseteq Txn /\ implicit \subseteq Txn /\ late \subseteq Txn /\ sweep \subseteq Txn
  /\ device \in [Txn -> [at : At, cert : Cert \cup {None}, sent : SUBSET Message]]
  /\ old \in [Txn -> {"none", "active", "superseded"}]
  /\ txn \in [Txn -> TxnRow]
  /\ approval \in [Txn -> ApprovalRow]
  /\ deciding \in [Txn -> SUBSET Decider] /\ twice \subseteq Txn
  /\ cert \in [Cert -> [status : {"none", "active", "revoked"}, of : Txn \cup {None}]]
  /\ thread \in [Thread -> [of : Txn \cup {None}, msg : Message \cup {"none"}, txn : TxnRow,
                            approval : ApprovalRow, old : {"none", "active", "superseded"}]]

\* A transaction yields one certificate however often its request is sent, and
\* handled at once, and its approval is polled for, unless two calls of decide
\* overlapped on it; and a key update ends the old certificate only with a new one.
OneCertificate ==
  \A t \in Txn :
    /\ t \notin twice => \A c, d \in Issued(t) : c = d
    /\ old[t] = "superseded" => Issued(t) # {}

\* A certificate that the device refused does not stay valid once the refusal is
\* answered ("If the device rejects the certificate in certConf, Certadillo revokes
\* it", docs/guide/18-cmp.md:79), also when the first answer was lost and the
\* second one is an error; unless the transaction grew too old before, or was
\* decided twice.
RefusedIsRevoked ==
  \A t \in Txn \ (late \cup twice) :
    device[t].at = "told" => \A c \in Issued(t) : cert[c].status = "revoked"

\* A device that has sent its message knows no more than before.
Knows(t) ==
  CASE device[t].at \in {"new", "request", "poll"} -> "nothing"
    [] device[t].at \in {"granted", "accept"} -> "granted"
    [] device[t].at = "refuse" -> "refused"
    [] device[t].at = "done" -> "kept"
    [] OTHER -> device[t].at

Promise == INSTANCE Enrolment WITH
  issued <- [t \in Txn |-> Issued(t)],
  has <- [t \in Txn |-> device[t].cert],
  valid <- {c \in Cert : cert[c].status = "active"},
  knows <- [t \in Txn |-> Knows(t)]

\* However often messages are handled, at once or late, and whatever answers are
\* lost, a transaction is one enrolment: one certificate or none, or several when it
\* was decided twice; the one that the device gets stays valid unless it refuses it,
\* and nothing of it is valid once the refusal of what was decided once is answered
\* in time.
EnrolledOnce == Promise!Spec

=============================================================================
